--------------------------- MODULE DoublyLinkedList ---------------------------
(***************************************************************************)
(* doublyLinkedList.c, one step for each call: a ring through a dummy      *)
(* node.  The code writes the two ends separately, with next and prev      *)
(* exchanged; here the link is an argument.  search and printDll only read.*)
(***************************************************************************)
EXTENDS ListNodes

CONSTANT HeadNode      \* the dummy node, which newDll allocates

RingAssumption == ListAssumption /\ HeadNode \notin Nodes \cup {Null}

VARIABLES
  list,        \* size, and the fields of every node
  live         \* the nodes that are allocated

vars == <<list, live>>

Link == {"next", "prev"}
Back(d) == IF d = "next" THEN "prev" ELSE "next"

NewDll == [size |-> 0, key |-> [n \in Nodes |-> 0],
           link |-> [n \in Nodes \cup {HeadNode} |-> [d \in Link |-> IF n = HeadNode THEN HeadNode ELSE Null]]]
Following(d) == [n \in Nodes |-> list.link[n][d]]
Now(d) == Chain(list.link[HeadNode][d], Following(d), HeadNode)

Freed(l, n) == [l EXCEPT !.link[n] = [d \in Link |-> Null], !.key[n] = 0]

\* Variant with a defect: the old first node is not linked back.
PushOneWay(d, k) ==
  \E n \in Nodes \ live :
    /\ list' = [list EXCEPT !.key[n] = k, !.size = @ + 1, !.link[HeadNode][d] = n,
                            !.link[n] = [e \in Link |-> IF e = d THEN list.link[HeadNode][d] ELSE HeadNode]]
    /\ live' = live \cup {n}

\* pushFront for next, pushBack for prev.
Push(d, k) ==
  \E n \in Nodes \ live :
    /\ list' = LET first == list.link[HeadNode][d]
                   linked == [list EXCEPT !.link[n][d] = first, !.link[first][Back(d)] = n]
               IN  [linked EXCEPT !.key[n] = k, !.link[HeadNode][d] = n,
                                  !.link[n][Back(d)] = HeadNode, !.size = @ + 1]
    /\ live' = live \cup {n}

\* popFront for next, popBack for prev.
Pop(d) ==
  /\ list.size # 0
  /\ LET n == list.link[HeadNode][d]
         short == [list EXCEPT !.link[HeadNode][d] = list.link[n][d]]
     IN  /\ list' = Freed([short EXCEPT !.link[list.link[n][d]][Back(d)] = HeadNode, !.size = @ - 1], n)
         /\ live' = live \ {n}

\* Variant with a defect: the loop stops one node too late.
RemoveNext(i) ==
  /\ list.size > i + 1
  /\ LET n == Now("next")[i+2]
         left == list.link[n]["prev"]
         right == list.link[n]["next"]
     IN  /\ list' = Freed([list EXCEPT !.link[left]["next"] = right, !.link[right]["prev"] = left,
                                       !.size = @ - 1], n)
         /\ live' = live \ {n}

RemoveIdx(i) ==
  /\ list.size > i
  /\ LET n == Now("next")[i+1]
         left == list.link[n]["prev"]
         right == list.link[n]["next"]
     IN  /\ list' = Freed([list EXCEPT !.link[left]["next"] = right, !.link[right]["prev"] = left,
                                       !.size = @ - 1], n)
         /\ live' = live \ {n}

\* deleteList, then newDll.
DeleteList ==
  /\ list' = NewDll
  /\ live' = live \ NodesOf(Now("next"))

Init == list = NewDll /\ live = {}

Indices == 0..Cardinality(Nodes)-1
Next ==
  \/ \E d \in Link : Pop(d) \/ \E k \in Keys : Push(d, k)
  \/ \E i \in Indices : RemoveIdx(i)
  \/ DeleteList

Spec == Init /\ [][Next]_vars
-----------------------------------------------------------------------------

(***************************************************************************)
(* The list is a ring in both directions through every allocated node, and *)
(* size, by which the pops and removeIdx know what is there, counts them.  *)
(***************************************************************************)
Ring ==
  /\ \A d \in Link : NodesOf(Now(d)) = live /\ Distinct(Now(d))
  /\ \A n \in live \cup {HeadNode} : \A d \in Link : list.link[list.link[n][d]][Back(d)] = n
  /\ list.size = Cardinality(live)

(***************************************************************************)
(* Every call does to the list what its name says.                         *)
(***************************************************************************)
AsDeque == INSTANCE Deque WITH seq <- KeysOf(Now("next"), list.key)
IsDeque ==
  /\ AsDeque!Init
  /\ [][/\ \A k \in Keys : Push("next", k) => AsDeque!PushFront(k)
        /\ \A k \in Keys : Push("prev", k) => AsDeque!PushBack(k)
        /\ Pop("next") => AsDeque!PopFront
        /\ Pop("prev") => AsDeque!PopBack
        /\ \A i \in Indices : RemoveIdx(i) => AsDeque!Remove(i)]_vars
=============================================================================
