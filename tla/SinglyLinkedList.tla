--------------------------- MODULE SinglyLinkedList ---------------------------
(***************************************************************************)
(* singlyLinkedList.c, one step for each call.  print and search only read.*)
(*                                                                         *)
(* removeIdx takes the whole list away when the index is 0 or less, and    *)
(* never corrects size, so that later calls may walk past the end.         *)
(***************************************************************************)
EXTENDS ListNodes

VARIABLES
  list,        \* head, size, and the fields of every node
  live,        \* the nodes that are allocated
  status       \* "running", or "crashed" on the null pointer

vars == <<list, live, status>>

NewSll == [head |-> Null, size |-> 0, next |-> [n \in Nodes |-> Null], key |-> [n \in Nodes |-> 0]]
Now == Chain(list.head, list.next, Null)
Last == Now[Len(Now)]
Running == status = "running" /\ UNCHANGED status

\* The contents of a freed node are forgotten.
Freed(l, n) == [l EXCEPT !.next[n] = Null, !.key[n] = 0]

PushFront(k) ==
  /\ Running
  /\ \E n \in Nodes \ live :
       /\ list' = [list EXCEPT !.key[n] = k, !.next[n] = list.head, !.head = n, !.size = @ + 1]
       /\ live' = live \cup {n}

\* Variant with a defect: the first node is always followed.
PushBackSecond(k) ==
  /\ Running
  /\ \E n \in Nodes \ live :
       /\ list' = LET new == [list EXCEPT !.key[n] = k, !.size = @ + 1]
                  IN  IF list.head = Null THEN [new EXCEPT !.head = n]
                      ELSE [new EXCEPT !.next[list.head] = n]
       /\ live' = live \cup {n}

PushBack(k) ==
  /\ Running
  /\ \E n \in Nodes \ live :
       /\ list' = LET new == [list EXCEPT !.key[n] = k, !.size = @ + 1]
                  IN  IF list.head = Null THEN [new EXCEPT !.head = n]
                      ELSE [new EXCEPT !.next[Last] = n]
       /\ live' = live \cup {n}

PopFront ==
  /\ Running /\ list.head # Null
  /\ list' = Freed([list EXCEPT !.head = list.next[list.head], !.size = @ - 1], list.head)
  /\ live' = live \ {list.head}

\* Variant with a defect: the new last node is not cut off from the old one.
PopBackUncut ==
  /\ Running /\ list.head # Null
  /\ list' = LET shorter == [list EXCEPT !.size = @ - 1]
             IN  IF Len(Now) = 1 THEN Freed([shorter EXCEPT !.head = Null], Last) ELSE shorter
  /\ live' = live \ {Last}

PopBack ==
  /\ Running /\ list.head # Null
  /\ list' = LET shorter == [list EXCEPT !.size = @ - 1]
             IN  Freed(IF Len(Now) = 1 THEN [shorter EXCEPT !.head = Null]
                       ELSE [shorter EXCEPT !.next[Now[Len(Now) - 1]] = Null], Last)
  /\ live' = live \ {Last}

\* removeIdx(0) forgets the rest of the list, and so does a negative index,
\* which passes the test too, also when the list is empty.
RemoveFirst(i) ==
  /\ Running /\ i <= 0 /\ list.size > i
  /\ live' = live \ {list.head}
  /\ list' = IF list.head = Null THEN list ELSE Freed([list EXCEPT !.head = Null], list.head)

RemoveIdx(i) ==
  /\ Running /\ i > 0 /\ list.size > i /\ Len(Now) > i
  /\ live' = live \ {Now[i+1]}
  /\ list' = Freed([list EXCEPT !.next[Now[i]] = list.next[Now[i+1]]], Now[i+1])

RemovePastEnd(i) ==
  /\ status = "running" /\ i > 0 /\ list.size > i /\ Len(Now) <= i
  /\ status' = "crashed"
  /\ UNCHANGED <<list, live>>

\* deleteList, then newSll.
DeleteList ==
  /\ Running
  /\ list' = NewSll
  /\ live' = live \ NodesOf(Now)

\* size is not bounded after removeIdx: programs keep it below MaxSize.
MaxSize == Cardinality(Nodes) + 1

Init == list = NewSll /\ live = {} /\ status = "running"

Next ==
  \/ list.size < MaxSize /\ \E k \in Keys : PushFront(k) \/ PushBack(k)
  \/ PopFront \/ PopBack \/ DeleteList
  \/ \E i \in {-1, 0} : RemoveFirst(i)
  \/ \E i \in 1..MaxSize : RemoveIdx(i) \/ RemovePastEnd(i)

Spec == Init /\ [][Next]_vars
-----------------------------------------------------------------------------

(***************************************************************************)
(* The list leads through allocated nodes only, meets none twice, and has  *)
(* at most size nodes: pushes and pops never count too low.                *)
(***************************************************************************)
ChainSound ==
  /\ NodesOf(Now) \subseteq live /\ Distinct(Now)
  /\ Len(Now) <= list.size

(***************************************************************************)
(* Every call but removeIdx(i), i <= 0, does to the list what its name     *)
(* says, also when size has been wrong for a while.                        *)
(***************************************************************************)
AsDeque == INSTANCE Deque WITH seq <- KeysOf(Now, list.key)
IsDeque ==
  /\ AsDeque!Init
  /\ [][/\ \A k \in Keys : PushFront(k) => AsDeque!PushFront(k)
        /\ \A k \in Keys : PushBack(k) => AsDeque!PushBack(k)
        /\ PopFront => AsDeque!PopFront
        /\ PopBack => AsDeque!PopBack
        /\ \A i \in 1..MaxSize : RemoveIdx(i) => AsDeque!Remove(i)]_vars
=============================================================================
