--------------------------- MODULE ProxyInvariants ---------------------------
(***************************************************************************)
(* The inductive invariants of Proxy.                                      *)
(*                                                                         *)
(* IInv holds always.  OneByOne holds when the clients come one at a time  *)
(* (MaxActive = 1).  It speaks of the list as a sequence s of nodes: next  *)
(* follows s at every statement, in the middle of an update too, and what  *)
(* prev, size, the allocated blocks and the locals of the thread that      *)
(* serves have to do with s is said for every statement it may execute     *)
(* next.  The definitions take the values of the variables as parameters,  *)
(* so that lemmas can speak of one memory before and after a write.        *)
(*                                                                         *)
(* OnlyMisses holds when every request is for a page of its own and all of *)
(* them fit, however many threads serve at the same time: next then leads  *)
(* only to nodes that are filled in, and from newer nodes to older ones.   *)
(***************************************************************************)
EXTENDS ProxyLru

\* The statements of trans and of what it calls, and Close at the end.
Busy == Labels \ {"none", "t44", "t46"}
Printing == {"print95", "print101", "print102"}
\* Those of cache.c.
InCache == Busy \ {"t65", "hit97", "hit102", "hit104", "miss108", "miss137", "miss159",
                   "reply173", "close48"}

(***************************************************************************)
(* A cell is used by main until it starts a thread, then by that thread    *)
(* until it frees the cell, and by nobody else.                            *)
(***************************************************************************)
CellsOwned ==
  /\ mpc \in {"accept34", "create35"} => connfdp \in cellLive
  /\ \A t \in Threads : pc[t] \in {"t44", "t46"} =>
       /\ arg[t] \in cellLive
       /\ mpc \in {"accept34", "create35"} => arg[t] # connfdp
  /\ \A t, u \in Threads :
       pc[t] \in {"t44", "t46"} /\ pc[u] \in {"t44", "t46"} /\ arg[t] = arg[u] => t = u

\* printDll returns into trans, so the thread does not end inside it.
PrintReturns == \A t \in Threads : pc[t] \in Printing => ret[t] # "none"

\* A client that is connected wants something, a thread that has read a request
\* knows what, and only a slow client has not sent all of it.
RequestKnown ==
  /\ \A c \in Accepted : want[c] \in Uris
  /\ \A c \in Clients : conn[c] \in {"mute", "line", "gone", "left"} => c \in Slow
  /\ \A t \in Threads : pc[t] \in Busy \ {"t65"} => uri[t] \in Uris

(***************************************************************************)
(* What holds of the process whatever the threads do to the list: Proxy's  *)
(* type invariant and the ownership of connections are inductive with it.  *)
(***************************************************************************)
IInv == TypeOK /\ CellsOwned /\ PrintReturns /\ RequestKnown /\ ConnectionOwned

-----------------------------------------------------------------------------
(* The list in memory m as a sequence s of nodes. *)

\* The cell at place i: the dummy node stands before the first node and after the last.
Cell(s, i) == IF i \in 1..Len(s) THEN s[i] ELSE HeadNode
In(s, n) == \E i \in 1..Len(s) : s[i] = n
Without(s, j) == [i \in 1..Len(s) - 1 |-> IF i < j THEN s[i] ELSE s[i + 1]]

Forward(m, s) == \A i \in 0..Len(s) : m[Cell(s, i)].next = Cell(s, i + 1)
\* At every place but k.
Backward(m, s, k) == \A i \in 1..Len(s) + 1 : i # k => m[Cell(s, i)].prev = Cell(s, i - 1)
\* What is kept as body b of path p: a page of that path, or a piece of one.
Page(b, p) == b \in Bodies /\ p \in LruPaths /\ (b \in Uris => Path[b] = p)
\* Every node holds a body for its path, and no path is held twice.
Keyed(m, s) ==
  /\ \A i \in 1..Len(s) : Page(m[s[i]].body, m[s[i]].path)
  /\ \A i, j \in 1..Len(s) : m[s[i]].path = m[s[j]].path => i = j
Absent(m, s, p) == \A i \in 1..Len(s) : m[s[i]].path # p

\* Node n holds path p and is the first, is in the list, or is out of a list without p.
Front(m, s, n, p) == Len(s) > 0 /\ s[1] = n /\ m[n].path = p
Within(m, s, n, p) == \E i \in 1..Len(s) : s[i] = n /\ m[n].path = p
Apart(m, s, n, p) ==
  /\ n \in Nodes /\ ~In(s, n) /\ Absent(m, s, p)
  /\ Page(m[n].body, p) /\ m[n].path = p
\* search has come to n and has not met p.
Reached(m, s, n, p) == \E j \in 1..Len(s) + 1 : n = Cell(s, j) /\ \A i \in 1..j-1 : m[s[i]].path # p

-----------------------------------------------------------------------------
(* What holds of list s before each statement (at label l). *)

\* moveFront and pushFront while the node is out of the list; popBack; and the
\* statements at which the thread's node is the first of the list.
Relinking == {"move84", "move86", "move87", "move88"}
Pushing == {"push16", "push17", "push18"}
Popping == {"pop33", "pop37", "pop38", "pop40", "pop41", "pop43", "pop47", "pop47s"}
First == {"move89", "hit102", "push19", "push21", "push21s", "push24", "push28"} \cup Popping

\* The blocks that are allocated: those of the list, and the one that is out of it.
Loose(l, n, v) == IF l \in Relinking \cup Pushing \cup {"miss159"} THEN {n}
                  ELSE IF l = "pop43" THEN {v} ELSE {}
Allocated(s, l, n, v, lv) == lv = {HeadNode} \cup {s[i] : i \in 1..Len(s)} \cup Loose(l, n, v)

\* prev goes the same way back, except where it is being written; n is the thread's node.
Backwards(m, s, l, n, v) ==
  /\ l \notin {"move84", "move88", "push18", "move89", "push19", "pop41"} => Backward(m, s, 0)
  /\ l = "move84" => \E j \in 0..Len(s) : /\ m[n].prev = Cell(s, j) /\ m[n].next = Cell(s, j + 1)
                                          /\ Backward(m, s, j + 1)
  /\ l \in {"move88", "push18"} => Backward(m, s, 1) /\ m[Cell(s, 1)].prev = n
  /\ l \in {"move89", "push19"} => Backward(m, s, 1)
  /\ l = "pop41" => Backward(m, s, Len(s) + 1) /\ m[HeadNode].prev = Cell(s, Len(s) - 1)
  /\ l \in {"move87", "push17", "move88", "push18"} => m[n].next = Cell(s, 1)

\* dll->size is k, and the register of size++ or size-- holds r.
Counted(s, l, k, r) ==
  /\ l \in Relinking \cup {"pop43", "pop47", "pop47s"} => k = Len(s) + 1
  /\ l \in {"push19", "push21", "push21s"} => k + 1 = Len(s)
  /\ l \notin Relinking \cup {"pop43", "pop47", "pop47s", "push19", "push21", "push21s"} => k = Len(s)
  /\ l \in {"push21s", "pop47s"} => r = k
  /\ l \in Popping => k = Capacity + 1
  /\ l = "push24" => k <= Capacity + 1
  /\ l \notin Popping \cup {"push24"} => k <= Capacity

\* What the thread that serves path p knows of its node.
Known(m, s, l, n, p) ==
  /\ l = "search63" => Reached(m, s, n, p)
  /\ l \in {"hit97", "move83"} => Within(m, s, n, p)
  /\ l \in Relinking \cup Pushing => Apart(m, s, n, p)
  /\ l \in {"miss108", "miss137", "miss159"} => Absent(m, s, p)
  /\ l \in First => Front(m, s, n, p)

\* In printDll, called at e, which has come to node o.
Printed(m, s, l, n, p, e, o) ==
  /\ l \in Printing => /\ e = "search63" => Reached(m, s, n, p)
                       /\ e \in {"hit102", "push28", "reply173"} => Front(m, s, n, p)
  /\ l = "print101" => Len(s) > 0
  /\ l = "print102" => In(s, o)

\* popBack's node is the last one, or is out of the list.
Chosen(s, l, v) ==
  /\ l \in {"pop38", "pop40", "pop41"} => v = s[Len(s)]
  /\ l = "pop43" => v \in Nodes /\ ~In(s, v)

\* The body for u that is kept, or sent from the node or from buf (b).
Holds(m, s, l, n, u, b) ==
  /\ l = "miss159" => n \in Nodes /\ ~In(s, n) /\ Page(m[n].body, Path[u])
  /\ l = "hit104" => In(s, n) /\ Page(b, Path[u])
  /\ l = "reply173" => /\ n \in Nodes /\ Page(m[n].body, Path[u])
                       /\ Length[u] <= MaxObject /\ Fickle = {} => In(s, n)

Listed(s) == s \in Seq(Nodes) /\ Forward(mem, s) /\ Keyed(mem, s)

Where(t, s) ==
  /\ Backwards(mem, s, pc[t], node[t], victim[t])
  /\ Counted(s, pc[t], size, reg[t])
  /\ Allocated(s, pc[t], node[t], victim[t], live)
  /\ Known(mem, s, pc[t], node[t], Key(t))
  /\ Printed(mem, s, pc[t], node[t], Key(t), ret[t], now[t])
  /\ Chosen(s, pc[t], victim[t])
  /\ Holds(mem, s, pc[t], node[t], uri[t], buf[t])

\* When no thread serves.
Rest(s) ==
  /\ Backward(mem, s, 0) /\ size = Len(s) /\ size <= Capacity
  /\ live = {HeadNode} \cup {s[i] : i \in 1..Len(s)}

-----------------------------------------------------------------------------
(* The invariant, when the clients come one at a time. *)

\* The cache admits every page, and buf holds each of them; a client sends its whole
\* request when it connects, and an origin that answers its whole page.
Orderly ==
  /\ \A u \in Uris : Length[u] <= MaxObject /\ Length[u] < MaxBuf
  /\ Slow = {} /\ Fickle = {}

Alone == \A c, d \in Accepted : c = d
Replies == reply \in [Clients -> Uris \cup {Null}]
\* A thread serves the request of the client it holds, if that client has sent any.
Asked == \A t \in Threads :
  pc[t] \in Busy \ {"t65"} /\ conn[Client(t)] # "gone" => uri[t] = want[Client(t)]
ListHeld == \E s : Listed(s) /\ (Serving = {} => Rest(s)) /\ \A t \in Serving : Where(t, s)

OneByOne ==
  /\ IInv /\ Alone /\ Replies /\ Asked /\ ListHeld /\ RightPage
  /\ Orderly => NoUndefinedBehaviour

-----------------------------------------------------------------------------
(* The invariant when every request is a miss and nothing is evicted, however *)
(* many threads serve at the same time. *)

\* Every thread that looks into the cache serves the request of the client it holds.
Served == \A t \in Threads : pc[t] \in Busy \ {"t65"} => uri[t] = want[Client(t)]

\* Every client asks once, and for paths nobody else asks for; the cache has room for all.
OwnPages ==
  /\ ~Again
  /\ \A c, d \in Clients : c # d => \A u \in Asks[c], v \in Asks[d] : Path[u] # Path[v]
Roomy == IsFiniteSet(Clients) /\ Cardinality(Clients) <= Capacity

\* A thread before it has a node for its page, while it has one that dll->size does
\* not count yet, and after.
Looking(t) == \/ pc[t] \in {"t44", "t46", "t65", "search56", "search63", "miss108", "miss137"}
              \/ pc[t] \in Printing /\ ret[t] = "search63"
Storing == {"miss159", "push16", "push17", "push18", "push19", "push21", "push21s"}
Stored(t) == \/ pc[t] \in {"push24", "push28", "reply173"}
             \/ pc[t] \in Printing /\ ret[t] = "reply173"

\* The nodes; those of threads at statements L; those whose next is written; and where a
\* walk along next may come, which is only what line 18 has made the dummy node point at.
Blocks == live \ {HeadNode}
At(L) == {node[t] : t \in {u \in Threads : pc[u] \in L}}
Chained == Blocks \ At({"miss159", "push16"})
Onward == (Blocks \ At(Pushing \cup {"miss159"})) \cup {HeadNode}

\* A node keeps a page somebody has asked for, and its path.
Pages ==
  /\ live \subseteq Addr /\ HeadNode \in live
  /\ \A n \in Blocks : mem[n].body \in Uris /\ \E c \in Clients : want[c] = mem[n].body
  /\ \A n \in Blocks \ At({"miss159"}) : mem[n].path = Path[mem[n].body]

\* next leads from newer nodes to older ones and to the dummy node: rank is the order in
\* which line 16 has written it.
Descends(rank) == \A n \in Chained : mem[n].next \in Nodes => rank[mem[n].next] < rank[n]
Chain ==
  /\ mem[HeadNode].next \in Onward
  /\ \A n \in Chained : mem[n].next \in Onward
  /\ \E rank \in [Nodes -> Nat] : Descends(rank)

\* The clients whose pages dll->size may count (when two threads push at the same time,
\* the update of one can be lost).
Done == {c \in Clients : /\ want[c] # Null
                         /\ conn[c] = "idle" \/ \E t \in Threads : (Stored(t) \/ pc[t] = "close48") /\ Client(t) = c}
Tally == Cardinality(Done)

\* No node keeps the page of client c yet.
NotYet(c) == \A n \in Blocks : mem[n].body # want[c]

\* What thread t knows: no node keeps its page before it has one, search and printDll
\* have come to nodes of the walk, and size++ has loaded what was counted.
Missing(t) ==
  /\ pc[t] \in {"none", "close48"} \cup Storing \/ Looking(t) \/ Stored(t)
  /\ Looking(t) => NotYet(fdt[FdOf(t)])
  /\ pc[t] \in Storing \/ Stored(t) => node[t] \in Blocks /\ mem[node[t]].body = uri[t]
  /\ pc[t] = "search63" \/ (pc[t] \in Printing /\ ret[t] = "search63") => node[t] \in Onward
  /\ pc[t] = "print102" => now[t] \in Onward
  /\ pc[t] = "push21s" => reg[t] \in Nat /\ reg[t] <= Tally

\* The invariant.  OwnPages, Roomy and Orderly keep it.
OnlyMisses ==
  /\ IInv /\ Served /\ Replies /\ RightPage /\ NoUndefinedBehaviour
  /\ Pages /\ Chain
  /\ \A c \in Clients : want[c] \in Asks[c] \cup {Null}
  /\ size \in Nat /\ size <= Tally
  /\ mpc = "create35" => NotYet(fdt[cell[connfdp]])
  /\ \A t \in Threads : Missing(t)

-----------------------------------------------------------------------------
(* What the proofs say of one step. *)

Paths == {Path[u] : u \in Uris} \cup {Null}
Memory == [Addr -> [next : Addr \cup {Null}, prev : Addr \cup {Null},
                    path : Paths, body : Uris \cup {Null}]]

\* The part of TypeOK that the list needs.
Typed == /\ mem \in Memory /\ pc \in [Threads -> Labels]
         /\ node \in [Threads -> Addr \cup {Null}] /\ now \in [Threads -> Addr \cup {Null}]
         /\ victim \in [Threads -> Addr \cup {Null}] /\ reg \in [Threads -> Int] /\ size \in Int
         /\ ret \in [Threads -> {"none", "search63", "hit102", "push28", "reply173"}]
         /\ uri \in [Threads -> Uris \cup {Null}] /\ buf \in [Threads -> Uris \cup {Null}]

\* p->next = q and p->prev = q.
WithNext(m, p, q) == [m EXCEPT ![p].next = q]
WithPrev(m, p, q) == [m EXCEPT ![p].prev = q]

\* List r follows list s in a statement of t.
Follows(t, s, r) ==
  /\ pc[t] = "move83" => \E j \in 1..Len(s) : s[j] = node[t] /\ r = Without(s, j)
  /\ pc[t] \in {"move88", "push18"} => r = <<node[t]>> \o s
  /\ pc[t] = "pop41" => r = Without(s, Len(s))
  /\ pc[t] \notin {"move83", "move88", "push18", "pop41"} => r = s
Goes(t, s) == \E r : Listed(r)' /\ Where(t, r)' /\ Follows(t, s, r)

\* List r, in memory w, is s with the node at place j taken out ...
UnlinkedAt(w, r, s, n, p, j) ==
  /\ r \in Seq(Nodes) /\ Len(r) = Len(s) - 1 /\ Forward(w, r) /\ Keyed(w, r) /\ Apart(w, r, n, p)
  /\ j - 1 \in 0..Len(r) /\ w[n].prev = Cell(r, j - 1) /\ w[n].next = Cell(r, j) /\ Backward(w, r, j)
  /\ {s[i] : i \in 1..Len(s)} = {r[i] : i \in 1..Len(r)} \cup {n}
\* ... with node n linked at the front ...
LinkedAt(w, r, s, n, p) ==
  /\ r \in Seq(Nodes) /\ Len(r) = Len(s) + 1 /\ Forward(w, r) /\ Backward(w, r, 1) /\ Keyed(w, r)
  /\ Front(w, r, n, p)
  /\ {r[i] : i \in 1..Len(r)} = {s[i] : i \in 1..Len(s)} \cup {n}
\* ... with the last node taken off.
CutAt(w, r, s, m) ==
  /\ r \in Seq(Nodes) /\ Len(r) = Len(s) - 1 /\ w \in Memory
  /\ Forward(w, r) /\ Backward(w, r, 0) /\ Keyed(w, r)
  /\ s[Len(s)] \in Nodes /\ ~In(r, s[Len(s)])
  /\ \A n, p : Len(s) > 1 /\ Front(m, s, n, p) => Front(w, r, n, p)
  /\ {s[i] : i \in 1..Len(s)} = {r[i] : i \in 1..Len(r)} \cup {s[Len(s)]}

-----------------------------------------------------------------------------
(* The abstract cache. *)

\* The entry a node holds, and those of a list.
Ent(m, n) == [path |-> m[n].path, body |-> m[n].body]
EntriesOf(m, s) == [k \in 1..Len(s) |-> Ent(m, s[k])]
\* The node moveFront has unlinked counts as being at the front.
Abstracted(m, s, l, n) == IF l \in Relinking THEN <<Ent(m, n)>> \o EntriesOf(m, s) ELSE EntriesOf(m, s)
Kept(q) == SubSeq(q, 1, IF Len(q) <= Capacity THEN Len(q) ELSE Capacity)
LruEntries == [path : LruPaths, body : Bodies]

\* What ProxyLru maps the state to, wherever the thread that serves is.
MappedHolds ==
  /\ \A s : Listed(s) /\ Serving = {} => Mapped = Kept(EntriesOf(mem, s))
  /\ \A t \in Serving : \A s : Listed(s) => Mapped = Kept(Abstracted(mem, s, pc[t], node[t]))

\* When a hit is answered, its entry is the most recent one.
FreshHit == \A t \in Threads : pc[t] = "hit102" => Mapped # << >> /\ Mapped[1].path = Path[uri[t]]
=============================================================================
