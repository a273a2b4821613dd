----------------------------- MODULE CacheSteps -----------------------------
(***************************************************************************)
(* cache.c of the web proxy, executed statement by statement by the        *)
(* threads of proxy.c.  The cache is one circular doubly linked list       *)
(* around a dummy node (HeadNode), in recency order, reached through the   *)
(* global dll; no lock protects it.  A step is one statement of the        *)
(* source, except dll->size++ and dll->size--, which are a load and a      *)
(* store.  A label names the statement: push16 is line 16, in pushFront.   *)
(*                                                                         *)
(* A heap block n \in Nodes stands for a list node together with the body  *)
(* (node.data) and the path the node owns, which popBack frees together.   *)
(* A freed block keeps its contents until malloc hands it out again, and   *)
(* Derefs names the blocks a statement dereferences, so that a module that *)
(* runs these steps can tell a legal access from one to freed memory.      *)
(* A local that goes out of scope, or is never read again, is set back to  *)
(* its initial value, so that two states never differ by a dead variable.  *)
(***************************************************************************)
EXTENDS Integers, FiniteSets

CONSTANTS
  Threads,     \* the threads the process can run
  Uris,        \* what clients ask for
  Path,        \* [Uris -> paths]: the part of a uri the cache key keeps
  Nodes,       \* the heap blocks malloc can return
  HeadNode,    \* the dummy node calloc'ed by newDll
  Null,        \* the contents of a pointer nobody has written yet
  Capacity     \* MAX_CACHE_SIZE / sizeof(node)

ASSUME HeapAssumption ==
  IsFiniteSet(Nodes) /\ HeadNode \notin Nodes /\ Null \notin Nodes /\ Null # HeadNode
\* A page, and the path in its key, is never what an unwritten pointer holds.
ASSUME PathAssumption == Null \notin Uris /\ \A u \in Uris : Path[u] # Null
ASSUME CapacityAssumption == Capacity \in Nat \ {0}

VARIABLES
  mem,         \* the fields of every block: next, prev, path, body
  live,        \* the blocks that are allocated now
  size,        \* dll->size
  pc,          \* the statement each thread executes next
  uri,         \* the request the thread serves
  node,        \* find_node of search, then dll_node of trans
  now,         \* now of printDll
  victim,      \* pop_node of popBack
  reg,         \* the register between the load and the store of dll->size
  ret          \* where printDll returns to

listVars == <<mem, live, size>>
localVars == <<uri, node, now, victim, reg, ret>>

Addr == Nodes \cup {HeadNode}
Key(t) == Path[uri[t]]

(***************************************************************************)
(* newDll: the dummy node linked to itself and a size of zero.             *)
(***************************************************************************)
NewDll ==
  /\ mem = [a \in Addr |->
              IF a = HeadNode THEN [next |-> HeadNode, prev |-> HeadNode, path |-> Null, body |-> Null]
                          ELSE [next |-> Null, prev |-> Null, path |-> Null, body |-> Null]]
  /\ live = {HeadNode}
  /\ size = 0

Goto(t, from, to) == pc[t] = from /\ pc' = [pc EXCEPT ![t] = to]

\* p->next = q and p->prev = q; no step when p is not the address of a block.
SetNext(p, q) == p \in Addr /\ mem' = [mem EXCEPT ![p].next = q]
SetPrev(p, q) == p \in Addr /\ mem' = [mem EXCEPT ![p].prev = q]

\* A call of printDll(dll) that comes back to label back.
CallPrint(t, from, back) == Goto(t, from, "print95") /\ ret' = [ret EXCEPT ![t] = back]

-----------------------------------------------------------------------------
(* printDll *)

Print95(t) ==
  /\ Goto(t, "print95", IF size = 0 THEN ret[t] ELSE "print101")
  /\ UNCHANGED <<listVars, localVars>>

Print101(t) ==
  /\ Goto(t, "print101", "print102")
  /\ now' = [now EXCEPT ![t] = mem[HeadNode].next]
  /\ UNCHANGED <<listVars, uri, node, victim, reg, ret>>

PrintNext(t) ==
  /\ Goto(t, "print102", "print102")
  /\ now[t] \in Addr /\ now[t] # mem[HeadNode].prev
  /\ now' = [now EXCEPT ![t] = mem[now[t]].next]
  /\ UNCHANGED <<listVars, uri, node, victim, reg, ret>>

PrintLast(t) ==
  /\ Goto(t, "print102", ret[t])
  /\ now[t] \in Addr /\ now[t] = mem[HeadNode].prev
  /\ now' = [now EXCEPT ![t] = Null]
  /\ UNCHANGED <<listVars, uri, node, victim, reg, ret>>

-----------------------------------------------------------------------------
(* search *)

Search56(t) ==
  /\ CallPrint(t, "search56", "search63")
  /\ node' = [node EXCEPT ![t] = mem[HeadNode].next]
  /\ UNCHANGED <<listVars, uri, now, victim, reg>>

\* Variant with a defect: the first node matches, whatever its key.
SearchFoundAny(t) ==
  /\ Goto(t, "search63", "hit97")
  /\ node[t] \in Nodes
  /\ UNCHANGED <<listVars, localVars>>

SearchFound(t) ==
  /\ Goto(t, "search63", "hit97")
  /\ node[t] \in Nodes /\ mem[node[t]].path = Key(t)
  /\ UNCHANGED <<listVars, localVars>>

SearchNext(t) ==
  /\ Goto(t, "search63", "search63")
  /\ node[t] \in Nodes /\ mem[node[t]].path # Key(t)
  /\ node' = [node EXCEPT ![t] = mem[node[t]].next]
  /\ UNCHANGED <<listVars, uri, now, victim, reg, ret>>

SearchMiss(t) ==
  /\ Goto(t, "search63", "miss108")
  /\ node[t] = HeadNode
  /\ UNCHANGED <<listVars, localVars>>

-----------------------------------------------------------------------------
(* moveFront *)

\* Variant with a defect: the node is not unlinked from its predecessor.
Move83Skipped(t) ==
  /\ Goto(t, "move83", "move84")
  /\ UNCHANGED <<listVars, localVars>>

Move83(t) ==
  /\ Goto(t, "move83", "move84")
  /\ SetNext(mem[node[t]].prev, mem[node[t]].next)
  /\ UNCHANGED <<live, size, localVars>>

\* Variant with a defect: the node is not unlinked from its successor.
Move84Skipped(t) ==
  /\ Goto(t, "move84", "move86")
  /\ UNCHANGED <<listVars, localVars>>

Move84(t) ==
  /\ Goto(t, "move84", "move86")
  /\ SetPrev(mem[node[t]].next, mem[node[t]].prev)
  /\ UNCHANGED <<live, size, localVars>>

Move86(t) ==
  /\ Goto(t, "move86", "move87")
  /\ SetNext(node[t], mem[HeadNode].next)
  /\ UNCHANGED <<live, size, localVars>>

Move87(t) ==
  /\ Goto(t, "move87", "move88")
  /\ SetPrev(mem[HeadNode].next, node[t])
  /\ UNCHANGED <<live, size, localVars>>

Move88(t) ==
  /\ Goto(t, "move88", "move89")
  /\ SetNext(HeadNode, node[t])
  /\ UNCHANGED <<live, size, localVars>>

Move89(t) ==
  /\ CallPrint(t, "move89", "hit102")
  /\ SetPrev(node[t], HeadNode)
  /\ UNCHANGED <<live, size, uri, node, now, victim, reg>>

-----------------------------------------------------------------------------
(* pushFront *)

\* Variant with a defect: the new node is published with its next unset.
Push16Skipped(t) ==
  /\ Goto(t, "push16", "push17")
  /\ UNCHANGED <<listVars, localVars>>

Push16(t) ==
  /\ Goto(t, "push16", "push17")
  /\ SetNext(node[t], mem[HeadNode].next)
  /\ UNCHANGED <<live, size, localVars>>

Push17(t) ==
  /\ Goto(t, "push17", "push18")
  /\ SetPrev(mem[HeadNode].next, node[t])
  /\ UNCHANGED <<live, size, localVars>>

Push18(t) ==
  /\ Goto(t, "push18", "push19")
  /\ SetNext(HeadNode, node[t])
  /\ UNCHANGED <<live, size, localVars>>

Push19(t) ==
  /\ Goto(t, "push19", "push21")
  /\ SetPrev(node[t], HeadNode)
  /\ UNCHANGED <<live, size, localVars>>

Push21Load(t) ==
  /\ Goto(t, "push21", "push21s")
  /\ reg' = [reg EXCEPT ![t] = size]
  /\ UNCHANGED <<listVars, uri, node, now, victim, ret>>

Push21Store(t) ==
  /\ Goto(t, "push21s", "push24")
  /\ size' = reg[t] + 1
  /\ reg' = [reg EXCEPT ![t] = 0]
  /\ UNCHANGED <<mem, live, uri, node, now, victim, ret>>

\* size is an int and sizeof a size_t: a negative size is compared as a huge one.
Full == size < 0 \/ size > Capacity

Push24(t) ==
  /\ Goto(t, "push24", IF Full THEN "pop33" ELSE "push28")
  /\ UNCHANGED <<listVars, localVars>>

Push28(t) ==
  /\ CallPrint(t, "push28", "reply173")
  /\ UNCHANGED <<listVars, uri, node, now, victim, reg>>

-----------------------------------------------------------------------------
(* popBack *)

Pop33(t) ==
  /\ Goto(t, "pop33", IF size = 0 THEN "push28" ELSE "pop37")
  /\ UNCHANGED <<listVars, localVars>>

Pop37(t) ==
  /\ Goto(t, "pop37", "pop38")
  /\ victim' = [victim EXCEPT ![t] = mem[HeadNode].prev]
  /\ UNCHANGED <<listVars, uri, node, now, reg, ret>>

\* The copy of cache_key: read, returned, and used by nobody.
Pop38(t) ==
  /\ Goto(t, "pop38", "pop40")
  /\ victim[t] \in Addr
  /\ UNCHANGED <<listVars, localVars>>

Pop40(t) ==
  /\ Goto(t, "pop40", "pop41")
  /\ SetPrev(HeadNode, mem[victim[t]].prev)
  /\ UNCHANGED <<live, size, localVars>>

\* Variant with a defect: the evicted node stays on the next chain.
Pop41Skipped(t) ==
  /\ Goto(t, "pop41", "pop43")
  /\ UNCHANGED <<listVars, localVars>>

Pop41(t) ==
  /\ Goto(t, "pop41", "pop43")
  /\ SetNext(mem[victim[t]].prev, HeadNode)
  /\ UNCHANGED <<live, size, localVars>>

Pop43(t) ==
  /\ Goto(t, "pop43", "pop47")
  /\ live' = live \ {victim[t]}
  /\ victim' = [victim EXCEPT ![t] = Null]
  /\ UNCHANGED <<mem, size, uri, node, now, reg, ret>>

Pop47Load(t) ==
  /\ Goto(t, "pop47", "pop47s")
  /\ reg' = [reg EXCEPT ![t] = size]
  /\ UNCHANGED <<listVars, uri, node, now, victim, ret>>

Pop47Store(t) ==
  /\ CallPrint(t, "pop47s", "push28")
  /\ size' = reg[t] - 1
  /\ reg' = [reg EXCEPT ![t] = 0]
  /\ UNCHANGED <<mem, live, uri, node, now, victim>>

-----------------------------------------------------------------------------
(* What the threads have in common *)

ListStep(t) ==
  \/ Print95(t)   \/ Print101(t)    \/ PrintNext(t)    \/ PrintLast(t)
  \/ Search56(t)  \/ SearchFound(t) \/ SearchNext(t)   \/ SearchMiss(t)
  \/ Move83(t)    \/ Move84(t)      \/ Move86(t)
  \/ Move87(t)    \/ Move88(t)      \/ Move89(t)
  \/ Push16(t)    \/ Push17(t)      \/ Push18(t)       \/ Push19(t)
  \/ Push21Load(t) \/ Push21Store(t) \/ Push24(t)      \/ Push28(t)
  \/ Pop33(t)     \/ Pop37(t)       \/ Pop38(t)        \/ Pop40(t)
  \/ Pop41(t)     \/ Pop43(t)       \/ Pop47Load(t)    \/ Pop47Store(t)

\* The blocks the next statement of thread t dereferences.
ListDerefs(t) ==
  CASE pc[t] \in {"print101", "search56", "push18", "move88", "pop37"} -> {HeadNode}
    [] pc[t] \in {"push19", "push28", "move89"} -> {node[t]}
    [] pc[t] \in {"push16", "move86"}  -> {HeadNode, node[t]}
    [] pc[t] \in {"push17", "move87"}  -> {HeadNode, mem[HeadNode].next}
    [] pc[t] = "print102"              -> {HeadNode, now[t]}
    [] pc[t] = "search63"              -> {node[t]} \ {HeadNode}
    [] pc[t] = "move83"                -> {node[t], mem[node[t]].prev}
    [] pc[t] = "move84"                -> {node[t], mem[node[t]].next}
    [] pc[t] \in {"pop38", "pop43"}    -> {victim[t]}
    [] pc[t] = "pop40"                 -> {HeadNode, victim[t]}
    [] pc[t] = "pop41"                 -> {victim[t], mem[victim[t]].prev}
    [] OTHER                           -> {}
=============================================================================
