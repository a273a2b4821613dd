------------------------------ MODULE ProxyLru ------------------------------
(***************************************************************************)
(* The proxy implements LruCache when its clients come one at a time.  The *)
(* cache of LruCache is the next chain, except that                        *)
(*   - a node that moveFront has unlinked (line 83) and not linked again   *)
(*     (line 88) counts as being at the front, and                         *)
(*   - a node beyond Capacity, which pushFront has not had popBack unlink  *)
(*     yet (lines 18 to 41), does not count.                               *)
(***************************************************************************)
EXTENDS Proxy, Sequences

ChainLength == CHOOSE k \in 0..Cardinality(Nodes) :
                  Walk[k+1] = HeadNode /\ \A j \in 1..k : Walk[j] # HeadNode
Entries == [k \in 1..ChainLength |-> [path |-> mem[Walk[k]].path, body |-> mem[Walk[k]].body]]

Moving == {t \in Threads : pc[t] \in {"move84", "move86", "move87", "move88"}}
Detached == IF Moving = {} THEN << >>
            ELSE LET n == node[CHOOSE t \in Moving : TRUE]
                 IN  <<[path |-> mem[n].path, body |-> mem[n].body]>>

Mapped == LET s == Detached \o Entries
          IN  SubSeq(s, 1, IF Len(s) <= Capacity THEN Len(s) ELSE Capacity)

LruPaths == {Path[u] : u \in Uris}
\* A body is a page, or the piece of one that an origin has left.
Bodies == Uris \cup {b \in {Null} : Fickle # {}}
Lru == INSTANCE LruCache WITH Paths <- LruPaths, lru <- Mapped

(***************************************************************************)
(* The doubly linked list of cache.c, driven by trans, is an LRU cache: a  *)
(* hit makes its entry the most recent one before it is answered, a miss   *)
(* inserts an entry whose path is not cached, and the entry evicted is the *)
(* least recently used.                                                    *)
(***************************************************************************)
CacheIsLru ==
  /\ Lru!Spec
  /\ [](\A t \in Threads : pc[t] = "hit102" => Mapped # << >> /\ Mapped[1].path = Path[uri[t]])
=============================================================================
