------------------------------- MODULE MCProxy -------------------------------
(***************************************************************************)
(* Instances of Proxy for TLC.  A uri is a string: its first letter names  *)
(* the host, the digit the path.                                           *)
(***************************************************************************)
EXTENDS ProxyLru, TLC

CONSTANTS c1, c2, c3

AllUris == {"a1", "a2", "a3", "b1"}
PathOf == [u \in AllUris |-> CASE u \in {"a1", "b1"} -> "/1" [] u = "a2" -> "/2" [] u = "a3" -> "/3"]
HostOf == [u \in AllUris |-> IF u = "b1" THEN "b" ELSE "a"]

\* Bodies the cache admits and buf holds; one that the cache does not admit.
SmallBodies == [u \in AllUris |-> 1]
LargeBody == [u \in AllUris |-> IF u = "a1" THEN 4 ELSE 1]
\* No body that the cache admits.
LargeBodies == [u \in AllUris |-> 4]

\* Every client may ask for every page of host a.
AnyPage == [c \in Clients |-> {"a1", "a2", "a3"}]
\* Every client has a page of its own, so every first request is a miss.
OwnPage == [c \in Clients |-> CASE c = c1 -> {"a1"} [] c = c2 -> {"a2"} [] OTHER -> {"a3"}]
\* Client c1 asks host b, the others host a, whose page 1 may be large.
OwnHost == [c \in Clients |-> IF c = c1 THEN {"b1"} ELSE {"a1", "a2"}]
\* Client c1 asks host b for the path that the others ask host a for.
OneEach == [c \in Clients |-> IF c = c1 THEN {"b1"} ELSE {"a1"}]
\* The same path on two hosts.
SamePath == [c \in Clients |-> {"a1", "b1"}]
\* One page for everybody.
OnePage == [c \in Clients |-> {"a1"}]

Symmetry == Permutations(Threads) \cup Permutations(Nodes) \cup Permutations(Cells)
=============================================================================
