------------------------------ MODULE RbTreeProofs -----------------------------
(***************************************************************************)
(* rbtree.c, for any number of nodes and any sequence of calls: parents    *)
(* and children agree, no node is lost, the keys are in search order and   *)
(* the colour constraints hold, through every activation of the two        *)
(* checks; a search, min, max and the array find what is there; and the    *)
(* tree implements a multiset of keys.                                     *)
(*                                                                         *)
(* The inductive invariant, TreeInv, has three parts.  IsTree is about the *)
(* links and gives every node a depth, so that there is no cycle.  InOrder *)
(* gives every node the set of the nodes at and below it, which the two    *)
(* sides and the node itself divide, and the order of the keys between     *)
(* them.  Coloured gives every node a weight, the number of black nodes on *)
(* each path down from it, and says at which one link, and by how much,    *)
(* the weights do not add up while an erasure is under way.                *)
(*                                                                         *)
(* What is recursive in the code (the descents, the walks over a subtree,  *)
(* the height) is a recursive function here.  That it has a value at all   *)
(* is proved first: each link leads to a smaller subtree.                  *)
(***************************************************************************)
EXTENDS RbTree, SequenceFacts, TLAPS, WellFoundedInduction, FiniteSetTheorems

-----------------------------------------------------------------------------
(* Recursion. *)

\* f is what a walk from a along next comes to, where stop[b] says that it ends at b with val[b].
Walks(f, A, stop, val, next) == f = [a \in A |-> IF stop[a] THEN val[a] ELSE f[next[a]]]

\* A walk along which something gets less with every step ends somewhere.
LEMMA Descends ==
  ASSUME NEW A, NEW stop, NEW val, NEW next, NEW height \in [A -> Nat],
         \A a \in A : ~stop[a] => next[a] \in A /\ height[next[a]] < height[a]
  PROVE  \E f : Walks(f, A, stop, val, next)
<1> DEFINE Low(m) == {a \in A : height[a] < m}
           Known(m) == \E f : f = [a \in Low(m) |-> IF stop[a] THEN val[a] ELSE f[next[a]]]
           Done == {m \in Nat : Known(m)}
<1>1. Known(0)
  <2> DEFINE f == [a \in Low(0) |-> val[a]]
  <2>1. Low(0) = {}
    OBVIOUS
  <2>2. f = [a \in Low(0) |-> IF stop[a] THEN val[a] ELSE f[next[a]]]
    BY <2>1
  <2> QED BY <2>2
<1>2. ASSUME NEW m \in Nat, Known(m) PROVE Known(m + 1)
  <2>1. PICK f : f = [a \in Low(m) |-> IF stop[a] THEN val[a] ELSE f[next[a]]]
    BY <1>2
  <2> DEFINE g == [a \in Low(m + 1) |-> IF stop[a] THEN val[a] ELSE f[next[a]]]
  <2>2. \A a \in Low(m + 1) : ~stop[a] => next[a] \in Low(m) /\ next[a] \in Low(m + 1)
    OBVIOUS
  <2>3. \A a \in Low(m) : a \in Low(m + 1) /\ f[a] = (IF stop[a] THEN val[a] ELSE f[next[a]])
    BY <2>1
  <2> HIDE DEF Low
  <2>4. \A a \in Low(m) : g[a] = f[a]
    BY <2>3
  <2>5. g = [a \in Low(m + 1) |-> IF stop[a] THEN val[a] ELSE g[next[a]]]
    <3>1. \A a \in Low(m + 1) : (IF stop[a] THEN val[a] ELSE g[next[a]]) = IF stop[a] THEN val[a] ELSE f[next[a]]
      BY <2>2, <2>4
    <3> HIDE DEF g
    <3>2. g = [a \in Low(m + 1) |-> IF stop[a] THEN val[a] ELSE f[next[a]]]
      BY DEF g
    <3> QED BY <3>1, <3>2
  <2> QED BY <2>5
<1> HIDE DEF Known
<1>3. Nat \subseteq Done
  <2>1. 0 \in Done /\ \A m \in Nat \cap Done : m + 1 \in Done
    BY <1>1, <1>2
  <2> HIDE DEF Done
  <2> QED BY <2>1, Counting
<1>4. \A m \in Nat : Known(m)
  BY <1>3
<1> DEFINE F(m) == CHOOSE f : f = [a \in Low(m) |-> IF stop[a] THEN val[a] ELSE f[next[a]]]
<1>5. \A m \in Nat : F(m) = [a \in Low(m) |-> IF stop[a] THEN val[a] ELSE F(m)[next[a]]]
  BY <1>4 DEF Known
<1> HIDE DEF F
<1>6. ASSUME NEW m \in Nat, NEW k \in Nat, m <= k PROVE \A a \in Low(m) : F(m)[a] = F(k)[a]
  <2> DEFINE Agrees(l) == \A a \in Low(m) : height[a] < l => F(m)[a] = F(k)[a]
             Agreed == {l \in Nat : Agrees(l)}
  <2>1. \A a \in Low(m) : /\ a \in Low(k) /\ height[a] \in Nat
                          /\ ~stop[a] => next[a] \in Low(m) /\ height[next[a]] < height[a]
    BY <1>6
  <2>2. \A a \in Low(m) : /\ F(m)[a] = IF stop[a] THEN val[a] ELSE F(m)[next[a]]
                          /\ F(k)[a] = IF stop[a] THEN val[a] ELSE F(k)[next[a]]
    BY <1>5, <2>1
  <2> HIDE DEF Low
  <2>3. 0 \in Agreed
    BY <2>1
  <2>4. ASSUME NEW l \in Nat, Agrees(l) PROVE Agrees(l + 1)
    <3> SUFFICES ASSUME NEW a \in Low(m), height[a] < l + 1 PROVE F(m)[a] = F(k)[a]
      OBVIOUS
    <3>1. ~stop[a] => next[a] \in Low(m) /\ height[next[a]] < l
      BY <2>1
    <3> QED BY <2>2, <2>4, <3>1
  <2> HIDE DEF Agrees
  <2>5. Nat \subseteq Agreed
    <3>1. \A l \in Nat \cap Agreed : l + 1 \in Agreed
      BY <2>4
    <3> HIDE DEF Agreed
    <3> QED BY <2>3, <3>1, Counting
  <2>6. \A a \in Low(m) : height[a] + 1 \in Nat /\ height[a] < height[a] + 1
    BY <2>1
  <2> QED BY <2>5, <2>6 DEF Agrees
<1> DEFINE g == [a \in A |-> F(height[a] + 1)[a]]
<1>7. g = [a \in A |-> IF stop[a] THEN val[a] ELSE g[next[a]]]
  <2>1. ASSUME NEW a \in A PROVE g[a] = IF stop[a] THEN val[a] ELSE g[next[a]]
    <3> DEFINE n == height[a] + 1
    <3>1. n \in Nat /\ a \in Low(n)
      OBVIOUS
    <3>2. g[a] = IF stop[a] THEN val[a] ELSE F(n)[next[a]]
      BY <1>5, <3>1
    <3>3. ASSUME ~stop[a] PROVE g[next[a]] = F(n)[next[a]]
      <4> DEFINE m == height[next[a]] + 1
      <4>1. next[a] \in A /\ m \in Nat /\ m <= n /\ next[a] \in Low(m)
        BY <3>3
      <4>2. g[next[a]] = F(m)[next[a]]
        BY <4>1
      <4> HIDE DEF m, n, Low, g
      <4> QED BY <1>6, <3>1, <4>1, <4>2
    <3> QED BY <3>2, <3>3
  <2>2. g = [a \in A |-> g[a]]
    OBVIOUS
  <2> HIDE DEF g
  <2> QED BY <2>1, <2>2
<1> QED BY <1>7 DEF Walks

-----------------------------------------------------------------------------
(* The links. *)

Fields(t) ==
  t \in [root : Addr, child : [Addr -> [Side -> Addr \cup {Null}]], parent : [Addr -> Addr \cup {Null}],
         color : [Addr -> {"red", "black"}], key : [Addr -> Int]]

\* Linked, of a tree in the middle of an activation.
LinkedIn(t) ==
  /\ t.root = Nil <=> live = {}
  /\ t.root # Nil => t.root \in live /\ t.parent[t.root] = Nil
  /\ \A a \in live :
       /\ \A d \in Side : t.child[a][d] # Nil => /\ t.child[a][d] \in live \ {t.root}
                                                 /\ t.parent[t.child[a][d]] = a
       /\ t.child[a]["left"] = t.child[a]["right"] => t.child[a]["left"] = Nil
  /\ \A a \in live \ {t.root} :
       t.parent[a] \in live /\ \E d \in Side : t.child[t.parent[a]][d] = a

\* Nodes have depths, each more than its parent's.
Acyclic(t) ==
  \E depth \in [live -> Nat] : \A a \in live \ {t.root} : depth[t.parent[a]] < depth[a]

IsTree(t) == Fields(t) /\ live \subseteq Nodes /\ LinkedIn(t) /\ Acyclic(t)

LEMMA LinkedInIsLinked == LinkedIn(tree) <=> Linked
BY DEF LinkedIn, Linked, RootLinked, ChildrenLinked, ParentsLinked

LEMMA Sides ==
  ASSUME NEW d \in Side
  PROVE  Other(d) \in Side /\ Other(d) # d /\ Other(Other(d)) = d /\ \A e \in Side : e = d \/ e = Other(d)
BY DEF Side, Other

\* A colour or the sentinel's parent is not part of the links.
LEMMA SameLinks ==
  ASSUME NEW t, NEW s, IsTree(t), Fields(s), s.root = t.root, s.child = t.child,
         \A a \in Nodes : s.parent[a] = t.parent[a]
  PROVE  IsTree(s)
<1>1. \A a \in live : a \in Nodes /\ a # Nil /\ s.parent[a] = t.parent[a]
  BY NodesAssumption DEF IsTree
<1>2. LinkedIn(s)
  BY <1>1 DEF IsTree, LinkedIn
<1>3. Acyclic(s)
  BY <1>1 DEF IsTree, Acyclic
<1> QED BY <1>2, <1>3 DEF IsTree

LEMMA PaintKeepsTree ==
  ASSUME NEW t, IsTree(t), NEW a, NEW c \in {"red", "black"}
  PROVE  /\ IsTree(Paint(t, a, c))
         /\ Paint(t, a, c).root = t.root /\ Paint(t, a, c).child = t.child
         /\ Paint(t, a, c).parent = t.parent
<1>1. /\ Fields(Paint(t, a, c)) /\ Paint(t, a, c).root = t.root /\ Paint(t, a, c).child = t.child
      /\ Paint(t, a, c).parent = t.parent
  BY DEF Paint, Fields, IsTree
<1> QED BY <1>1, SameLinks

-----------------------------------------------------------------------------
\* Rotation.

\* The nodes a rotation at z concerns, and how they are distinct.
LEMMA Neighbours ==
  ASSUME NEW t, IsTree(t), NEW z \in live, NEW d \in Side, t.child[z][Other(d)] # Nil
  PROVE  LET x == t.child[z][Other(d)]
             b == t.child[x][d]
             p == t.parent[z]
         IN  /\ x \in live /\ x # z /\ t.parent[x] = z /\ x # t.root
             /\ b # Nil => b \in live /\ b \notin {x, z, p, t.root} /\ t.parent[b] = x
             /\ p # Nil => /\ z # t.root /\ p \in live /\ p \notin {x, z} /\ SideOf(t, z) \in Side
                           /\ t.child[p][SideOf(t, z)] = z /\ t.child[p][Other(SideOf(t, z))] # z
             /\ p = Nil => z = t.root
<1> DEFINE x == t.child[z][Other(d)]
           b == t.child[x][d]
           p == t.parent[z]
<1>1. PICK depth \in [live -> Nat] : \A a \in live \ {t.root} : depth[t.parent[a]] < depth[a]
  BY DEF IsTree, Acyclic
<1>2. x \in live /\ t.parent[x] = z /\ x # t.root /\ depth[z] < depth[x]
  BY <1>1, Sides DEF IsTree, LinkedIn
<1>3. ASSUME b # Nil PROVE b \in live /\ t.parent[b] = x /\ b # t.root /\ depth[x] < depth[b]
  BY <1>1, <1>2, <1>3 DEF IsTree, LinkedIn
<1>4. ASSUME p # Nil
      PROVE  /\ z # t.root /\ p \in live /\ depth[p] < depth[z]
             /\ SideOf(t, z) \in Side /\ t.child[p][SideOf(t, z)] = z /\ t.child[p][Other(SideOf(t, z))] # z
  <2>1. z # t.root /\ p \in live /\ depth[p] < depth[z]
    BY <1>1, <1>4 DEF IsTree, LinkedIn
  <2>2. \E e \in Side : t.child[p][e] = z
    BY <2>1 DEF IsTree, LinkedIn
  <2>3. z # Nil
    BY NodesAssumption DEF IsTree
  <2>4. t.child[p]["left"] = t.child[p]["right"] => t.child[p]["left"] = Nil
    BY <2>1 DEF IsTree, LinkedIn
  <2> QED BY <2>1, <2>2, <2>3, <2>4 DEF SideOf, Side, Other
<1>5. p = Nil => z = t.root
  BY NodesAssumption DEF IsTree, LinkedIn
<1>6. \A a \in live : depth[a] \in Nat
  BY <1>1
<1> HIDE DEF b, p, x
<1>7. x # z
  BY <1>2, <1>6
<1>8. b # Nil => b \notin {x, z, p, t.root}
  BY <1>2, <1>3, <1>4, <1>5, <1>6, NodesAssumption DEF IsTree
<1>9. p # Nil => p \notin {x, z}
  BY <1>2, <1>4, <1>6
<1> QED BY <1>2, <1>3, <1>4, <1>5, <1>7, <1>8, <1>9 DEF b, p, x

\* Which links a rotation sets.
LEMMA RotateSets ==
  ASSUME NEW t, IsTree(t), NEW z \in live, NEW d \in Side, t.child[z][Other(d)] # Nil
  PROVE  LET x == t.child[z][Other(d)]
             b == t.child[x][d]
             p == t.parent[z]
             r == Rotate(t, z, d)
         IN  /\ Fields(r) /\ r.color = t.color /\ r.key = t.key
             /\ r.root = IF z = t.root THEN x ELSE t.root
             /\ r.child[z][d] = t.child[z][d] /\ r.child[z][Other(d)] = b
             /\ r.child[x][d] = z /\ r.child[x][Other(d)] = t.child[x][Other(d)]
             /\ p # Nil => /\ r.child[p][SideOf(t, z)] = x
                           /\ r.child[p][Other(SideOf(t, z))] = t.child[p][Other(SideOf(t, z))]
             /\ \A a \in live \ {x, z, p} : \A e \in Side : r.child[a][e] = t.child[a][e]
             /\ r.parent[x] = p /\ r.parent[z] = x /\ (b # Nil => r.parent[b] = z)
             /\ \A a \in Addr \ ({x, z, b} \ {Nil}) : r.parent[a] = t.parent[a]
<1> DEFINE x == t.child[z][Other(d)]
           b == t.child[x][d]
           p == t.parent[z]
           r == Rotate(t, z, d)
           hung == IF p = Nil THEN t.child ELSE [t.child EXCEPT ![p] = [@ EXCEPT ![SideOf(t, z)] = x]]
<1>1. /\ x \in live /\ x # z /\ t.parent[x] = z /\ x # t.root
      /\ b # Nil => b \in live /\ b \notin {x, z, p, t.root} /\ t.parent[b] = x
      /\ p # Nil => /\ z # t.root /\ p \in live /\ p \notin {x, z} /\ SideOf(t, z) \in Side
      /\ z # Nil /\ x # Nil
  BY Neighbours, NodesAssumption DEF IsTree
<1>2. /\ r.child = [[hung EXCEPT ![x][d] = z] EXCEPT ![z][Other(d)] = b]
      /\ r.parent = [t.parent EXCEPT ![x] = p, ![z] = x, ![b] = IF b = Nil THEN t.parent[b] ELSE z]
      /\ r.root = (IF z = t.root THEN x ELSE t.root) /\ r.color = t.color /\ r.key = t.key
      /\ r = [root |-> r.root, child |-> r.child, parent |-> r.parent, color |-> r.color, key |-> r.key]
  <2> DEFINE h == IF p = Nil THEN t ELSE [t EXCEPT !.child[p][SideOf(t, z)] = x]
  <2>1. r = [h EXCEPT !.child[x][d] = z, !.child[z][Other(d)] = b,
                      !.parent = [@ EXCEPT ![x] = p, ![z] = x, ![b] = IF b = Nil THEN t.parent[b] ELSE z],
                      !.root = IF z = t.root THEN x ELSE t.root]
    BY <1>1 DEF Rotate
  <2>2. h = [root |-> t.root, child |-> hung, parent |-> t.parent, color |-> t.color, key |-> t.key]
    BY DEF IsTree, Fields
  <2>3. Fields(h) /\ x \in Addr /\ z \in Addr /\ p \in Addr \cup {Null} /\ Other(d) \in Side
    BY <1>1, Sides DEF IsTree, Fields, Addr
  <2>4. h.root = t.root /\ h.child = hung /\ h.parent = t.parent /\ h.color = t.color /\ h.key = t.key
    BY <2>2
  <2> HIDE DEF h, x, b, p, hung, r
  <2>5. r.root = (IF z = h.root THEN x ELSE h.root) /\ r.color = h.color /\ r.key = h.key
    <3>1. r.root = IF z = h.root THEN x ELSE h.root
      BY <2>1, <2>3, <2>4 DEF Fields
    <3>2. r.color = h.color /\ r.key = h.key
      BY <2>1, <2>3 DEF Fields
    <3> QED BY <3>1, <3>2
  <2>6. r.child = [[h.child EXCEPT ![x][d] = z] EXCEPT ![z][Other(d)] = b]
    BY <2>1, <2>3, SMTT(20) DEF Fields
  <2>7. r.parent = [h.parent EXCEPT ![x] = p, ![z] = x, ![b] = IF b = Nil THEN t.parent[b] ELSE z]
    BY <2>1, <2>3 DEF Fields
  <2>8. r = [root |-> r.root, child |-> r.child, parent |-> r.parent, color |-> r.color, key |-> r.key]
    BY <2>1, <2>3 DEF Fields
  <2> QED BY <2>4, <2>5, <2>6, <2>7, <2>8
<1>3. /\ t.child \in [Addr -> [Side -> Addr \cup {Null}]] /\ t.parent \in [Addr -> Addr \cup {Null}]
      /\ t.root \in Addr /\ t.color \in [Addr -> {"red", "black"}] /\ t.key \in [Addr -> Int]
      /\ \A a \in live : a \in Addr /\ a # Nil
      /\ x \in Addr /\ z \in Addr /\ b \in Addr \cup {Null} /\ p \in Addr \cup {Null}
      /\ Other(d) \in Side /\ Other(d) # d /\ \A e \in Side : e = d \/ e = Other(d)
      /\ p # Nil => \A e \in Side : e = SideOf(t, z) \/ e = Other(SideOf(t, z))
      /\ p # Nil => Other(SideOf(t, z)) \in Side /\ Other(SideOf(t, z)) # SideOf(t, z)
  BY <1>1, Sides, NodesAssumption DEF IsTree, Fields, Addr
<1> HIDE DEF x, b, p, r
<1>4. /\ \A a \in Addr \ {p} : hung[a] = t.child[a]
      /\ p # Nil => hung[p][SideOf(t, z)] = x /\ hung[p][Other(SideOf(t, z))] = t.child[p][Other(SideOf(t, z))]
      /\ hung \in [Addr -> [Side -> Addr \cup {Null}]]
  BY <1>1, <1>3
<1> HIDE DEF hung
<1>5. /\ r.child \in [Addr -> [Side -> Addr \cup {Null}]]
      /\ r.child[z][d] = hung[z][d] /\ r.child[z][Other(d)] = b
      /\ r.child[x][d] = z /\ r.child[x][Other(d)] = hung[x][Other(d)]
      /\ \A a \in Addr \ {x, z} : r.child[a] = hung[a]
  <2> DEFINE first == [hung EXCEPT ![x][d] = z]
  <2>1. /\ first \in [Addr -> [Side -> Addr \cup {Null}]]
        /\ first[x][d] = z /\ first[x][Other(d)] = hung[x][Other(d)] /\ \A a \in Addr \ {x} : first[a] = hung[a]
    BY <1>3, <1>4
  <2>2. r.child = [first EXCEPT ![z][Other(d)] = b]
    BY <1>2
  <2> HIDE DEF first
  <2>3. /\ r.child \in [Addr -> [Side -> Addr \cup {Null}]]
        /\ r.child[z][Other(d)] = b /\ r.child[z][d] = first[z][d] /\ \A a \in Addr \ {z} : r.child[a] = first[a]
    BY <1>3, <2>1, <2>2
  <2> QED BY <1>1, <1>3, <2>1, <2>3
<1>6. /\ r.parent \in [Addr -> Addr \cup {Null}]
      /\ r.parent[x] = p /\ r.parent[z] = x /\ (b # Nil => r.parent[b] = z)
      /\ \A a \in Addr \ ({x, z, b} \ {Nil}) : r.parent[a] = t.parent[a]
  <2> DEFINE f == [t.parent EXCEPT ![x] = p, ![z] = x]
  <2>1. f \in [Addr -> Addr \cup {Null}] /\ f[x] = p /\ f[z] = x /\ \A a \in Addr \ {x, z} : f[a] = t.parent[a]
    BY <1>1, <1>3
  <2>2. r.parent = [f EXCEPT ![b] = IF b = Nil THEN t.parent[b] ELSE z]
    BY <1>2
  <2> HIDE DEF f
  <2>3. CASE b = Nil
    BY <1>1, <1>3, <2>1, <2>2, <2>3 DEF Addr
  <2>4. CASE b # Nil
    BY <1>1, <1>3, <2>1, <2>2, <2>4
  <2> QED BY <2>3, <2>4
<1>7. Fields(r)
  BY <1>1, <1>2, <1>3, <1>5, <1>6 DEF Fields
<1>8. z # p /\ x # p
  BY <1>1
<1>9. /\ r.child[z][d] = t.child[z][d] /\ r.child[x][Other(d)] = t.child[x][Other(d)]
      /\ p # Nil => /\ r.child[p][SideOf(t, z)] = x
                    /\ r.child[p][Other(SideOf(t, z))] = t.child[p][Other(SideOf(t, z))]
      /\ \A a \in live \ {x, z, p} : \A e \in Side : r.child[a][e] = t.child[a][e]
  BY <1>1, <1>3, <1>4, <1>5, <1>8
<1> QED BY <1>2, <1>5, <1>6, <1>7, <1>9 DEF x, b, p, r

\* A rotation keeps the tree a tree; only at the root does it change the root.
LEMMA RotateKeepsTree ==
  ASSUME NEW t, IsTree(t), NEW z \in live \cup {Nil}, NEW d \in Side
  PROVE  LET r == Rotate(t, z, d)
         IN  /\ IsTree(r) /\ r.color = t.color /\ r.parent[Nil] = t.parent[Nil]
             /\ r.root = t.root \/ (z = t.root /\ r.root = t.child[z][Other(d)])
<1> DEFINE x == t.child[z][Other(d)]
           b == t.child[x][d]
           p == t.parent[z]
           r == Rotate(t, z, d)
<1>1. CASE z = Nil \/ x = Nil
  BY <1>1 DEF Rotate
<1>2. CASE z \in live /\ x # Nil
  <2>1. /\ x \in live /\ x # z /\ t.parent[x] = z /\ x # t.root
        /\ b # Nil => b \in live /\ b \notin {x, z, p, t.root} /\ t.parent[b] = x
        /\ p # Nil => /\ z # t.root /\ p \in live /\ p \notin {x, z} /\ SideOf(t, z) \in Side
                      /\ t.child[p][SideOf(t, z)] = z /\ t.child[p][Other(SideOf(t, z))] # z
        /\ p = Nil => z = t.root
    BY <1>2, Neighbours
  <2>2. /\ Fields(r) /\ r.color = t.color
        /\ r.root = IF z = t.root THEN x ELSE t.root
        /\ r.child[z][d] = t.child[z][d] /\ r.child[z][Other(d)] = b
        /\ r.child[x][d] = z /\ r.child[x][Other(d)] = t.child[x][Other(d)]
        /\ p # Nil => /\ r.child[p][SideOf(t, z)] = x
                      /\ r.child[p][Other(SideOf(t, z))] = t.child[p][Other(SideOf(t, z))]
        /\ \A a \in live \ {x, z, p} : \A e \in Side : r.child[a][e] = t.child[a][e]
        /\ r.parent[x] = p /\ r.parent[z] = x /\ (b # Nil => r.parent[b] = z)
        /\ \A a \in Addr \ ({x, z, b} \ {Nil}) : r.parent[a] = t.parent[a]
    BY <1>2, RotateSets
  <2>3. /\ t.child[z][Other(d)] = x /\ t.child[x][d] = b /\ t.parent[z] = p
    OBVIOUS
  <2>4. /\ \A e \in Side : e = d \/ e = Other(d)
        /\ Other(d) \in Side /\ Other(d) # d
        /\ p # Nil => \A e \in Side : e = SideOf(t, z) \/ e = Other(SideOf(t, z))
    BY <2>1, Sides
  <2>5. LinkedIn(t) /\ Nil \notin live /\ live \subseteq Addr /\ Nil \in Addr
    BY NodesAssumption DEF IsTree, Addr
  <2> HIDE DEF x, b, p, r
  <2>6. r.root \in live /\ r.parent[r.root] = Nil /\ live # {}
    BY <1>2, <2>1, <2>2, <2>5 DEF LinkedIn
  <2>7. ASSUME NEW a \in live
        PROVE  /\ \A e \in Side : r.child[a][e] # Nil => /\ r.child[a][e] \in live \ {r.root}
                                                         /\ r.parent[r.child[a][e]] = a
               /\ r.child[a]["left"] = r.child[a]["right"] => r.child[a]["left"] = Nil
    <3>1. /\ \A e \in Side : t.child[a][e] # Nil => t.child[a][e] \in live \ {t.root} /\ t.parent[t.child[a][e]] = a
          /\ t.child[a]["left"] = t.child[a]["right"] => t.child[a]["left"] = Nil
      BY <2>5 DEF LinkedIn
    <3>2. CASE a \notin {x, z, p}
      BY <1>2, <2>1, <2>2, <2>3, <2>5, <3>1, <3>2 DEF Side
    <3>3. CASE a = z
      BY <1>2, <2>1, <2>2, <2>3, <2>4, <2>5, <3>1, <3>3 DEF Side, Other
    <3>4. CASE a = x
      BY <1>2, <2>1, <2>2, <2>3, <2>4, <2>5, <3>1, <3>4 DEF Side, Other
    <3>5. CASE a = p
      <4> DEFINE s == SideOf(t, z)
                 c == t.child[p][Other(s)]
      <4>1. /\ p # Nil /\ s \in Side /\ t.child[p][s] = z /\ r.child[p][s] = x /\ r.child[p][Other(s)] = c
            /\ r.parent[x] = p /\ r.root = t.root /\ x # t.root /\ x \in live /\ x # Nil /\ c # z
            /\ \A e \in Side : e = s \/ e = Other(s)
        BY <1>2, <2>1, <2>2, <2>4, <2>5, <3>5
      <4>2. c # Nil => c \in live \ {t.root} /\ t.parent[c] = p
        BY <3>1, <3>5, <4>1, Sides
      <4> HIDE DEF s, c
      <4>3. c # Nil => c \notin {x, z, b} /\ r.parent[c] = p
        BY <2>1, <2>2, <2>5, <4>1, <4>2
      <4>4. \A e \in Side : r.child[a][e] # Nil => r.child[a][e] \in live \ {r.root} /\ r.parent[r.child[a][e]] = a
        BY <3>5, <4>1, <4>2, <4>3
      <4>5. r.child[a]["left"] = r.child[a]["right"] => x = c
        BY <3>5, <4>1 DEF Side, Other
      <4> QED BY <4>1, <4>3, <4>4, <4>5
    <3> QED BY <3>2, <3>3, <3>4, <3>5
  <2>8. ASSUME NEW a \in live \ {r.root}
        PROVE  r.parent[a] \in live /\ \E e \in Side : r.child[r.parent[a]][e] = a
    <3>1. CASE a = x
      BY <2>1, <2>2, <3>1
    <3>2. CASE a = z
      BY <2>1, <2>2, <3>2
    <3>3. CASE a = b
      BY <1>2, <2>1, <2>2, <2>4, <2>5, <3>3
    <3>4. CASE a \notin {x, z, b}
      <4>1. a # t.root /\ r.parent[a] = t.parent[a] /\ t.parent[a] \in live
        BY <2>2, <2>5, <3>4 DEF LinkedIn
      <4>2. PICK e \in Side : t.child[t.parent[a]][e] = a
        BY <2>5, <4>1 DEF LinkedIn
      <4>3. CASE t.parent[a] = z
        BY <2>2, <2>3, <2>4, <3>4, <4>1, <4>2, <4>3
      <4>4. CASE t.parent[a] = x
        BY <2>2, <2>3, <2>4, <3>4, <4>1, <4>2, <4>4
      <4>5. CASE t.parent[a] = p
        BY <2>1, <2>2, <2>4, <2>5, <3>4, <4>1, <4>2, <4>5
      <4>6. CASE t.parent[a] \notin {x, z, p}
        BY <2>2, <4>1, <4>2, <4>6
      <4> QED BY <4>3, <4>4, <4>5, <4>6
    <3> QED BY <3>1, <3>2, <3>3, <3>4
  <2>9. LinkedIn(r)
    BY <2>5, <2>6, <2>7, <2>8 DEF LinkedIn
  <2>10. Acyclic(r)
    <3>1. PICK depth \in [live -> Nat] : \A a \in live \ {t.root} : depth[t.parent[a]] < depth[a]
      BY DEF IsTree, Acyclic
    <3> DEFINE next == [a \in live |-> IF a = x THEN 2 * depth[z] ELSE 2 * depth[a] + 1]
    <3>2. \A a \in live : depth[a] \in Nat
      BY <3>1
    <3>3. next \in [live -> Nat]
      BY <1>2, <3>2
    <3>4. ASSUME NEW a \in live \ {r.root} PROVE next[r.parent[a]] < next[a]
      <4>1. r.parent[a] \in live
        BY <2>8
      <4>2. CASE a = x
        <5>1. p \in live /\ p # x /\ depth[p] < depth[z] /\ r.parent[a] = p
          BY <1>2, <2>1, <2>2, <2>3, <3>1, <4>2
        <5> QED BY <1>2, <3>2, <4>2, <5>1
      <4>3. CASE a = z
        BY <1>2, <2>1, <2>2, <3>2, <4>3
      <4>4. CASE a = b
        <5>1. depth[x] < depth[b] /\ depth[z] < depth[x] /\ r.parent[b] = z /\ b # x /\ z # x
          BY <1>2, <2>1, <2>2, <2>5, <3>1, <4>4
        <5> QED BY <1>2, <2>1, <3>2, <4>4, <5>1
      <4>5. CASE a \notin {x, z, b}
        <5>1. a # t.root /\ r.parent[a] = t.parent[a] /\ depth[t.parent[a]] < depth[a]
          BY <2>2, <2>5, <3>1, <4>5
        <5>2. depth[z] < depth[x]
          BY <2>1, <3>1
        <5> QED BY <1>2, <2>1, <3>2, <4>1, <4>5, <5>1, <5>2
      <4> QED BY <4>2, <4>3, <4>4, <4>5
    <3> HIDE DEF next
    <3> QED BY <3>3, <3>4 DEF Acyclic
  <2>11. r.parent[Nil] = t.parent[Nil]
    BY <2>2, <2>5
  <2> QED BY <2>2, <2>9, <2>10, <2>11 DEF IsTree, x, r
<1> QED BY <1>1, <1>2

-----------------------------------------------------------------------------
\* The checks.

\* What the next activation of a check may rely on.
CheckInv ==
  /\ IsTree(tree)
  /\ running = "insert" => check \in live /\ (tree.color[tree.root] = "red" => check = tree.root)
  /\ (running = "erase" /\ check # tree.root)
       => (check \in live \/ (check = Nil /\ tree.parent[Nil] \in live))

LEMMA SideOfIsSide ==
  ASSUME NEW t, NEW a
  PROVE  SideOf(t, a) \in Side
BY DEF SideOf, Side

\* A child of a node is a node or nil, and its parent is a node unless it is the root.
LEMMA ChildOrNil ==
  ASSUME NEW t, IsTree(t), NEW a \in live, NEW d \in Side
  PROVE  t.child[a][d] \in live \cup {Nil}
BY DEF IsTree, LinkedIn

\* A step that leaves the nodes alone leaves a tree when it writes one.
LEMMA NextTree ==
  ASSUME NEW t, IsTree(t), tree' = t, live' = live
  PROVE  IsTree(tree)'
BY DEF IsTree, LinkedIn, Acyclic, Fields, Addr, Side

LEMMA InsertChecks ==
  ASSUME CheckInv, InsertAtRoot \/ InsertUnderBlack \/ InsertRecolor \/ InsertRotate
  PROVE  CheckInv'
<1>1. IsTree(tree) /\ check \in live /\ live' = live
  BY DEF CheckInv, InsertAtRoot, InsertUnderBlack, InsertRecolor, InsertRotate, RedRed, Return
<1>2. CASE InsertAtRoot
  <2>1. IsTree(Paint(tree, check, "black"))
    BY <1>1, PaintKeepsTree
  <2>2. tree' = Paint(tree, check, "black") /\ running' = "idle"
    BY <1>2 DEF InsertAtRoot, Return
  <2> QED BY <1>1, <2>1, <2>2 DEF CheckInv, IsTree, LinkedIn, Acyclic
<1>3. CASE InsertUnderBlack
  BY <1>1, <1>3 DEF InsertUnderBlack, Return, CheckInv, IsTree, LinkedIn, Acyclic
<1>4. ASSUME RedRed PROVE Parent \in live /\ Grand \in live
  <2>1. Parent \in live /\ tree.color[Parent] = "red" /\ check # tree.root
    BY <1>1, <1>4 DEF RedRed, Parent, IsTree, LinkedIn
  <2>2. Parent # tree.root
    BY <1>4, <2>1 DEF RedRed, CheckInv
  <2> QED BY <1>1, <2>1, <2>2 DEF Grand, IsTree, LinkedIn
<1>5. CASE InsertRecolor
  <2> DEFINE t1 == Paint(tree, Parent, "black")
             t2 == Paint(t1, Uncle, "black")
             t3 == Paint(t2, Grand, "red")
  <2>1. tree' = t3 /\ check' = Grand /\ running' = "insert" /\ Grand \in live
    BY <1>4, <1>5 DEF InsertRecolor, RedRed
  <2>2. IsTree(t1) /\ t1.root = tree.root
    BY <1>1, PaintKeepsTree
  <2>3. IsTree(t2) /\ t2.root = tree.root
    <3> HIDE DEF t1
    <3> QED BY <2>2, PaintKeepsTree
  <2>4. IsTree(t3) /\ t3.root = tree.root
    <3> HIDE DEF t2
    <3> QED BY <2>3, PaintKeepsTree
  <2>5. t3.color[tree.root] = "red" => tree.root = Grand \/ tree.color[tree.root] = "red"
    <3>1. Fields(tree)
      BY <1>1 DEF IsTree
    <3> QED BY <3>1 DEF Paint, Fields
  <2>6. tree.color[tree.root] # "red"
    BY <1>5 DEF CheckInv, InsertRecolor, RedRed
  <2> HIDE DEF t3
  <2> QED BY <1>1, <2>1, <2>4, <2>5, <2>6 DEF CheckInv, IsTree, LinkedIn, Acyclic
<1>6. CASE InsertRotate
  <2> DEFINE d == SideOf(tree, Parent)
             t == Paint(tree, Grand, "red")
             outer == Paint(t, Parent, "black")
             inner == Rotate(Paint(t, check, "black"), Parent, d)
  <2>1. Parent \in live /\ Grand \in live /\ d \in Side /\ Other(d) \in Side
    BY <1>4, <1>6, SideOfIsSide, Sides DEF InsertRotate
  <2>2. running' = "idle" /\ (tree' = Rotate(outer, Grand, Other(d)) \/ tree' = Rotate(inner, Grand, Other(d)))
    BY <1>6 DEF InsertRotate, Return
  <2> HIDE DEF d
  <2>3. IsTree(t)
    BY <1>1, PaintKeepsTree
  <2> HIDE DEF t
  <2>4. IsTree(outer) /\ IsTree(Paint(t, check, "black"))
    BY <2>3, PaintKeepsTree
  <2>5. IsTree(inner)
    BY <2>1, <2>4, RotateKeepsTree
  <2> HIDE DEF outer, inner
  <2>6. IsTree(Rotate(outer, Grand, Other(d))) /\ IsTree(Rotate(inner, Grand, Other(d)))
    BY <2>1, <2>4, <2>5, RotateKeepsTree
  <2>7. IsTree(tree)'
    <3>1. CASE tree' = Rotate(outer, Grand, Other(d))
      BY <1>1, <2>6, <3>1, NextTree
    <3>2. CASE tree' = Rotate(inner, Grand, Other(d))
      BY <1>1, <2>6, <3>2, NextTree
    <3> QED BY <2>2, <3>1, <3>2
  <2> QED BY <2>2, <2>7 DEF CheckInv
<1> QED BY <1>2, <1>3, <1>5, <1>6

\* Case 1 of the removal's check keeps the tree, and the parent of the sentinel.
LEMMA BrotherKeepsTree ==
  ASSUME IsTree(tree), Parent \in live, NEW d \in Side
  PROVE  IsTree(BlackBrother(d)) /\ BlackBrother(d).parent[Nil] = tree.parent[Nil]
<1> DEFINE bro == tree.child[Parent][Other(d)]
           t1 == Paint(tree, bro, "black")
           t2 == Paint(t1, Parent, "red")
<1>1. IsTree(t1) /\ t1.parent = tree.parent
  BY PaintKeepsTree
<1>2. IsTree(t2) /\ t2.parent = tree.parent
  <2> HIDE DEF t1
  <2> QED BY <1>1, PaintKeepsTree
<1>3. BlackBrother(d) = tree \/ BlackBrother(d) = Rotate(t2, Parent, d)
  BY DEF BlackBrother
<1> HIDE DEF t2
<1>4. IsTree(Rotate(t2, Parent, d)) /\ Rotate(t2, Parent, d).parent[Nil] = t2.parent[Nil]
  BY <1>2, RotateKeepsTree
<1> QED BY <1>2, <1>3, <1>4

\* Case 3 keeps it too.
LEMMA FarRedKeepsTree ==
  ASSUME NEW t, IsTree(t), NEW bro \in live \cup {Nil}, NEW d \in Side
  PROVE  IsTree(FarRed(t, bro, d))
<1> DEFINE near == t.child[bro][d]
           t1 == Paint(t, near, "black")
           t2 == Paint(t1, bro, "red")
<1>1. IsTree(t1)
  BY PaintKeepsTree
<1>2. IsTree(t2)
  <2> HIDE DEF t1
  <2> QED BY <1>1, PaintKeepsTree
<1>3. FarRed(t, bro, d) = t \/ FarRed(t, bro, d) = Rotate(t2, bro, Other(d))
  BY DEF FarRed
<1> HIDE DEF t2
<1>4. IsTree(Rotate(t2, bro, Other(d)))
  BY <1>2, RotateKeepsTree, Sides
<1> QED BY <1>3, <1>4

LEMMA EraseChecks ==
  ASSUME CheckInv, EraseAtRootOrRed \/ EraseClimb \/ EraseRotate
  PROVE  CheckInv'
<1>1. IsTree(tree) /\ live' = live
  BY DEF CheckInv, EraseAtRootOrRed, EraseClimb, EraseRotate, Return
<1>2. CASE EraseAtRootOrRed
  <2>1. IsTree(Paint(tree, check, "black"))
    BY <1>1, PaintKeepsTree
  <2>2. tree' = Paint(tree, check, "black") /\ running' = "idle"
    BY <1>2 DEF EraseAtRootOrRed, Return
  <2>3. IsTree(tree)'
    <3> DEFINE t == Paint(tree, check, "black")
    <3>1. IsTree(t) /\ tree' = t
      BY <2>1, <2>2
    <3> HIDE DEF t
    <3> QED BY <1>1, <3>1, NextTree
  <2> QED BY <2>2, <2>3 DEF CheckInv
<1>3. ASSUME DoubleBlack PROVE Parent \in live
  BY <1>1, <1>3 DEF DoubleBlack, CheckInv, Parent, IsTree, LinkedIn
<1> DEFINE d == SideOf(tree, check)
           t == BlackBrother(d)
           bro == t.child[Parent][Other(d)]
<1>4. ASSUME DoubleBlack
      PROVE  d \in Side /\ Other(d) \in Side /\ IsTree(t) /\ bro \in live \cup {Nil}
  <2>1. d \in Side /\ Other(d) \in Side
    BY SideOfIsSide, Sides
  <2> HIDE DEF d
  <2>2. IsTree(t)
    BY <1>1, <1>3, <1>4, <2>1, BrotherKeepsTree
  <2> HIDE DEF t
  <2> QED BY <1>3, <1>4, <2>1, <2>2, ChildOrNil
<1>5. CASE EraseClimb
  <2>1. DoubleBlack /\ tree' = Paint(t, bro, "red") /\ check' = Parent /\ running' = "erase"
    BY <1>5 DEF EraseClimb, DoubleBlack
  <2>2. IsTree(t) /\ Parent \in live
    BY <1>3, <1>4, <2>1
  <2> HIDE DEF t, bro
  <2>3. IsTree(tree)'
    <3> DEFINE s == Paint(t, bro, "red")
    <3>1. IsTree(s) /\ tree' = s
      BY <2>1, <2>2, PaintKeepsTree
    <3> HIDE DEF s
    <3> QED BY <1>1, <3>1, NextTree
  <2> QED BY <1>1, <2>1, <2>2, <2>3 DEF CheckInv
<1>6. CASE EraseRotate
  <2> DEFINE t3 == FarRed(t, bro, d)
             bro3 == t3.child[Parent][Other(d)]
             far == t3.child[bro3][Other(d)]
             p1 == Paint(t3, bro3, t3.color[Parent])
             p2 == Paint(p1, Parent, "black")
             p3 == Paint(p2, far, "black")
             r == Rotate(p3, Parent, d)
             q == Paint(r, check, "black")
  <2>1. DoubleBlack /\ running' = "idle" /\ tree' = [q EXCEPT !.parent[Nil] = Nil]
    BY <1>6 DEF EraseRotate, Return
  <2>2. d \in Side /\ Other(d) \in Side /\ IsTree(t) /\ bro \in live \cup {Nil} /\ Parent \in live
    BY <1>3, <1>4, <2>1
  <2> HIDE DEF d, t, bro
  <2>3. IsTree(t3)
    BY <2>2, FarRedKeepsTree
  <2> HIDE DEF t3, bro3
  <2>4. t3.color[Parent] \in {"red", "black"}
    BY <2>2, <2>3 DEF IsTree, Fields, Addr
  <2>5. IsTree(p1)
    BY <2>3, <2>4, PaintKeepsTree
  <2> HIDE DEF p1, far
  <2>6. IsTree(p2)
    BY <2>5, PaintKeepsTree
  <2> HIDE DEF p2
  <2>7. IsTree(p3)
    BY <2>6, PaintKeepsTree
  <2> HIDE DEF p3
  <2>8. IsTree(r)
    BY <2>2, <2>7, RotateKeepsTree
  <2> HIDE DEF r
  <2>9. IsTree(q)
    BY <2>8, PaintKeepsTree
  <2> HIDE DEF q
  <2>10. IsTree([q EXCEPT !.parent[Nil] = Nil])
    <3> DEFINE s == [q EXCEPT !.parent[Nil] = Nil]
    <3>1. Fields(s) /\ s.root = q.root /\ s.child = q.child /\ \A a \in Nodes : s.parent[a] = q.parent[a]
      BY <2>9, NodesAssumption DEF IsTree, Fields, Addr
    <3> HIDE DEF s
    <3>2. IsTree(s)
      BY <2>9, <3>1, SameLinks
    <3> QED BY <3>2 DEF s
  <2>11. IsTree(tree)'
    <3> DEFINE s == [q EXCEPT !.parent[Nil] = Nil]
    <3>1. IsTree(s) /\ tree' = s
      BY <2>1, <2>10
    <3> HIDE DEF s
    <3> QED BY <1>1, <3>1, NextTree
  <2> QED BY <2>1, <2>11 DEF CheckInv
<1> QED BY <1>2, <1>5, <1>6

(***************************************************************************)
(* Whatever tree a check starts with, and whatever its colours, each of    *)
(* its activations leaves parents and children in agreement.               *)
(***************************************************************************)
THEOREM ChecksKeepLinks == CheckInv /\ [][Activation]_vars => []Linked
<1>1. CheckInv /\ [Activation]_vars => CheckInv'
  <2>1. ASSUME CheckInv, Activation PROVE CheckInv'
    BY <2>1, InsertChecks, EraseChecks DEF Activation
  <2>2. ASSUME CheckInv, UNCHANGED vars PROVE CheckInv'
    BY <2>2 DEF CheckInv, IsTree, LinkedIn, Acyclic, Fields, vars
  <2> QED BY <2>1, <2>2
<1>2. CheckInv => Linked
  BY LinkedInIsLinked DEF CheckInv, IsTree
<1> QED BY <1>1, <1>2, PTL

-----------------------------------------------------------------------------
\* The calls that start a check.

RootBlack == tree.root # Nil => tree.color[tree.root] = "black"

\* What an insertion sets.
LEMMA InsertSets ==
  ASSUME IsTree(tree), DescentsEnd, NEW k \in Keys, Insert(k), NEW p, p = Last(tree, k), NEW e, e = Dir(tree, k, p)
  PROVE  \E n \in Nodes \ live :
           /\ live' = live \cup {n} /\ check' = n /\ running' = "insert"
           /\ Fields(tree') /\ tree'.root = (IF p = Nil THEN n ELSE tree.root)
           /\ tree'.parent[n] = p /\ tree'.key[n] = k /\ \A d \in Side : tree'.child[n][d] = Nil
           /\ tree'.color[n] = IF p = Nil THEN "black" ELSE "red"
           /\ \A a \in Addr \ {n} : /\ tree'.parent[a] = tree.parent[a] /\ tree'.color[a] = tree.color[a]
                                    /\ tree'.key[a] = tree.key[a]
           /\ \A a \in Addr \ {n, p} : tree'.child[a] = tree.child[a]
           /\ p = Nil <=> tree.root = Nil
           /\ p # Nil => /\ p \in live /\ tree.child[p][e] = Nil /\ tree'.child[p][e] = n
                         /\ tree'.child[p][Other(e)] = tree.child[p][Other(e)]
           /\ e \in Side
<1> DEFINE leaf == [d \in Side |-> Nil]
<1>1. PICK n \in Nodes \ live :
        tree' = BstInsert(tree, k, n) /\ live' = live \cup {n} /\ check' = n /\ running' = "insert"
  BY DEF Insert
<1>2. /\ e \in Side
      /\ tree.root = Nil => p = Nil
      /\ tree.root # Nil => p \in live /\ tree.child[p][e] = Nil
  BY DEF DescentsEnd, Last, Dir, Side
<1>3. /\ Fields(tree) /\ live \subseteq Nodes /\ Nil \notin Nodes /\ k \in Int
      /\ n \in Addr /\ n # Nil /\ n \notin live /\ p \in Addr /\ (p # Nil => p \in live /\ p # n)
  BY <1>2, NodesAssumption, KeysAssumption DEF IsTree, Addr
<1>4. leaf \in [Side -> Addr \cup {Null}] /\ \A d \in Side : leaf[d] = Nil
  BY DEF Addr
<1> DEFINE new == [tree EXCEPT !.key[n] = k, !.parent[n] = p, !.child[n] = leaf,
                               !.color[n] = IF p = Nil THEN "black" ELSE "red"]
<1>5. tree' = IF p = Nil THEN [new EXCEPT !.root = n] ELSE [new EXCEPT !.child[p][e] = n]
  BY <1>1 DEF BstInsert
<1> HIDE DEF leaf
<1>6. /\ Fields(new) /\ new.root = tree.root /\ new.parent[n] = p /\ new.child[n] = leaf /\ new.key[n] = k
      /\ new.color[n] = (IF p = Nil THEN "black" ELSE "red")
      /\ \A a \in Addr \ {n} : /\ new.parent[a] = tree.parent[a] /\ new.child[a] = tree.child[a]
                               /\ new.color[a] = tree.color[a] /\ new.key[a] = tree.key[a]
  BY <1>3, <1>4 DEF Fields
<1> HIDE DEF new
<1>7. /\ Fields(tree') /\ tree'.root = (IF p = Nil THEN n ELSE tree.root)
      /\ tree'.parent = new.parent /\ tree'.color = new.color /\ tree'.key = new.key
      /\ \A a \in Addr \ {p} : tree'.child[a] = new.child[a]
      /\ p # Nil => tree'.child[p][e] = n /\ tree'.child[p][Other(e)] = new.child[p][Other(e)]
  <2>1. CASE p = Nil
    <3>1. /\ tree'.root = n /\ tree'.child = new.child /\ tree'.parent = new.parent
          /\ tree'.color = new.color /\ tree'.key = new.key /\ Fields(tree')
      BY <1>3, <1>5, <1>6, <2>1 DEF Fields
    <3> QED BY <2>1, <3>1
  <2>2. CASE p # Nil
    <3>1. /\ tree'.root = new.root /\ tree'.child = [new.child EXCEPT ![p][e] = n] /\ tree'.parent = new.parent
          /\ tree'.color = new.color /\ tree'.key = new.key /\ Fields(tree')
      BY <1>2, <1>3, <1>5, <1>6, <2>2 DEF Fields
    <3>2. new.child \in [Addr -> [Side -> Addr \cup {Null}]]
      BY <1>6 DEF Fields
    <3>3. /\ \A a \in Addr \ {p} : tree'.child[a] = new.child[a]
          /\ tree'.child[p][e] = n /\ tree'.child[p][Other(e)] = new.child[p][Other(e)]
      BY <1>2, <1>3, <3>1, <3>2, Sides
    <3> QED BY <1>6, <2>2, <3>1, <3>3
  <2> QED BY <2>1, <2>2
<1>8. /\ tree'.parent[n] = p /\ tree'.key[n] = k /\ tree'.color[n] = (IF p = Nil THEN "black" ELSE "red")
      /\ \A d \in Side : tree'.child[n][d] = Nil
      /\ \A a \in Addr \ {n} : /\ tree'.parent[a] = tree.parent[a] /\ tree'.color[a] = tree.color[a]
                               /\ tree'.key[a] = tree.key[a]
      /\ \A a \in Addr \ {n, p} : tree'.child[a] = tree.child[a]
      /\ p # Nil => tree'.child[p][Other(e)] = tree.child[p][Other(e)]
  BY <1>3, <1>4, <1>6, <1>7
<1>9. p = Nil <=> tree.root = Nil
  BY <1>2, <1>3
<1> QED BY <1>1, <1>2, <1>7, <1>8, <1>9

\* A new node where a descent ends leaves a tree.
LEMMA InsertKeepsTree ==
  ASSUME IsTree(tree), RootBlack, DescentsEnd, NEW k \in Keys, Insert(k)
  PROVE  CheckInv'
<1> DEFINE p == Last(tree, k)
           e == Dir(tree, k, p)
<1>1. PICK n \in Nodes \ live :
        /\ live' = live \cup {n} /\ check' = n /\ running' = "insert"
        /\ Fields(tree') /\ tree'.root = (IF p = Nil THEN n ELSE tree.root)
        /\ tree'.parent[n] = p /\ \A d \in Side : tree'.child[n][d] = Nil
        /\ \A a \in Addr \ {n} : tree'.parent[a] = tree.parent[a] /\ tree'.color[a] = tree.color[a]
        /\ \A a \in Addr \ {n, p} : tree'.child[a] = tree.child[a]
        /\ p = Nil <=> tree.root = Nil
        /\ p # Nil => /\ p \in live /\ tree.child[p][e] = Nil /\ tree'.child[p][e] = n
                      /\ tree'.child[p][Other(e)] = tree.child[p][Other(e)]
        /\ e \in Side
  <2> HIDE DEF p, e
  <2>1. p = Last(tree, k) /\ e = Dir(tree, k, p)
    BY DEF p, e
  <2> QED BY <2>1, InsertSets
<1> HIDE DEF p, e
<1>2. /\ LinkedIn(tree) /\ live \subseteq Nodes /\ Nil \notin Nodes /\ Nil \in Addr
      /\ n \in Addr /\ n # Nil /\ n \notin live /\ p \in Addr /\ (p # Nil => p \in live /\ p # n)
      /\ tree.root # Nil => tree.root \in live /\ tree.root # n
  BY <1>1, NodesAssumption DEF IsTree, LinkedIn, Addr
<1>3. LinkedIn(tree)'
  <2>1. tree'.root \in live' /\ tree'.parent[tree'.root] = Nil /\ live' # {} /\ tree'.root # Nil
    BY <1>1, <1>2 DEF LinkedIn, Addr
  <2>2. ASSUME NEW a \in live'
        PROVE  /\ \A d \in Side : tree'.child[a][d] # Nil => /\ tree'.child[a][d] \in live' \ {tree'.root}
                                                             /\ tree'.parent[tree'.child[a][d]] = a
               /\ tree'.child[a]["left"] = tree'.child[a]["right"] => tree'.child[a]["left"] = Nil
    <3>1. CASE a = n
      BY <1>2, <1>1, <3>1 DEF Side
    <3>2. CASE a = p
      BY <1>1, <1>2, <3>2, Sides DEF LinkedIn, Addr, Side, Other
    <3>3. CASE a \in live \ {p}
      BY <1>1, <1>2, <3>3 DEF LinkedIn, Addr, Side
    <3> QED BY <1>1, <3>1, <3>2, <3>3
  <2>3. ASSUME NEW a \in live' \ {tree'.root}
        PROVE  tree'.parent[a] \in live' /\ \E d \in Side : tree'.child[tree'.parent[a]][d] = a
    <3>1. CASE a = n
      BY <1>1, <1>2, <3>1
    <3>2. CASE a # n
      <4>1. a \in live \ {tree.root} /\ tree.root # Nil /\ p # Nil /\ tree'.parent[a] = tree.parent[a]
        BY <1>1, <1>2, <3>2 DEF LinkedIn, Addr
      <4>2. PICK d \in Side : tree.parent[a] \in live /\ tree.child[tree.parent[a]][d] = a
        BY <1>2, <4>1 DEF LinkedIn
      <4>3. a # Nil
        BY <1>2, <4>1
      <4>4. tree'.child[tree.parent[a]][d] = a
        BY <1>1, <1>2, <4>1, <4>2, <4>3, Sides DEF Addr
      <4> QED BY <1>1, <4>1, <4>2, <4>4
    <3> QED BY <3>1, <3>2
  <2> QED BY <2>1, <2>2, <2>3 DEF LinkedIn
<1>4. Acyclic(tree)'
  <2>1. PICK depth \in [live -> Nat] : \A a \in live \ {tree.root} : depth[tree.parent[a]] < depth[a]
    BY DEF IsTree, Acyclic
  <2> DEFINE next == [a \in live' |-> IF a # n THEN depth[a] ELSE IF p = Nil THEN 0 ELSE depth[p] + 1]
  <2>2. next \in [live' -> Nat]
    BY <1>1, <1>2, <2>1
  <2>3. ASSUME NEW a \in live' \ {tree'.root} PROVE next[tree'.parent[a]] < next[a]
    <3>1. CASE a = n
      BY <1>1, <1>2, <2>1, <3>1
    <3>2. CASE a # n
      <4>1. a \in live \ {tree.root} /\ tree'.parent[a] = tree.parent[a] /\ tree.parent[a] \in live
        BY <1>1, <1>2, <3>2 DEF LinkedIn, Addr
      <4> QED BY <1>1, <1>2, <2>1, <3>2, <4>1
    <3> QED BY <3>1, <3>2
  <2> HIDE DEF next
  <2> QED BY <2>2, <2>3 DEF Acyclic
<1>5. tree'.color[tree'.root] = "red" => n = tree'.root
  BY <1>1, <1>2 DEF RootBlack, Addr
<1> QED BY <1>1, <1>2, <1>3, <1>4, <1>5 DEF CheckInv, IsTree

\* The node that is unlinked has at most one child, and hangs where the code writes.
LEMMA UnlinkedNode ==
  ASSUME IsTree(tree), DescentsEnd, NEW p \in live
  PROVE  LET y == Unlinked(tree, p)
             r == Replacement(tree, y)
             up == tree.parent[y]
         IN  /\ y \in live /\ up \in live \cup {Nil} /\ (up = Nil <=> y = tree.root) /\ up # y
             /\ r \in live \cup {Nil}
             /\ r # Nil => tree.parent[r] = y /\ r # y /\ r # up /\ r # tree.root
             /\ \A d \in Side : tree.child[y][d] \in {r, Nil}
             /\ up # Nil => tree.child[up][SideOf(tree, y)] = y /\ SideOf(tree, y) \in Side
             /\ HasTwo(tree, p) =>
                  y # p /\ y # tree.root
                  /\ SideOf(tree, y) = IF y = tree.child[p]["right"] THEN "right" ELSE "left"
<1> DEFINE y == Unlinked(tree, p)
           r == Replacement(tree, y)
           up == tree.parent[y]
<1>1. /\ y \in live /\ (tree.child[y]["left"] = Nil \/ tree.child[y]["right"] = Nil)
      /\ HasTwo(tree, p) => /\ y # p /\ y # tree.root
                            /\ y # tree.child[p]["right"] => tree.child[up]["left"] = y
  BY DEF DescentsEnd, Unlinked, HasTwo
<1>2. r = Replacement(tree, y) /\ up = tree.parent[y]
  OBVIOUS
<1> HIDE DEF y, up
<1>3. \A d \in Side : tree.child[y][d] \in {r, Nil}
  BY <1>1 DEF Replacement, Side
<1>4. PICK e \in Side : r = tree.child[y][e]
  BY DEF Replacement, Side
<1> HIDE DEF r
<1>5. PICK depth \in [live -> Nat] : \A a \in live \ {tree.root} : depth[tree.parent[a]] < depth[a]
  BY DEF IsTree, Acyclic
<1>6. \A a \in live : depth[a] \in Nat
  BY <1>5
<1>7. LinkedIn(tree) /\ Nil \notin live
  BY NodesAssumption DEF IsTree
<1>8. r # Nil => /\ r \in live /\ r # tree.root /\ tree.parent[r] = y /\ depth[y] < depth[r]
  BY <1>1, <1>4, <1>5, <1>7 DEF LinkedIn
<1>9. /\ y = tree.root => up = Nil
      /\ y # tree.root => up \in live /\ depth[up] < depth[y] /\ \E d \in Side : tree.child[up][d] = y
  BY <1>1, <1>2, <1>5, <1>7 DEF LinkedIn
<1>10. up # y /\ (r # Nil => r # y /\ r # up)
  BY <1>1, <1>6, <1>7, <1>8, <1>9
<1>11. up # Nil => tree.child[up][SideOf(tree, y)] = y /\ SideOf(tree, y) \in Side
  BY <1>2, <1>9 DEF SideOf, Side
<1>12. ASSUME HasTwo(tree, p)
       PROVE  SideOf(tree, y) = IF y = tree.child[p]["right"] THEN "right" ELSE "left"
  <2>1. CASE y = tree.child[p]["right"]
    <3>1. up = p
      BY <1>1, <1>2, <1>7, <2>1 DEF LinkedIn, Side
    <3>2. tree.child[p]["left"] # tree.child[p]["right"]
      BY <1>7, <1>12 DEF LinkedIn, HasTwo
    <3> QED BY <1>2, <2>1, <3>1, <3>2 DEF SideOf
  <2>2. CASE y # tree.child[p]["right"]
    BY <1>1, <1>2, <1>12, <2>2 DEF SideOf
  <2> QED BY <2>1, <2>2
<1> QED BY <1>1, <1>2, <1>3, <1>7, <1>8, <1>9, <1>10, <1>11, <1>12 DEF y, r, up

\* Among some nodes one is no deeper than the others.
LEMMA Shallowest ==
  ASSUME NEW depth \in [live -> Nat], NEW S \in SUBSET live, S # {}
  PROVE  \E a \in S : \A b \in S : ~(depth[b] < depth[a])
<1> DEFINE R == OpToRel(<, Nat)
           T == {depth[a] : a \in S}
<1>1. T \subseteq Nat /\ T # {}
  OBVIOUS
<1>2. IsWellFoundedOn(R, Nat)
  BY NatLessThanWellFounded, Zenon DEF OpToRel
<1> HIDE DEF T
<1>3. PICK x \in T : \A y \in T : ~(<<y, x>> \in R)
  <2> HIDE DEF R
  <2> QED BY <1>1, <1>2, WFMin
<1>4. \A y \in T : ~(y < x)
  BY <1>1, <1>3 DEF OpToRel
<1> QED BY <1>4 DEF T

\* What a removal sets.
LEMMA EraseSets ==
  ASSUME IsTree(tree), DescentsEnd, NEW p, Erase(p), NEW y, y = Unlinked(tree, p), NEW r, r = Replacement(tree, y),
         NEW up, up = tree.parent[y], NEW s, s = SideOf(tree, y)
  PROVE  /\ p \in live /\ live' = live \ {y} /\ Fields(tree')
         /\ running' = IF tree.color[y] = "black" THEN "erase" ELSE "idle"
         /\ check' = IF tree.color[y] = "black" THEN r ELSE Nil
         /\ y \in live /\ up \in live \cup {Nil} /\ (up = Nil <=> y = tree.root) /\ up # y
         /\ r \in live \cup {Nil}
         /\ r # Nil => tree.parent[r] = y /\ r # y /\ r # up /\ r # tree.root
         /\ \A d \in Side : tree.child[y][d] \in {r, Nil}
         /\ \E d \in Side : tree.child[y][d] = r /\ tree.child[y][Other(d)] = Nil
         /\ s \in Side
         /\ up # Nil => tree.child[up][s] = y
         /\ HasTwo(tree, p) => y # p /\ y # tree.root
         /\ ~HasTwo(tree, p) => y = p
         /\ tree'.root = IF y = tree.root THEN r ELSE tree.root
         /\ tree'.parent[r] = up
         /\ \A a \in Addr \ {y, r} : tree'.parent[a] = tree.parent[a]
         /\ up # Nil => tree'.child[up][s] = r /\ tree'.child[up][Other(s)] = tree.child[up][Other(s)]
         /\ \A a \in Addr \ {y, up} : tree'.child[a] = tree.child[a]
         /\ \A a \in Addr \ {y} : /\ tree'.color[a] = tree.color[a]
                                  /\ tree'.key[a] = IF a = p THEN tree.key[y] ELSE tree.key[a]
<1> DEFINE m == BstDelete(tree, p)
           gone == [d \in Side |-> Null]
<1>1. /\ p \in live /\ tree' = Freed(m, y) /\ live' = live \ {y}
      /\ running' = (IF tree.color[y] = "black" THEN "erase" ELSE "idle")
      /\ check' = (IF tree.color[y] = "black" THEN r ELSE Nil)
  BY DEF Erase
<1>2. /\ y \in live /\ up \in live \cup {Nil} /\ (up = Nil <=> y = tree.root) /\ up # y
      /\ r \in live \cup {Nil}
      /\ r # Nil => tree.parent[r] = y /\ r # y /\ r # up /\ r # tree.root
      /\ \A d \in Side : tree.child[y][d] \in {r, Nil}
      /\ up # Nil => tree.child[up][s] = y /\ s \in Side
      /\ HasTwo(tree, p) => y # p /\ y # tree.root /\ s = IF y = tree.child[p]["right"] THEN "right" ELSE "left"
      /\ (~HasTwo(tree, p) => y = p) /\ up = tree.parent[y]
  <2>1. ~HasTwo(tree, p) => y = p
    BY DEF Unlinked
  <2> QED BY <1>1, <2>1, UnlinkedNode
<1>3. /\ Fields(tree) /\ LinkedIn(tree) /\ live \subseteq Nodes /\ Nil \notin live /\ Nil \in Addr
      /\ y \in Addr /\ up \in Addr /\ r \in Addr /\ p \in Addr /\ y # Nil
  BY <1>1, <1>2, NodesAssumption DEF IsTree, Addr
<1>4. gone \in [Side -> Addr \cup {Null}]
  BY DEF Addr
<1>5. /\ Fields(m) /\ m.root = (IF y = tree.root THEN r ELSE tree.root)
      /\ m.parent = [tree.parent EXCEPT ![r] = up]
      /\ m.child = (IF up = Nil THEN tree.child ELSE [tree.child EXCEPT ![up][s] = r])
      /\ m.color = tree.color /\ \A a \in Addr \ {y} : m.key[a] = IF a = p THEN tree.key[y] ELSE tree.key[a]
  <2> DEFINE cut == [tree EXCEPT !.child[up][s] = r, !.parent[r] = up]
             top == [tree EXCEPT !.root = r, !.parent[r] = up]
  <2>1. /\ HasTwo(tree, p) => m = [cut EXCEPT !.key[p] = tree.key[y]]
        /\ ~HasTwo(tree, p) /\ p # tree.root => m = cut
        /\ ~HasTwo(tree, p) /\ p = tree.root => m = top
    BY <1>2 DEF BstDelete
  <2>2. up # Nil => /\ Fields(cut) /\ cut.root = tree.root /\ cut.parent = [tree.parent EXCEPT ![r] = up]
                    /\ cut.child = [tree.child EXCEPT ![up][s] = r] /\ cut.color = tree.color /\ cut.key = tree.key
    BY <1>2, <1>3 DEF Fields
  <2>3. /\ Fields(top) /\ top.root = r /\ top.parent = [tree.parent EXCEPT ![r] = up] /\ top.child = tree.child
        /\ top.color = tree.color /\ top.key = tree.key
    BY <1>3 DEF Fields
  <2>4. CASE HasTwo(tree, p)
    <3> HIDE DEF cut, top, m
    <3>1. up # Nil /\ y # tree.root /\ tree.key[y] \in Int /\ m = [cut EXCEPT !.key[p] = tree.key[y]]
      BY <1>2, <1>3, <2>1, <2>4 DEF Fields
    <3>2. Fields(m) /\ m.root = cut.root /\ m.parent = cut.parent /\ m.child = cut.child /\ m.color = cut.color
      BY <1>3, <2>2, <3>1 DEF Fields
    <3>3. \A a \in Addr : m.key[a] = IF a = p THEN tree.key[y] ELSE cut.key[a]
      BY <1>3, <2>2, <3>1 DEF Fields
    <3> QED BY <2>2, <3>1, <3>2, <3>3
  <2>5. CASE ~HasTwo(tree, p)
    <3> HIDE DEF cut, top, m
    <3> QED BY <1>2, <2>1, <2>2, <2>3, <2>5
  <2> QED BY <2>4, <2>5
<1> HIDE DEF m, gone
<1>6. /\ Fields(tree') /\ tree'.root = m.root
      /\ \A a \in Addr \ {y} : /\ tree'.child[a] = m.child[a] /\ tree'.parent[a] = m.parent[a]
                               /\ tree'.color[a] = m.color[a] /\ tree'.key[a] = m.key[a]
  <2>1. tree' = [m EXCEPT !.key[y] = 0, !.parent[y] = Null, !.color[y] = "red", !.child[y] = gone]
    BY <1>1 DEF Freed, gone
  <2>2. Fields(m) /\ 0 \in Int /\ Null \in Addr \cup {Null} /\ "red" \in {"red", "black"}
    BY <1>5
  <2>3. tree'.root = m.root /\ Fields(tree')
    BY <1>3, <1>4, <2>1, <2>2 DEF Fields
  <2>4. /\ tree'.child = [m.child EXCEPT ![y] = gone] /\ tree'.parent = [m.parent EXCEPT ![y] = Null]
        /\ tree'.color = [m.color EXCEPT ![y] = "red"] /\ tree'.key = [m.key EXCEPT ![y] = 0]
    BY <1>3, <1>4, <2>1, <2>2 DEF Fields
  <2>5. \A a \in Addr \ {y} : /\ tree'.child[a] = m.child[a] /\ tree'.parent[a] = m.parent[a]
                              /\ tree'.color[a] = m.color[a] /\ tree'.key[a] = m.key[a]
    BY <1>3, <2>2, <2>4 DEF Fields
  <2> QED BY <2>3, <2>5
<1>7. /\ tree'.root = (IF y = tree.root THEN r ELSE tree.root)
      /\ tree'.parent[r] = up
      /\ \A a \in Addr \ {y, r} : tree'.parent[a] = tree.parent[a]
      /\ up # Nil => tree'.child[up][s] = r /\ tree'.child[up][Other(s)] = tree.child[up][Other(s)]
      /\ \A a \in Addr \ {y, up} : tree'.child[a] = tree.child[a]
      /\ \A a \in Addr \ {y} : /\ tree'.color[a] = tree.color[a]
                               /\ tree'.key[a] = IF a = p THEN tree.key[y] ELSE tree.key[a]
  <2>1. tree.parent \in [Addr -> Addr \cup {Null}] /\ tree.child \in [Addr -> [Side -> Addr \cup {Null}]]
    BY <1>3 DEF Fields
  <2>2. tree'.parent[r] = up /\ \A a \in Addr \ {y, r} : tree'.parent[a] = tree.parent[a]
    BY <1>2, <1>3, <1>5, <1>6, <2>1
  <2>3. up # Nil => Other(s) \in Side /\ Other(s) # s
    BY <1>2, Sides
  <2>4. /\ up # Nil => m.child[up][s] = r /\ m.child[up][Other(s)] = tree.child[up][Other(s)]
        /\ \A a \in Addr \ {up} : m.child[a] = tree.child[a]
    BY <1>2, <1>3, <1>5, <2>1, <2>3
  <2>5. tree'.root = (IF y = tree.root THEN r ELSE tree.root)
    BY <1>5, <1>6
  <2>6. \A a \in Addr \ {y} : /\ tree'.color[a] = tree.color[a]
                              /\ tree'.key[a] = IF a = p THEN tree.key[y] ELSE tree.key[a]
    BY <1>5, <1>6
  <2>7. up # Nil => tree'.child[up][s] = r /\ tree'.child[up][Other(s)] = tree.child[up][Other(s)]
    BY <1>2, <1>3, <1>6, <2>4
  <2>8. \A a \in Addr \ {y, up} : tree'.child[a] = tree.child[a]
    BY <1>6, <2>4
  <2> QED BY <2>2, <2>5, <2>6, <2>7, <2>8
<1>8. s \in Side
  BY SideOfIsSide
<1>9. \E d \in Side : tree.child[y][d] = r /\ tree.child[y][Other(d)] = Nil
  <2>1. CASE tree.child[y]["left"] = Nil
    BY <2>1 DEF Replacement, Side, Other
  <2>2. CASE tree.child[y]["left"] # Nil
    <3>1. tree.child[y]["left"] = r /\ tree.child[y]["right"] \in {r, Nil}
      BY <1>2, <2>2 DEF Replacement, Side
    <3>2. tree.child[y]["left"] = tree.child[y]["right"] => tree.child[y]["left"] = Nil
      BY <1>2, <1>3 DEF LinkedIn
    <3> QED BY <2>2, <3>1, <3>2 DEF Side, Other
  <2> QED BY <2>1, <2>2
<1> QED BY <1>1, <1>2, <1>6, <1>7, <1>8, <1>9

\* A removal takes one node out of the tree, and its check starts below that node.
LEMMA EraseKeepsTree ==
  ASSUME IsTree(tree), DescentsEnd, NEW p, Erase(p)
  PROVE  CheckInv'
<1> DEFINE y == Unlinked(tree, p)
           r == Replacement(tree, y)
           up == tree.parent[y]
           s == SideOf(tree, y)
<1> HIDE DEF y, r, up, s
<1>1. /\ p \in live /\ live' = live \ {y} /\ Fields(tree')
      /\ running' = "erase" \/ running' = "idle"
      /\ running' = "erase" => check' = r
      /\ y \in live /\ up \in live \cup {Nil} /\ (up = Nil <=> y = tree.root) /\ up # y
      /\ r \in live \cup {Nil}
      /\ r # Nil => tree.parent[r] = y /\ r # y /\ r # up /\ r # tree.root
      /\ \A d \in Side : tree.child[y][d] \in {r, Nil}
      /\ up # Nil => tree.child[up][s] = y
      /\ s \in Side /\ up = tree.parent[y]
      /\ tree'.root = (IF y = tree.root THEN r ELSE tree.root)
      /\ tree'.parent[r] = up
      /\ \A a \in Addr \ {y, r} : tree'.parent[a] = tree.parent[a]
      /\ up # Nil => tree'.child[up][s] = r /\ tree'.child[up][Other(s)] = tree.child[up][Other(s)]
      /\ \A a \in Addr \ {y, up} : tree'.child[a] = tree.child[a]
  <2>1. y = Unlinked(tree, p) /\ r = Replacement(tree, y) /\ up = tree.parent[y] /\ s = SideOf(tree, y)
    BY DEF y, r, up, s
  <2> QED BY <2>1, EraseSets
<1>2. /\ LinkedIn(tree) /\ live \subseteq Nodes /\ Nil \notin live /\ Nil \in Addr
      /\ y \in Addr /\ up \in Addr /\ r \in Addr /\ p \in Addr /\ y # Nil
  BY <1>1, NodesAssumption DEF IsTree, Addr
<1>3. ASSUME NEW a \in live, tree.parent[a] = y, a # tree.root PROVE a = r
  BY <1>1, <1>2, <1>3 DEF LinkedIn
<1>4. \A a \in live \ {tree.root} : tree.parent[a] \in live /\ \E d \in Side : tree.child[tree.parent[a]][d] = a
  BY <1>2 DEF LinkedIn
<1>5. PICK depth \in [live -> Nat] : \A a \in live \ {tree.root} : depth[tree.parent[a]] < depth[a]
  BY DEF IsTree, Acyclic
<1>6. up # Nil => y # tree.root /\ up \in live' /\ tree'.root = tree.root
  BY <1>1
<1>7. tree'.root = Nil <=> live' = {}
  <2>1. CASE y # tree.root
    BY <1>1, <1>2, <1>6, <2>1 DEF LinkedIn
  <2>2. CASE r # Nil
    BY <1>1, <1>2, <2>1, <2>2
  <2>3. CASE y = tree.root /\ r = Nil
    <3>1. ASSUME live' # {} PROVE FALSE
      <4>1. PICK a \in live' : \A b \in live' : ~(depth[b] < depth[a])
        BY <1>1, <1>5, <3>1, Shallowest
      <4>2. a \in live \ {tree.root} /\ tree.parent[a] \in live
        BY <1>1, <1>4, <2>3
      <4>3. tree.parent[a] # y
        BY <1>2, <1>3, <2>3, <4>2
      <4> QED BY <1>1, <1>5, <4>1, <4>2, <4>3
    <3> QED BY <1>1, <2>3, <3>1
  <2> QED BY <2>1, <2>2, <2>3
<1>8. tree'.root # Nil => tree'.root \in live' /\ tree'.parent[tree'.root] = Nil
  <2>1. CASE y = tree.root
    BY <1>1, <2>1
  <2>2. CASE y # tree.root
    BY <1>1, <1>2, <2>2 DEF LinkedIn, Addr
  <2> QED BY <2>1, <2>2
<1>9. ASSUME NEW a \in live'
       PROVE  /\ \A d \in Side : tree'.child[a][d] # Nil => /\ tree'.child[a][d] \in live' \ {tree'.root}
                                                            /\ tree'.parent[tree'.child[a][d]] = a
              /\ tree'.child[a]["left"] = tree'.child[a]["right"] => tree'.child[a]["left"] = Nil
  <2>1. a \in live /\ a # y /\ a \in Addr /\ a # Nil
    BY <1>1, <1>2 DEF Addr
  <2>2. /\ \A d \in Side : tree.child[a][d] # Nil => /\ tree.child[a][d] \in live \ {tree.root}
                                                     /\ tree.parent[tree.child[a][d]] = a
        /\ tree.child[a]["left"] = tree.child[a]["right"] => tree.child[a]["left"] = Nil
    BY <1>2, <2>1 DEF LinkedIn
  <2>3. ASSUME NEW c \in live \ {tree.root}, tree.parent[c] = a, c # y
        PROVE  c \in live' \ {tree'.root} /\ tree'.parent[c] = a /\ c # r
    <3>1. c # r /\ c \in Addr
      BY <1>1, <1>2, <2>1, <2>3 DEF Addr
    <3> QED BY <1>1, <2>3, <3>1
  <2>4. CASE a # up
    <3>1. tree'.child[a] = tree.child[a]
      BY <1>1, <2>1, <2>4
    <3>2. \A d \in Side : tree.child[a][d] # y
      BY <1>1, <1>2, <2>2, <2>4
    <3> QED BY <2>2, <2>3, <3>1, <3>2
  <2>5. CASE a = up
    <3> DEFINE c == tree.child[up][Other(s)]
    <3>1. /\ s \in Side /\ Other(s) \in Side /\ \A d \in Side : d = s \/ d = Other(s)
          /\ tree.child[up][s] = y /\ tree'.child[up][s] = r /\ tree'.child[up][Other(s)] = c
      BY <1>1, <2>1, <2>5, Sides
    <3>2. c # y
      BY <1>2, <2>2, <2>5, <3>1 DEF Side, Other
    <3>3. c # Nil => c \in live' \ {tree'.root} /\ tree'.parent[c] = a /\ c # r
      BY <2>2, <2>3, <2>5, <3>1, <3>2
    <3>4. r # Nil => r \in live' \ {tree'.root} /\ tree'.parent[r] = up
      BY <1>1, <1>6, <2>1, <2>5
    <3> HIDE DEF c
    <3>5. \A d \in Side : tree'.child[a][d] # Nil => /\ tree'.child[a][d] \in live' \ {tree'.root}
                                                     /\ tree'.parent[tree'.child[a][d]] = a
      BY <2>5, <3>1, <3>3, <3>4
    <3>6. tree'.child[a]["left"] = tree'.child[a]["right"] => r = c
      BY <2>5, <3>1 DEF Side, Other
    <3> QED BY <2>5, <3>1, <3>3, <3>5, <3>6 DEF Side
  <2> QED BY <2>4, <2>5
<1>10. ASSUME NEW a \in live' \ {tree'.root}
       PROVE  /\ tree'.parent[a] \in live' /\ \E d \in Side : tree'.child[tree'.parent[a]][d] = a
              /\ depth[tree'.parent[a]] < depth[a]
  <2>1. CASE a = r
    <3>1. up # Nil /\ tree'.parent[r] = up /\ tree'.child[up][s] = r /\ s \in Side
      BY <1>1, <2>1
    <3>2. r # Nil /\ r \in live \ {tree.root} /\ y \in live \ {tree.root} /\ up \in live
      BY <1>1, <1>2, <1>6, <2>1, <3>1
    <3>3. depth[up] < depth[y] /\ depth[y] < depth[r]
      BY <1>1, <1>5, <3>2
    <3> QED BY <1>1, <1>5, <1>6, <2>1, <3>1, <3>2, <3>3
  <2>2. CASE a # r
    <3> DEFINE q == tree.parent[a]
    <3>1. a \in live \ {tree.root} /\ a # y /\ a \in Addr /\ a # Nil
      BY <1>1, <1>2, <2>2 DEF Addr
    <3>2. tree'.parent[a] = q /\ q \in live /\ q # y /\ depth[q] < depth[a] /\ q \in Addr
      BY <1>2, <1>1, <1>3, <1>4, <1>5, <2>2, <3>1 DEF Addr
    <3>3. PICK d \in Side : tree.child[q][d] = a
      BY <1>4, <3>1
    <3> HIDE DEF q
    <3>4. tree'.child[q][d] = a
      <4>1. CASE q = up
        BY <1>1, <1>2, <3>1, <3>2, <3>3, <4>1, Sides
      <4>2. CASE q # up
        BY <1>1, <3>2, <3>3, <4>2
      <4> QED BY <4>1, <4>2
    <3> QED BY <1>1, <3>2, <3>4
  <2> QED BY <2>1, <2>2
<1>11. LinkedIn(tree)'
  BY <1>7, <1>8, <1>9, <1>10 DEF LinkedIn
<1>12. Acyclic(tree)'
  <2> DEFINE next == [a \in live' |-> depth[a]]
  <2>1. next \in [live' -> Nat]
    BY <1>1, <1>5
  <2>2. \A a \in live' \ {tree'.root} : next[tree'.parent[a]] < next[a]
    BY <1>10
  <2> HIDE DEF next
  <2> QED BY <2>1, <2>2 DEF Acyclic
<1>13. IsTree(tree)'
  BY <1>1, <1>2, <1>11, <1>12 DEF IsTree, Fields, Addr, Side
<1>14. running' = "erase" /\ check' # tree'.root => check' \in live' \/ (check' = Nil /\ tree'.parent[Nil] \in live')
  BY <1>1, <1>6
<1> QED BY <1>1, <1>13, <1>14 DEF CheckInv

-----------------------------------------------------------------------------
\* What is below a node.

\* sub[a] is the set of the nodes at a and below it: one of two sides, or a itself.
Spans(t, N, sub) ==
  /\ sub \in [N \cup {Nil} -> SUBSET N] /\ sub[Nil] = {} /\ sub[t.root] = N
  /\ \A a \in N : \A d \in Side :
       /\ sub[a] = {a} \cup sub[t.child[a][d]] \cup sub[t.child[a][Other(d)]]
       /\ a \notin sub[t.child[a][d]]
       /\ sub[t.child[a][d]] \cap sub[t.child[a][Other(d)]] = {}

\* The keys on side d of a key.
Beside(d, k, l) == IF d = "left" THEN k <= l ELSE l <= k

Ordered(t, N, sub) ==
  \A a \in N : \A d \in Side : \A b \in sub[t.child[a][d]] : Beside(d, t.key[b], t.key[a])

LEMMA BesideTrans ==
  ASSUME NEW d \in Side, NEW k \in Int, NEW l \in Int, NEW m \in Int
  PROVE  /\ Beside(d, k, l) /\ Beside(d, l, m) => Beside(d, k, m)
         /\ Beside(d, k, l) <=> Beside(Other(d), l, k)
         /\ Beside(d, k, k)
BY DEF Side, Other, Beside

\* A rotation moves no node from one side of another to the other side.
LEMMA RotateSpans ==
  ASSUME NEW t, IsTree(t), NEW z \in live, NEW d \in Side, t.child[z][Other(d)] # Nil,
         NEW sub, Spans(t, live, sub), Ordered(t, live, sub)
  PROVE  \E new : Spans(Rotate(t, z, d), live, new) /\ Ordered(Rotate(t, z, d), live, new)
<1> DEFINE x == t.child[z][Other(d)]
           b == t.child[x][d]
           c == t.child[z][d]
           f == t.child[x][Other(d)]
           p == t.parent[z]
           s == SideOf(t, z)
           r == Rotate(t, z, d)
           new == [a \in live \cup {Nil} |-> IF a = x THEN sub[z]
                                             ELSE IF a = z THEN {z} \cup sub[c] \cup sub[b] ELSE sub[a]]
<1>1. /\ x \in live /\ x # z /\ t.parent[x] = z /\ x # t.root
      /\ b # Nil => b \in live /\ b \notin {x, z, p, t.root} /\ t.parent[b] = x
      /\ p # Nil => /\ z # t.root /\ p \in live /\ p \notin {x, z} /\ s \in Side
                    /\ t.child[p][s] = z /\ t.child[p][Other(s)] # z
      /\ p = Nil => z = t.root
  BY Neighbours
<1>2. /\ Fields(r) /\ r.key = t.key
      /\ r.root = IF z = t.root THEN x ELSE t.root
      /\ r.child[z][d] = c /\ r.child[z][Other(d)] = b
      /\ r.child[x][d] = z /\ r.child[x][Other(d)] = f
      /\ p # Nil => r.child[p][s] = x /\ r.child[p][Other(s)] = t.child[p][Other(s)]
      /\ \A a \in live \ {x, z, p} : \A e \in Side : r.child[a][e] = t.child[a][e]
  BY RotateSets
<1>3. /\ t.child[z][d] = c /\ t.child[z][Other(d)] = x /\ t.child[x][d] = b /\ t.child[x][Other(d)] = f
      /\ t.parent[z] = p
  OBVIOUS
<1>4. /\ d \in Side /\ Other(d) \in Side /\ Other(d) # d /\ Other(Other(d)) = d
      /\ \A e \in Side : e = d \/ e = Other(d)
      /\ p # Nil => Other(s) \in Side /\ Other(Other(s)) = s /\ \A e \in Side : e = s \/ e = Other(s)
  BY <1>1, Sides
<1>5. LinkedIn(t) /\ Nil \notin live /\ live \subseteq Addr /\ \A a \in live : t.key[a] \in Int
  BY NodesAssumption DEF IsTree, Addr, Fields
<1>6. /\ \A a \in live, e \in Side : t.child[a][e] \in live \cup {Nil}
      /\ \A a \in live, e \in Side : t.child[a][e] # Nil => t.parent[t.child[a][e]] = a
  BY <1>5 DEF LinkedIn
<1>7. /\ sub \in [live \cup {Nil} -> SUBSET live] /\ sub[Nil] = {} /\ sub[t.root] = live
      /\ \A a \in live : \A e \in Side :
           /\ sub[a] = {a} \cup sub[t.child[a][e]] \cup sub[t.child[a][Other(e)]]
           /\ a \notin sub[t.child[a][e]]
           /\ sub[t.child[a][e]] \cap sub[t.child[a][Other(e)]] = {}
  BY DEF Spans
<1> HIDE DEF x, b, c, f, p, s, r
<1>8. /\ sub[z] = {z} \cup sub[c] \cup sub[x] /\ z \notin sub[c] /\ z \notin sub[x] /\ sub[c] \cap sub[x] = {}
      /\ sub[x] = {x} \cup sub[b] \cup sub[f] /\ x \notin sub[b] /\ x \notin sub[f] /\ sub[b] \cap sub[f] = {}
      /\ c \in live \cup {Nil} /\ b \in live \cup {Nil} /\ f \in live \cup {Nil} /\ x # Nil /\ z # Nil
      /\ \A a \in live : a \in sub[a]
  BY <1>1, <1>3, <1>4, <1>5, <1>6, <1>7
<1>9. c \notin {x, z} /\ b \notin {x, z} /\ f \notin {x, z}
  BY <1>8
<1>10. /\ new \in [live \cup {Nil} -> SUBSET live] /\ new[x] = sub[z] /\ new[z] = {z} \cup sub[c] \cup sub[b]
       /\ \A a \in (live \cup {Nil}) \ {x, z} : new[a] = sub[a]
  BY <1>1, <1>5, <1>7, <1>8
<1> HIDE DEF new
<1>11. new[Nil] = {} /\ new[r.root] = live
  <2>1. t.root \in live /\ t.root # x /\ Nil \notin {x, z}
    BY <1>1, <1>5, <1>8 DEF LinkedIn
  <2>2. new[Nil] = {}
    BY <1>7, <1>10, <2>1
  <2>3. CASE z = t.root
    BY <1>2, <1>7, <1>10, <2>2, <2>3
  <2>4. CASE z # t.root
    BY <1>2, <1>7, <1>10, <2>1, <2>2, <2>4
  <2> QED BY <2>3, <2>4
<1>12. new[c] = sub[c] /\ new[b] = sub[b] /\ new[f] = sub[f]
  BY <1>8, <1>9, <1>10
<1>13. ASSUME NEW a \in live \ {x, z}, NEW e \in Side
       PROVE  new[r.child[a][e]] = sub[t.child[a][e]]
  <2>1. CASE a # p
    <3>1. r.child[a][e] = t.child[a][e] /\ t.child[a][e] \notin {x, z}
      BY <1>1, <1>2, <1>3, <1>6, <1>8, <2>1, <1>13
    <3> QED BY <1>6, <1>10, <1>13, <3>1
  <2>2. CASE a = p /\ e = s
    BY <1>1, <1>2, <1>5, <1>10, <1>13, <2>2
  <2>3. CASE a = p /\ e = Other(s)
    <3>1. p # Nil /\ t.child[p][e] # z /\ r.child[p][e] = t.child[p][e]
      BY <1>1, <1>2, <1>5, <1>13, <2>3
    <3>2. t.child[p][e] # x
      BY <1>1, <1>6, <1>8, <1>13, <2>3
    <3> QED BY <1>6, <1>10, <1>13, <2>3, <3>1, <3>2
  <2> QED BY <1>4, <1>5, <1>13, <2>1, <2>2, <2>3
<1>14. ASSUME NEW a \in live, NEW e \in Side
       PROVE  /\ new[a] = {a} \cup new[r.child[a][e]] \cup new[r.child[a][Other(e)]]
              /\ a \notin new[r.child[a][e]]
              /\ new[r.child[a][e]] \cap new[r.child[a][Other(e)]] = {}
              /\ \A q \in new[r.child[a][e]] : Beside(e, t.key[q], t.key[a])
  <2>1. CASE a \notin {x, z}
    <3>1. Other(e) \in Side
      BY Sides
    <3>2. new[r.child[a][e]] = sub[t.child[a][e]] /\ new[r.child[a][Other(e)]] = sub[t.child[a][Other(e)]]
      BY <1>13, <2>1, <3>1
    <3>3. new[a] = sub[a]
      BY <1>10, <2>1
    <3> QED BY <1>7, <2>1, <3>2, <3>3 DEF Ordered
  <2>2. /\ \A q \in sub[x] : Beside(Other(d), t.key[q], t.key[z])
        /\ \A q \in sub[c] : Beside(d, t.key[q], t.key[z])
        /\ \A q \in sub[b] : Beside(d, t.key[q], t.key[x])
        /\ \A q \in sub[f] : Beside(Other(d), t.key[q], t.key[x])
    BY <1>1, <1>3, <1>4 DEF Ordered
  <2>3. CASE a = z
    <3>1. \A q \in sub[b] : q \in sub[x]
      BY <1>8
    <3>2. e = d \/ e = Other(d)
      BY <1>4
    <3>3. /\ new[z] = {z} \cup new[c] \cup new[b] /\ z \notin new[c] /\ z \notin new[b] /\ new[c] \cap new[b] = {}
          /\ \A q \in new[c] : Beside(d, t.key[q], t.key[z])
          /\ \A q \in new[b] : Beside(Other(d), t.key[q], t.key[z])
      BY <1>8, <1>10, <1>12, <2>2, <3>1
    <3>4. CASE e = d
      BY <1>2, <2>3, <3>3, <3>4
    <3>5. CASE e = Other(d)
      BY <1>2, <1>4, <2>3, <3>3, <3>5
    <3> QED BY <3>2, <3>4, <3>5
  <2>4. CASE a = x
    <3>1. /\ new[x] = {x} \cup new[z] \cup new[f] /\ x \notin new[z] /\ x \notin new[f] /\ new[z] \cap new[f] = {}
      BY <1>8, <1>9, <1>10, <1>12
    <3>2. ASSUME NEW q \in new[z] PROVE Beside(d, t.key[q], t.key[x])
      <4>1. x \in sub[x] /\ q \in live
        BY <1>1, <1>8, <1>10
      <4>2. Beside(d, t.key[z], t.key[x])
        BY <1>1, <1>4, <1>5, <2>2, <4>1, BesideTrans
      <4>3. CASE q = z
        BY <4>2, <4>3
      <4>4. CASE q \in sub[b]
        BY <2>2, <4>4
      <4>5. CASE q \in sub[c]
        BY <1>1, <1>5, <2>2, <4>1, <4>2, <4>5, BesideTrans
      <4> QED BY <1>10, <3>2, <4>3, <4>4, <4>5
    <3>3. CASE e = d
      BY <1>2, <2>4, <3>1, <3>2, <3>3
    <3>4. CASE e = Other(d)
      BY <1>2, <1>4, <1>12, <2>2, <2>4, <3>1, <3>4
    <3> QED BY <1>4, <3>3, <3>4
  <2> QED BY <2>1, <2>3, <2>4
<1>15. Spans(r, live, new) /\ Ordered(r, live, new)
  BY <1>2, <1>10, <1>11, <1>14, ZenonT(30) DEF Spans, Ordered
<1> QED BY <1>15 DEF r

Size(sub) == [a \in DOMAIN sub |-> Cardinality(sub[a])]

LEMMA Sizes ==
  ASSUME NEW t, IsTree(t), NEW sub, Spans(t, live, sub)
  PROVE  /\ Size(sub) \in [live \cup {Nil} -> Nat] /\ Size(sub)[Nil] = 0 /\ IsFiniteSet(live)
         /\ \A a \in live : /\ a \in sub[a] /\ Size(sub)[a] <= Cardinality(Nodes)
                            /\ \A d \in Side : /\ t.child[a][d] \in live \cup {Nil}
                                               /\ Size(sub)[t.child[a][d]] < Size(sub)[a]
<1>1. IsFiniteSet(live) /\ live \subseteq Nodes /\ IsFiniteSet(Nodes)
  BY NodesAssumption, FS_Subset DEF IsTree
<1>2. \A a \in live \cup {Nil} : sub[a] \in SUBSET live
  BY DEF Spans
<1>3. \A a \in live \cup {Nil} : IsFiniteSet(sub[a]) /\ Cardinality(sub[a]) \in Nat
  BY <1>1, <1>2, FS_Subset, FS_CardinalityType
<1>4. DOMAIN sub = live \cup {Nil}
  BY DEF Spans
<1>5. Size(sub) \in [live \cup {Nil} -> Nat] /\ Size(sub)[Nil] = 0
  BY <1>3, <1>4, FS_EmptySet DEF Size, Spans
<1>6. ASSUME NEW a \in live, NEW d \in Side
      PROVE  /\ a \in sub[a] /\ Size(sub)[a] <= Cardinality(Nodes)
             /\ t.child[a][d] \in live \cup {Nil} /\ Size(sub)[t.child[a][d]] < Size(sub)[a]
  <2> DEFINE c == t.child[a][d]
  <2>1. c \in live \cup {Nil}
    BY ChildOrNil
  <2>2. sub[a] = {a} \cup sub[c] \cup sub[t.child[a][Other(d)]] /\ a \notin sub[c]
    BY DEF Spans
  <2> HIDE DEF c
  <2>3. sub[c] \in SUBSET sub[a] /\ sub[c] # sub[a] /\ sub[a] \in SUBSET Nodes
    BY <1>1, <1>2, <2>2
  <2>4. Cardinality(sub[c]) <= Cardinality(sub[a]) /\ Cardinality(sub[c]) # Cardinality(sub[a])
    BY <1>3, <2>3, FS_Subset
  <2>5. Cardinality(sub[a]) <= Cardinality(Nodes)
    BY <1>1, <2>3, FS_Subset
  <2> QED BY <1>3, <1>4, <2>1, <2>2, <2>4, <2>5 DEF Size, c
<1>7. Side # {}
  BY DEF Side
<1> QED BY <1>1, <1>5, <1>6, <1>7

\* Induction from the leaves to the root.
LEMMA BottomUp ==
  ASSUME NEW t, IsTree(t), NEW sub, Spans(t, live, sub), NEW S,
         \A a \in live : (\A d \in Side : t.child[a][d] \in S \cup {Nil}) => a \in S
  PROVE  live \subseteq S
<1> DEFINE size == Size(sub)
           Low(m) == \A a \in live : size[a] < m => a \in S
           Done == {m \in Nat : Low(m)}
<1>1. /\ \A a \in live : size[a] \in Nat
      /\ \A a \in live, d \in Side : t.child[a][d] \in live \cup {Nil} /\ size[t.child[a][d]] < size[a]
  BY Sizes
<1> HIDE DEF size
<1>2. Low(0)
  BY <1>1
<1>3. ASSUME NEW m \in Nat, Low(m) PROVE Low(m + 1)
  <2> SUFFICES ASSUME NEW a \in live, size[a] < m + 1 PROVE a \in S
    OBVIOUS
  <2>1. ASSUME NEW d \in Side PROVE t.child[a][d] \in S \cup {Nil}
    <3> DEFINE c == t.child[a][d]
    <3>1. c \in live \cup {Nil} /\ size[c] < size[a]
      BY <1>1
    <3> HIDE DEF c
    <3>2. c \in live => size[c] \in Nat
      BY <1>1
    <3>3. c \in live => size[c] < m
      BY <1>1, <3>1, <3>2
    <3>4. c \in S \cup {Nil}
      BY <1>3, <3>1, <3>3
    <3> QED BY <3>4 DEF c
  <2> QED BY <2>1
<1> HIDE DEF Low
<1>4. Nat \subseteq Done
  <2>1. 0 \in Done /\ \A m \in Nat \cap Done : m + 1 \in Done
    BY <1>2, <1>3
  <2> HIDE DEF Done
  <2> QED BY <2>1, Counting
<1>5. \A a \in live : size[a] + 1 \in Nat /\ size[a] < size[a] + 1
  BY <1>1
<1> QED BY <1>4, <1>5 DEF Low

\* Induction from the root to the leaves.
LEMMA TopDown ==
  ASSUME NEW t, IsTree(t), NEW S, t.root \in S, \A a \in live \ {t.root} : t.parent[a] \in S => a \in S
  PROVE  live \subseteq S
<1>1. PICK depth \in [live -> Nat] : \A a \in live \ {t.root} : depth[t.parent[a]] < depth[a]
  BY DEF IsTree, Acyclic
<1> SUFFICES ASSUME live \ S # {} PROVE FALSE
  OBVIOUS
<1>2. PICK a \in live \ S : \A b \in live \ S : ~(depth[b] < depth[a])
  BY Shallowest
<1>3. a # t.root /\ t.parent[a] \in live
  BY <1>2 DEF IsTree, LinkedIn
<1> QED BY <1>1, <1>2, <1>3

\* What is below a node below another is below the other.
LEMMA SpansNest ==
  ASSUME NEW t, IsTree(t), NEW sub, Spans(t, live, sub)
  PROVE  \A a \in live : \A b \in sub[a] : b \in live /\ sub[b] \subseteq sub[a]
<1> DEFINE S == {a \in live : \A b \in sub[a] : sub[b] \subseteq sub[a]}
<1>1. ASSUME NEW a \in live, \A d \in Side : t.child[a][d] \in S \cup {Nil} PROVE a \in S
  <2> SUFFICES ASSUME NEW b \in sub[a], b # a PROVE sub[b] \subseteq sub[a]
    OBVIOUS
  <2>1. PICK d \in Side : b \in sub[t.child[a][d]]
    <3>1. "left" \in Side /\ sub[a] = {a} \cup sub[t.child[a]["left"]] \cup sub[t.child[a][Other("left")]]
      BY DEF Spans, Side
    <3> QED BY <3>1, Sides
  <2>2. t.child[a][d] # Nil
    BY <2>1 DEF Spans
  <2>3. sub[b] \subseteq sub[t.child[a][d]]
    BY <1>1, <2>1, <2>2
  <2>4. sub[t.child[a][d]] \subseteq sub[a]
    BY DEF Spans
  <2> QED BY <2>3, <2>4
<1> HIDE DEF S
<1>2. live \subseteq S
  BY <1>1, BottomUp
<1>3. \A a \in live : sub[a] \subseteq live
  BY DEF Spans
<1> QED BY <1>2, <1>3 DEF S

-----------------------------------------------------------------------------
\* The descents.

\* rbtree_insert: the new node comes on the side of every node its key asks for.
LEMMA LastFits ==
  ASSUME NEW t, IsTree(t), NEW sub, Spans(t, live, sub), NEW k, t.root # Nil
  PROVE  /\ Last(t, k) \in live /\ t.child[Last(t, k)][Dir(t, k, Last(t, k))] = Nil
         /\ \A a \in live, d \in Side : Last(t, k) \in sub[t.child[a][d]] => d = Dir(t, k, a)
<1> DEFINE next == [a \in live |-> t.child[a][Dir(t, k, a)]]
           Step(f) == [a \in live |-> IF next[a] = Nil THEN a ELSE f[next[a]]]
           Down == CHOOSE f : f = Step(f)
           p == Last(t, k)
<1>1. \A a \in live : Dir(t, k, a) \in Side
  BY DEF Dir, Side
<1>2. /\ \A a \in live : a \in sub[a]
      /\ \A a \in live : \A d \in Side : /\ t.child[a][d] \in live \cup {Nil} /\ Size(sub)[t.child[a][d]] < Size(sub)[a]
                                         /\ sub[t.child[a][d]] \subseteq sub[a] /\ a \notin sub[t.child[a][d]]
                                         /\ sub[t.child[a][d]] \cap sub[t.child[a][Other(d)]] = {}
      /\ Size(sub) \in [live \cup {Nil} -> Nat]
      /\ sub[Nil] = {} /\ sub[t.root] = live
  <2>1. \A a \in live : \A d \in Side : /\ sub[t.child[a][d]] \subseteq sub[a] /\ a \notin sub[t.child[a][d]]
                                       /\ sub[t.child[a][d]] \cap sub[t.child[a][Other(d)]] = {}
    BY DEF Spans
  <2>2. sub[Nil] = {} /\ sub[t.root] = live
    BY DEF Spans
  <2> QED BY <2>1, <2>2, Sizes
<1>3. Down = Step(Down)
  <2> DEFINE stop == [a \in live |-> next[a] = Nil]
             val == [a \in live |-> a]
             height == [a \in live |-> Size(sub)[a]]
  <2>1. height \in [live -> Nat]
    BY <1>2
  <2>2. \A a \in live : ~stop[a] => next[a] \in live /\ height[next[a]] < height[a]
    BY <1>1, <1>2
  <2>3. \E f : Walks(f, live, stop, val, next)
    <3> HIDE DEF stop, val, height, next
    <3> QED BY <2>1, <2>2, Descends
  <2>4. \E f : f = Step(f)
    BY <2>3 DEF Walks
  <2> HIDE DEF Step
  <2> QED BY <2>4
<1>4. p = Down[t.root]
  BY DEF Last
<1>5. \A a \in live : Down[a] = IF t.child[a][Dir(t, k, a)] = Nil THEN a ELSE Down[t.child[a][Dir(t, k, a)]]
  BY <1>3
<1>6. t.root \in live
  BY DEF IsTree, LinkedIn
<1> HIDE DEF Down, p
<1>7. \A a \in live : Down[a] \in sub[a] /\ t.child[Down[a]][Dir(t, k, Down[a])] = Nil
  <2> DEFINE S == {a \in live : Down[a] \in sub[a] /\ t.child[Down[a]][Dir(t, k, Down[a])] = Nil}
  <2>1. ASSUME NEW a \in live, \A d \in Side : t.child[a][d] \in S \cup {Nil} PROVE a \in S
    BY <1>1, <1>2, <1>5, <2>1
  <2> HIDE DEF S
  <2>2. live \subseteq S
    BY <2>1, BottomUp
  <2> QED BY <2>2 DEF S
<1>8. \A a \in live : p \in sub[a] => Down[a] = p
  <2> DEFINE S == {a \in live : p \in sub[a] => Down[a] = p}
  <2>1. t.root \in S
    BY <1>4, <1>6
  <2>2. ASSUME NEW a \in live \ {t.root}, t.parent[a] \in S PROVE a \in S
    <3> SUFFICES ASSUME p \in sub[a] PROVE Down[a] = p
      OBVIOUS
    <3> DEFINE q == t.parent[a]
               c == t.child[q][Dir(t, k, q)]
    <3>1. q \in live /\ \E d \in Side : t.child[q][d] = a
      BY DEF IsTree, LinkedIn
    <3>2. PICK d \in Side : t.child[q][d] = a
      BY <3>1
    <3>3. p \in sub[q] /\ p # q
      BY <1>2, <3>1, <3>2
    <3>4. Down[q] = p
      BY <2>2, <3>3
    <3>5. c # Nil /\ Down[c] = p
      BY <1>5, <3>1, <3>3, <3>4
    <3>6. c \in live /\ p \in sub[c]
      BY <1>1, <1>2, <1>7, <3>1, <3>5
    <3>7. d = Dir(t, k, q)
      <4>1. Dir(t, k, q) \in Side /\ (d # Dir(t, k, q) => d = Other(Dir(t, k, q)))
        BY <1>1, <3>1, Sides
      <4> QED BY <1>2, <3>1, <3>2, <3>6, <4>1
    <3> QED BY <3>2, <3>5, <3>7
  <2> HIDE DEF S
  <2>3. live \subseteq S
    BY <2>1, <2>2, TopDown
  <2> QED BY <2>3 DEF S
<1>9. ASSUME NEW a \in live, NEW d \in Side, p \in sub[t.child[a][d]] PROVE d = Dir(t, k, a)
  <2> DEFINE c == t.child[a][Dir(t, k, a)]
  <2>1. p \in sub[a] /\ p # a
    BY <1>2, <1>9
  <2>2. c # Nil /\ Down[c] = p
    BY <1>5, <1>8, <2>1
  <2>3. c \in live /\ p \in sub[c]
    BY <1>1, <1>2, <1>7, <2>2
  <2>4. Dir(t, k, a) \in Side /\ (d # Dir(t, k, a) => d = Other(Dir(t, k, a)))
    BY <1>1, Sides
  <2> QED BY <1>2, <1>9, <2>3, <2>4
<1> QED BY <1>2, <1>4, <1>6, <1>7, <1>9 DEF p

\* The end of the links on a side is the first, or last, key, and hangs on that side.
LEMMA OutermostIsExtreme ==
  ASSUME NEW t, IsTree(t), NEW sub, Spans(t, live, sub), Ordered(t, live, sub), NEW top \in live, NEW d \in Side
  PROVE  /\ Outermost(t, top, d) \in sub[top] /\ t.child[Outermost(t, top, d)][d] = Nil
         /\ \A b \in sub[top] : Beside(d, t.key[Outermost(t, top, d)], t.key[b])
         /\ Outermost(t, top, d) # top => t.child[t.parent[Outermost(t, top, d)]][d] = Outermost(t, top, d)
<1> DEFINE Step(f) == [a \in live |-> IF t.child[a][d] = Nil THEN a ELSE f[t.child[a][d]]]
           Down == CHOOSE f : f = Step(f)
           Ends(a) == /\ Down[a] \in sub[a] /\ t.child[Down[a]][d] = Nil
                      /\ \A b \in sub[a] : Beside(d, t.key[Down[a]], t.key[b])
                      /\ Down[a] # a => t.child[t.parent[Down[a]]][d] = Down[a]
<1>1. /\ \A a \in live : a \in sub[a] /\ sub[a] \subseteq live
      /\ \A a \in live : \A e \in Side : t.child[a][e] \in live \cup {Nil} /\ Size(sub)[t.child[a][e]] < Size(sub)[a]
      /\ Size(sub) \in [live \cup {Nil} -> Nat]
  <2>1. \A a \in live : sub[a] \subseteq live
    BY DEF Spans
  <2> QED BY <2>1, Sizes
<1>2. Down = Step(Down)
  <2> DEFINE stop == [a \in live |-> t.child[a][d] = Nil]
             val == [a \in live |-> a]
             next == [a \in live |-> t.child[a][d]]
             height == [a \in live |-> Size(sub)[a]]
  <2>1. height \in [live -> Nat]
    BY <1>1
  <2>2. \A a \in live : ~stop[a] => next[a] \in live /\ height[next[a]] < height[a]
    BY <1>1
  <2>3. \E f : Walks(f, live, stop, val, next)
    <3> HIDE DEF stop, val, height, next
    <3> QED BY <2>1, <2>2, Descends
  <2>4. \E f : f = Step(f)
    BY <2>3 DEF Walks
  <2> HIDE DEF Step
  <2> QED BY <2>4
<1>3. Outermost(t, top, d) = Down[top]
  BY DEF Outermost
<1>4. \A a \in live : Down[a] = IF t.child[a][d] = Nil THEN a ELSE Down[t.child[a][d]]
  BY <1>2
<1> HIDE DEF Down
<1> DEFINE S == {a \in live : Ends(a)}
<1>5. ASSUME NEW a \in live, \A e \in Side : t.child[a][e] \in S \cup {Nil} PROVE a \in S
  <2> DEFINE c == t.child[a][d]
             o == t.child[a][Other(d)]
  <2>1. /\ sub[a] = {a} \cup sub[c] \cup sub[o] /\ sub[Nil] = {}
        /\ \A b \in sub[c] : Beside(d, t.key[b], t.key[a])
        /\ \A b \in sub[o] : Beside(Other(d), t.key[b], t.key[a])
    BY Sides DEF Spans, Ordered
  <2>2. \A b \in live : t.key[b] \in Int
    BY NodesAssumption DEF IsTree, Fields, Addr
  <2>3. \A b \in sub[o] : Beside(d, t.key[a], t.key[b])
    <3>1. \A b \in sub[o] : b \in live
      BY <1>1, <2>1
    <3> QED BY <2>1, <2>2, <3>1, BesideTrans
  <2>4. CASE c = Nil
    <3>1. Down[a] = a
      BY <1>4, <2>4
    <3>2. \A b \in sub[a] : Beside(d, t.key[a], t.key[b])
      BY <2>1, <2>2, <2>3, <2>4, BesideTrans
    <3> QED BY <1>1, <2>4, <3>1, <3>2
  <2>5. CASE c # Nil
    <3>1. c \in live /\ Ends(c) /\ Down[a] = Down[c] /\ t.parent[c] = a
      BY <1>4, <1>5, <2>5 DEF IsTree, LinkedIn
    <3>2. Down[a] \in sub[c] /\ Down[a] \in sub[a] /\ Down[a] \in live
      BY <1>1, <2>1, <3>1
    <3>3. Beside(d, t.key[Down[a]], t.key[a])
      BY <2>1, <3>2
    <3>4. \A b \in sub[a] : Beside(d, t.key[Down[a]], t.key[b])
      <4> SUFFICES ASSUME NEW b \in sub[a] PROVE Beside(d, t.key[Down[a]], t.key[b])
        OBVIOUS
      <4>1. CASE b \in sub[c]
        BY <3>1, <4>1
      <4>2. CASE b = a
        BY <3>3, <4>2
      <4>3. CASE b \in sub[o]
        <5>1. b \in live /\ Beside(d, t.key[a], t.key[b])
          BY <1>1, <2>3, <4>3
        <5>2. t.key[b] \in Int /\ t.key[a] \in Int /\ t.key[Down[a]] \in Int
          BY <2>2, <3>2, <5>1
        <5> QED BY <3>3, <5>1, <5>2, BesideTrans
      <4> QED BY <2>1, <4>1, <4>2, <4>3
    <3>5. t.child[t.parent[Down[a]]][d] = Down[a]
      BY <3>1
    <3> QED BY <3>1, <3>2, <3>4, <3>5
  <2> QED BY <2>4, <2>5
<1> HIDE DEF Ends
<1>6. live \subseteq S
  <2> HIDE DEF S
  <2> QED BY <1>5, BottomUp
<1>7. Ends(top)
  BY <1>6
<1> QED BY <1>3, <1>7 DEF Ends

\* The descents of both calls end where they should.
LEMMA EveryDescentEnds ==
  ASSUME IsTree(tree), NEW sub, Spans(tree, live, sub), Ordered(tree, live, sub)
  PROVE  DescentsEnd
<1>1. ASSUME tree.root # Nil, NEW k \in Keys
      PROVE  Last(tree, k) \in live /\ tree.child[Last(tree, k)][Dir(tree, k, Last(tree, k))] = Nil
  BY <1>1, LastFits
<1>2. ASSUME NEW p \in live, HasTwo(tree, p)
      PROVE  /\ Unlinked(tree, p) \in live \ {p, tree.root} /\ tree.child[Unlinked(tree, p)]["left"] = Nil
             /\ Unlinked(tree, p) # tree.child[p]["right"]
                  => tree.child[tree.parent[Unlinked(tree, p)]]["left"] = Unlinked(tree, p)
  <2> DEFINE c == tree.child[p]["right"]
             y == Outermost(tree, c, "left")
  <2>1. Unlinked(tree, p) = y /\ c # Nil
    BY <1>2 DEF Unlinked, HasTwo
  <2>2. "left" \in Side /\ "right" \in Side
    BY DEF Side
  <2>3. c \in live
    BY <2>1, <2>2, ChildOrNil
  <2>4. p \notin sub[c] /\ sub[c] \subseteq live /\ sub[tree.root] = live /\ tree.root \in live
    BY <2>2, <2>3 DEF Spans, IsTree, LinkedIn
  <2> HIDE DEF c
  <2>5. y \in sub[c] /\ tree.child[y]["left"] = Nil /\ (y # c => tree.child[tree.parent[y]]["left"] = y)
    BY <2>2, <2>3, OutermostIsExtreme
  <2>6. y # tree.root
    BY <2>3, <2>4, <2>5, SpansNest
  <2> QED BY <2>1, <2>4, <2>5, <2>6 DEF c
<1> QED BY <1>1, <1>2 DEF DescentsEnd

\* postorder_free and the other walks over a subtree reach the nodes at and below its root.
LEMMA UnderIsSpan ==
  ASSUME NEW t, IsTree(t), NEW sub, Spans(t, live, sub)
  PROVE  \A a \in live \cup {Nil} : Under(t, a) = sub[a]
<1> DEFINE N == Cardinality(Nodes)
           All == Addr \cup {Null}
           Row(above) == [b \in All |-> IF b \notin Nodes THEN {}
                                        ELSE {b} \cup UNION {above[t.child[b][d]] : d \in Side}]
           First == [b \in All |-> IF b \notin Nodes THEN {} ELSE {b}]
           Step(g) == [depth \in 0..N |->
             [b \in All |->
               IF b \notin Nodes THEN {}
               ELSE {b} \cup IF depth = 0 THEN {} ELSE UNION {g[depth - 1][t.child[b][d]] : d \in Side}]]
           Reached == CHOOSE g : g = Step(g)
<1>1. N \in Nat
  BY NodesAssumption, FS_CardinalityType
<1>2. \A a \in live \cup {Nil} : Under(t, a) = Reached[N][a]
  BY DEF Under
<1>3. \A b \in Nodes, d \in Side : t.child[b][d] \in All
  BY DEF IsTree, Fields, Addr
<1>4. Reached = Step(Reached)
  <2> DEFINE Rows == [All -> SUBSET Nodes]
             step == [above \in Rows |-> Row(above)]
  <2>1. First \in Rows /\ step \in [Rows -> Rows]
    <3>1. First \in Rows
      OBVIOUS
    <3>2. ASSUME NEW above \in Rows PROVE Row(above) \in Rows
      BY <1>3
    <3> HIDE DEF Row, Rows
    <3> QED BY <3>1, <3>2
  <2>2. PICK f \in [0..N -> Rows] : f = [n \in 0..N |-> IF n = 0 THEN First ELSE step[f[n-1]]]
    <3>1. \E f \in [0..N -> Rows] : Iterated(f, First, step, N)
      <4> HIDE DEF Rows, First, step, N
      <4> QED BY <1>1, <2>1, Iterates
    <3> QED BY <3>1 DEF Iterated
  <2>3. ASSUME NEW n \in 0..N
        PROVE  f[n] = [b \in All |-> IF b \notin Nodes THEN {}
                          ELSE {b} \cup IF n = 0 THEN {} ELSE UNION {f[n - 1][t.child[b][d]] : d \in Side}]
    <3>1. CASE n = 0
      BY <2>2, <3>1
    <3>2. CASE n # 0
      <4>1. n - 1 \in 0..N
        BY <1>1, <3>2
      <4>2. f[n - 1] \in Rows
        <5> HIDE DEF Rows
        <5> QED BY <4>1
      <4>3. f[n] = step[f[n - 1]]
        BY <2>2, <3>2
      <4>4. f[n] = Row(f[n - 1])
        <5> HIDE DEF Row, Rows
        <5> QED BY <4>2, <4>3
      <4> QED BY <3>2, <4>4
    <3> QED BY <3>1, <3>2
  <2>4. f = Step(f)
    <3>1. f = [n \in 0..N |-> f[n]]
      <4> HIDE DEF Rows
      <4> QED OBVIOUS
    <3> QED BY <2>3, <3>1
  <2> HIDE DEF Step
  <2> QED BY <2>4
<1>5. ASSUME NEW n \in 0..N, NEW b \in All
      PROVE  Reached[n][b] = IF b \notin Nodes THEN {}
                 ELSE {b} \cup IF n = 0 THEN {} ELSE UNION {Reached[n - 1][t.child[b][d]] : d \in Side}
  <2> HIDE DEF Reached, All
  <2>1. Reached[n] = [c \in All |-> IF c \notin Nodes THEN {}
               ELSE {c} \cup IF n = 0 THEN {} ELSE UNION {Reached[n - 1][t.child[c][d]] : d \in Side}]
    BY <1>4
  <2> QED BY <2>1
<1> HIDE DEF Reached, N
<1> DEFINE size == Size(sub)
           Far(n) == n <= N => \A a \in live \cup {Nil} : size[a] <= n + 1 => Reached[n][a] = sub[a]
           Done == {n \in Nat : Far(n)}
<1>6. /\ size \in [live \cup {Nil} -> Nat] /\ size[Nil] = 0 /\ sub[Nil] = {}
      /\ \A a \in live : /\ a \in sub[a] /\ size[a] <= N
                         /\ \A d \in Side : t.child[a][d] \in live \cup {Nil} /\ size[t.child[a][d]] < size[a]
  <2>1. sub[Nil] = {}
    BY DEF Spans
  <2> QED BY <2>1, Sizes DEF N
<1>7. live \subseteq Nodes /\ Nil \notin Nodes /\ live \cup {Nil} \subseteq All
  BY NodesAssumption DEF IsTree, Addr
<1>8. \A a \in live : sub[a] = {a} \cup UNION {sub[t.child[a][d]] : d \in Side}
  <2> SUFFICES ASSUME NEW a \in live PROVE sub[a] = {a} \cup UNION {sub[t.child[a][d]] : d \in Side}
    OBVIOUS
  <2>1. "left" \in Side /\ Other("left") = "right" /\ \A d \in Side : d = "left" \/ d = "right"
    BY DEF Side, Other
  <2>2. sub[a] = {a} \cup sub[t.child[a]["left"]] \cup sub[t.child[a]["right"]]
    BY <2>1 DEF Spans
  <2> QED BY <2>1, <2>2 DEF Side
<1> HIDE DEF size, All
<1>9. ASSUME NEW n \in Nat, n <= N, NEW a \in live, size[a] <= n + 1,
             n # 0 => \A c \in live \cup {Nil} : size[c] <= n => Reached[n - 1][c] = sub[c]
      PROVE  Reached[n][a] = sub[a]
  <2>1. Reached[n][a] = {a} \cup IF n = 0 THEN {} ELSE UNION {Reached[n - 1][t.child[a][d]] : d \in Side}
    <3>1. n \in 0..N /\ a \in All /\ a \in Nodes
      BY <1>1, <1>7, <1>9
    <3> QED BY <1>5, <3>1
  <2>2. \A d \in Side : t.child[a][d] \in live \cup {Nil} /\ size[t.child[a][d]] \in Nat /\ size[t.child[a][d]] <= n
    BY <1>6, <1>9
  <2>3. CASE n = 0
    <3>1. \A d \in Side : t.child[a][d] = Nil
      <4> SUFFICES ASSUME NEW d \in Side, t.child[a][d] # Nil PROVE FALSE
        OBVIOUS
      <4> DEFINE c == t.child[a][d]
      <4>1. c \in live /\ size[c] = 0
        BY <2>2, <2>3
      <4>2. "left" \in Side /\ t.child[c]["left"] \in live \cup {Nil} /\ size[t.child[c]["left"]] < size[c]
        <5> HIDE DEF c
        <5> QED BY <1>6, <4>1 DEF Side
      <4> HIDE DEF c
      <4>3. size[t.child[c]["left"]] \in Nat
        BY <1>6, <4>2
      <4> QED BY <4>1, <4>2, <4>3
    <3> QED BY <1>6, <1>8, <2>1, <2>3, <3>1
  <2>4. CASE n # 0
    <3>1. \A d \in Side : Reached[n - 1][t.child[a][d]] = sub[t.child[a][d]]
      BY <1>9, <2>2, <2>4
    <3>2. UNION {Reached[n - 1][t.child[a][d]] : d \in Side} = UNION {sub[t.child[a][d]] : d \in Side}
      BY <3>1
    <3> QED BY <1>8, <2>1, <2>4, <3>2
  <2> QED BY <2>3, <2>4
<1>10. ASSUME NEW n \in Nat, n <= N PROVE Reached[n][Nil] = sub[Nil]
  <2>1. n \in 0..N /\ Nil \in All /\ Nil \notin Nodes
    BY <1>1, <1>7, <1>10
  <2> QED BY <1>5, <1>6, <2>1
<1>11. Far(0)
  BY <1>1, <1>9, <1>10
<1>12. ASSUME NEW n \in Nat, Far(n) PROVE Far(n + 1)
  <2> SUFFICES ASSUME n + 1 <= N, NEW a \in live \cup {Nil}, size[a] <= (n + 1) + 1
               PROVE  Reached[n + 1][a] = sub[a]
    OBVIOUS
  <2>1. (n + 1) - 1 = n /\ n <= N /\ n + 1 \in Nat
    BY <1>1
  <2>2. \A c \in live \cup {Nil} : size[c] <= n + 1 => Reached[(n + 1) - 1][c] = sub[c]
    BY <1>12, <2>1
  <2> QED BY <1>9, <1>10, <2>1, <2>2
<1> HIDE DEF Far
<1>13. Nat \subseteq Done
  <2>1. 0 \in Done /\ \A n \in Nat \cap Done : n + 1 \in Done
    BY <1>11, <1>12
  <2> HIDE DEF Done
  <2> QED BY <2>1, Counting
<1>14. Far(N)
  BY <1>1, <1>13
<1>15. \A a \in live \cup {Nil} : size[a] <= N + 1
  BY <1>1, <1>6
<1> QED BY <1>1, <1>2, <1>14, <1>15 DEF Far, N

\* A new node comes below the node its descent ends at, and on the right side of all others.
LEMMA InsertSpans ==
  ASSUME IsTree(tree), NEW sub, Spans(tree, live, sub), Ordered(tree, live, sub), NEW k \in Keys, Insert(k)
  PROVE  \E new : Spans(tree', live', new) /\ Ordered(tree', live', new)
<1> DEFINE p == Last(tree, k)
           e == Dir(tree, k, p)
<1>1. PICK n \in Nodes \ live :
           /\ live' = live \cup {n}
           /\ Fields(tree') /\ tree'.root = (IF p = Nil THEN n ELSE tree.root)
           /\ tree'.key[n] = k /\ \A d \in Side : tree'.child[n][d] = Nil
           /\ \A a \in Addr \ {n} : tree'.key[a] = tree.key[a]
           /\ \A a \in Addr \ {n, p} : tree'.child[a] = tree.child[a]
           /\ p = Nil <=> tree.root = Nil
           /\ p # Nil => /\ p \in live /\ tree.child[p][e] = Nil /\ tree'.child[p][e] = n
                         /\ tree'.child[p][Other(e)] = tree.child[p][Other(e)]
           /\ e \in Side
  BY EveryDescentEnds, InsertSets
<1>2. tree.root # Nil => \A a \in live, d \in Side : p \in sub[tree.child[a][d]] => d = Dir(tree, k, a)
  BY LastFits
<1>3. e = Dir(tree, k, p)
  OBVIOUS
<1>4. /\ sub \in [live \cup {Nil} -> SUBSET live] /\ sub[Nil] = {} /\ sub[tree.root] = live
      /\ \A a \in live : \A d \in Side :
           /\ sub[a] = {a} \cup sub[tree.child[a][d]] \cup sub[tree.child[a][Other(d)]]
           /\ a \notin sub[tree.child[a][d]]
           /\ sub[tree.child[a][d]] \cap sub[tree.child[a][Other(d)]] = {}
  BY DEF Spans
<1>5. /\ \A a \in live : a \in sub[a] /\ \A d \in Side : tree.child[a][d] \in live \cup {Nil}
      /\ n \notin live /\ n # Nil /\ Nil \notin live /\ live \subseteq Addr /\ n \in Addr /\ Nil \in Addr
      /\ tree.root = Nil <=> live = {}
      /\ tree.root \in live \cup {Nil}
  <2>1. n # Nil /\ Nil \notin live /\ live \subseteq Addr /\ n \in Addr /\ Nil \in Addr
    BY NodesAssumption DEF IsTree, Addr
  <2>2. \A a \in live : a \in sub[a] /\ \A d \in Side : tree.child[a][d] \in live \cup {Nil}
    BY Sizes
  <2>3. (tree.root = Nil <=> live = {}) /\ tree.root \in live \cup {Nil}
    BY DEF IsTree, LinkedIn
  <2> QED BY <2>1, <2>2, <2>3
<1>6. \A a \in live : tree.key[a] \in Int
  BY <1>5 DEF IsTree, Fields
<1> HIDE DEF p, e
<1> DEFINE new == [a \in live' \cup {Nil} |-> IF a = n THEN {n} ELSE IF p \in sub[a] THEN sub[a] \cup {n} ELSE sub[a]]
<1>7. /\ new \in [live' \cup {Nil} -> SUBSET live'] /\ new[n] = {n}
      /\ \A a \in live \cup {Nil} : new[a] = IF p \in sub[a] THEN sub[a] \cup {n} ELSE sub[a]
  BY <1>1, <1>4, <1>5
<1> HIDE DEF new
<1>8. new[Nil] = {} /\ new[tree'.root] = live'
  <2>1. new[Nil] = {}
    BY <1>4, <1>7
  <2>2. CASE p = Nil
    BY <1>1, <1>5, <1>7, <2>1, <2>2
  <2>3. CASE p # Nil
    <3>1. p \in live /\ tree'.root = tree.root /\ live' = live \cup {n}
      BY <1>1, <2>3
    <3>2. new[tree.root] = IF p \in sub[tree.root] THEN sub[tree.root] \cup {n} ELSE sub[tree.root]
      BY <1>5, <1>7
    <3> QED BY <1>4, <2>1, <3>1, <3>2
  <2> QED BY <2>2, <2>3
<1>9. ASSUME NEW a \in live', NEW d \in Side
      PROVE  /\ new[a] = {a} \cup new[tree'.child[a][d]] \cup new[tree'.child[a][Other(d)]]
             /\ a \notin new[tree'.child[a][d]]
             /\ new[tree'.child[a][d]] \cap new[tree'.child[a][Other(d)]] = {}
             /\ \A b \in new[tree'.child[a][d]] : Beside(d, tree'.key[b], tree'.key[a])
  <2>1. Other(d) \in Side
    BY Sides
  <2>2. CASE a = n
    BY <1>1, <1>7, <1>8, <2>1, <2>2
  <2> DEFINE c == tree.child[a][d]
             o == tree.child[a][Other(d)]
  <2>3. CASE a \in live
    <3>1. /\ sub[a] = {a} \cup sub[c] \cup sub[o] /\ a \notin sub[c] /\ a \notin sub[o] /\ sub[c] \cap sub[o] = {}
          /\ c \in live \cup {Nil} /\ o \in live \cup {Nil} /\ sub[a] \subseteq live
          /\ \A b \in sub[c] : Beside(d, tree.key[b], tree.key[a])
      BY <1>4, <1>5, <2>1, <2>3 DEF Ordered
    <3>2. tree'.key[a] = tree.key[a] /\ \A b \in sub[c] : tree'.key[b] = tree.key[b]
      BY <1>1, <1>5, <2>3, <3>1
    <3>3. \A b \in sub[c] : Beside(d, tree'.key[b], tree'.key[a])
      BY <3>1, <3>2
    <3>4. p \in sub[c] \/ (a = p /\ d = e) => Beside(d, tree'.key[n], tree'.key[a])
      <4>1. ASSUME p \in sub[c] \/ (a = p /\ d = e) PROVE d = Dir(tree, k, a)
        BY <1>2, <1>3, <1>4, <1>5, <2>3, <4>1
      <4>2. k \in Int /\ tree.key[a] \in Int
        BY <1>6, <2>3, KeysAssumption
      <4> QED BY <1>1, <3>2, <4>1, <4>2 DEF Dir, Beside
    <3>5. CASE a = p
      <4>1. p # Nil /\ a # n
        BY <1>5, <2>3, <3>5
      <4>2. new[n] = {n} /\ new[a] = sub[a] \cup {n} /\ new[Nil] = {}
        BY <1>5, <1>7, <1>8, <2>3, <3>5
      <4>3. CASE d = e
        <5>1. tree'.child[a][d] = n /\ tree'.child[a][Other(d)] = o /\ c = Nil /\ sub[c] = {}
          BY <1>1, <1>4, <3>5, <4>1, <4>3
        <5>2. new[o] = sub[o]
          BY <1>7, <3>1, <3>5
        <5> HIDE DEF c, o
        <5> QED BY <1>5, <2>3, <3>1, <3>4, <3>5, <4>1, <4>2, <4>3, <5>1, <5>2
      <4>4. CASE d # e
        <5>1. e = Other(d) /\ Other(e) = d
          BY <1>1, <4>4, Sides
        <5>2. tree'.child[a][d] = c /\ tree'.child[a][Other(d)] = n /\ o = Nil /\ sub[o] = {}
          BY <1>1, <1>4, <3>5, <4>1, <5>1
        <5>3. new[c] = sub[c]
          BY <1>7, <3>1, <3>5
        <5> HIDE DEF c, o
        <5> QED BY <1>5, <2>3, <3>1, <3>3, <3>5, <4>1, <4>2, <5>2, <5>3
      <4> QED BY <4>3, <4>4
    <3>6. CASE a # p
      <4>1. tree'.child[a][d] = c /\ tree'.child[a][Other(d)] = o
        BY <1>1, <1>5, <2>3, <3>6
      <4>2. /\ new[c] = (IF p \in sub[c] THEN sub[c] \cup {n} ELSE sub[c])
            /\ new[o] = (IF p \in sub[o] THEN sub[o] \cup {n} ELSE sub[o])
            /\ new[a] = (IF p \in sub[a] THEN sub[a] \cup {n} ELSE sub[a])
        BY <1>7, <2>3, <3>1
      <4>3. a # n /\ n \notin sub[c] /\ n \notin sub[o]
        BY <1>5, <2>3, <3>1
      <4> HIDE DEF c, o
      <4>4. \A b \in new[c] : Beside(d, tree'.key[b], tree'.key[a])
        BY <3>3, <3>4, <4>2
      <4>5. /\ new[a] = {a} \cup new[c] \cup new[o] /\ a \notin new[c] /\ new[c] \cap new[o] = {}
        BY <3>1, <3>6, <4>2, <4>3
      <4> QED BY <4>1, <4>4, <4>5
    <3> QED BY <3>5, <3>6
  <2> QED BY <1>1, <2>2, <2>3
<1>10. Spans(tree', live', new) /\ Ordered(tree', live', new)
  BY <1>7, <1>8, <1>9 DEF Spans, Ordered
<1> QED BY <1>10

\* A removal takes the node out of every side it was on; the key that moves up stays in order.
LEMMA EraseSpans ==
  ASSUME IsTree(tree), NEW sub, Spans(tree, live, sub), Ordered(tree, live, sub), NEW p, Erase(p)
  PROVE  \E new : Spans(tree', live', new) /\ Ordered(tree', live', new)
<1> DEFINE y == Unlinked(tree, p)
           r == Replacement(tree, y)
           up == tree.parent[y]
           s == SideOf(tree, y)
           c == tree.child[p]["right"]
<1>1. /\ p \in live /\ live' = live \ {y} /\ Fields(tree')
      /\ y \in live /\ up \in live \cup {Nil} /\ (up = Nil <=> y = tree.root) /\ up # y
      /\ r \in live \cup {Nil} /\ r # y
      /\ \E d \in Side : tree.child[y][d] = r /\ tree.child[y][Other(d)] = Nil
      /\ s \in Side
      /\ up # Nil => tree.child[up][s] = y
      /\ HasTwo(tree, p) => y # p /\ y # tree.root
      /\ ~HasTwo(tree, p) => y = p
      /\ tree'.root = (IF y = tree.root THEN r ELSE tree.root)
      /\ up # Nil => tree'.child[up][s] = r /\ tree'.child[up][Other(s)] = tree.child[up][Other(s)]
      /\ \A a \in Addr \ {y, up} : tree'.child[a] = tree.child[a]
      /\ \A a \in Addr \ {y} : tree'.key[a] = IF a = p THEN tree.key[y] ELSE tree.key[a]
  <2>1. DescentsEnd /\ y = Unlinked(tree, p) /\ r = Replacement(tree, y) /\ up = tree.parent[y] /\ s = SideOf(tree, y)
    BY EveryDescentEnds
  <2> HIDE DEF y, r, up, s
  <2>2. p \in live /\ y \in live /\ (r # Nil => r # y)
    BY <2>1, EraseSets
  <2>3. r # y
    BY <2>2, NodesAssumption DEF IsTree
  <2> QED BY <2>1, <2>3, EraseSets
<1>2. /\ sub \in [live \cup {Nil} -> SUBSET live] /\ sub[Nil] = {} /\ sub[tree.root] = live
      /\ \A a \in live : \A d \in Side :
           /\ sub[a] = {a} \cup sub[tree.child[a][d]] \cup sub[tree.child[a][Other(d)]]
           /\ a \notin sub[tree.child[a][d]]
           /\ sub[tree.child[a][d]] \cap sub[tree.child[a][Other(d)]] = {}
  BY DEF Spans
<1>3. /\ Nil \notin live /\ live \subseteq Addr /\ Nil \in Addr
      /\ \A a \in live : a \in sub[a] /\ tree.key[a] \in Int /\ \A d \in Side : tree.child[a][d] \in live \cup {Nil}
      /\ \A a \in live, d \in Side : tree.child[a][d] # Nil => tree.parent[tree.child[a][d]] = a
  <2>1. Nil \notin live /\ live \subseteq Addr /\ Nil \in Addr /\ \A a \in live : tree.key[a] \in Int
    BY NodesAssumption DEF IsTree, Addr, Fields
  <2>2. \A a \in live, d \in Side : tree.child[a][d] # Nil => tree.parent[tree.child[a][d]] = a
    BY DEF IsTree, LinkedIn
  <2> QED BY <2>1, <2>2, Sizes
<1>4. HasTwo(tree, p) => y \in sub[c] /\ \A b \in sub[c] : tree.key[y] <= tree.key[b]
  <2> SUFFICES ASSUME HasTwo(tree, p) PROVE y \in sub[c] /\ \A b \in sub[c] : tree.key[y] <= tree.key[b]
    OBVIOUS
  <2>1. "left" \in Side /\ "right" \in Side
    BY DEF Side
  <2>2. c \in live /\ y = Outermost(tree, c, "left")
    BY <1>1, <2>1, ChildOrNil DEF HasTwo, Unlinked
  <2> HIDE DEF c, y
  <2>3. y \in sub[c] /\ \A b \in sub[c] : Beside("left", tree.key[y], tree.key[b])
    BY <2>1, <2>2, OutermostIsExtreme
  <2> QED BY <2>3 DEF Beside
<1>5. \A a \in live : \A b \in sub[a] : sub[b] \subseteq sub[a]
  BY SpansNest
<1>6. /\ c \in live \cup {Nil} /\ "left" \in Side /\ "right" \in Side /\ c = tree.child[p]["right"]
      /\ \A d \in Side : d = "left" \/ d = "right"
  BY <1>1, <1>3 DEF Side
<1>7. up = tree.parent[y]
  OBVIOUS
<1> HIDE DEF y, r, up, s, c
<1>8. sub[y] \ {y} = sub[r] /\ y \notin sub[r]
  <2>1. PICK d \in Side : tree.child[y][d] = r /\ tree.child[y][Other(d)] = Nil
    BY <1>1
  <2> QED BY <1>1, <1>2, <2>1
<1> DEFINE new == [a \in live' \cup {Nil} |-> sub[a] \ {y}]
<1>9. /\ new \in [live' \cup {Nil} -> SUBSET live'] /\ \A a \in live' \cup {Nil} : new[a] = sub[a] \ {y}
  BY <1>1, <1>2
<1> HIDE DEF new
<1>10. new[Nil] = {} /\ new[tree'.root] = live'
  <2>1. new[Nil] = {} /\ tree.root \in live
    BY <1>1, <1>2, <1>9 DEF IsTree, LinkedIn
  <2>2. CASE y = tree.root
    BY <1>1, <1>2, <1>8, <1>9, <2>1, <2>2
  <2>3. CASE y # tree.root
    BY <1>1, <1>2, <1>9, <2>1, <2>3
  <2> QED BY <2>2, <2>3
<1>11. ASSUME NEW a \in live', NEW d \in Side
       PROVE  new[tree'.child[a][d]] = sub[tree.child[a][d]] \ {y}
  <2>1. a \in live /\ a # y /\ a \in Addr
    BY <1>1, <1>3
  <2>2. CASE a = up /\ d = s
    BY <1>1, <1>3, <1>8, <1>9, <2>1, <2>2
  <2>3. CASE ~(a = up /\ d = s)
    <3>1. tree.child[a][d] # y
      <4>1. tree.child[a][d] = y => a = up
        BY <1>1, <1>3, <1>7, <2>1
      <4>2. a = up => d = Other(s) /\ tree.child[up][s] = y /\ up # Nil
        BY <1>1, <1>3, <2>1, <2>3, Sides
      <4>3. tree.child[a][d] = y => sub[y] \cap sub[y] = {}
        BY <1>1, <1>2, <2>1, <4>1, <4>2
      <4> QED BY <1>1, <1>3, <4>3
    <3>2. tree'.child[a][d] = tree.child[a][d]
      <4>1. CASE a = up
        <5>1. d = Other(s) /\ up # Nil
          BY <1>1, <1>3, <2>1, <2>3, <4>1, Sides
        <5> QED BY <1>1, <4>1, <5>1
      <4>2. CASE a # up
        BY <1>1, <2>1, <4>2
      <4> QED BY <4>1, <4>2
    <3> QED BY <1>1, <1>3, <1>9, <2>1, <3>1, <3>2
  <2> QED BY <2>2, <2>3
<1>12. ASSUME NEW a \in live', NEW d \in Side
       PROVE  /\ new[a] = {a} \cup new[tree'.child[a][d]] \cup new[tree'.child[a][Other(d)]]
              /\ a \notin new[tree'.child[a][d]]
              /\ new[tree'.child[a][d]] \cap new[tree'.child[a][Other(d)]] = {}
  <2>1. a \in live /\ a # y /\ Other(d) \in Side /\ new[a] = sub[a] \ {y}
    BY <1>1, <1>9, Sides
  <2>2. /\ new[tree'.child[a][d]] = sub[tree.child[a][d]] \ {y}
        /\ new[tree'.child[a][Other(d)]] = sub[tree.child[a][Other(d)]] \ {y}
    BY <1>11, <2>1
  <2>3. /\ sub[a] = {a} \cup sub[tree.child[a][d]] \cup sub[tree.child[a][Other(d)]]
        /\ a \notin sub[tree.child[a][d]]
        /\ sub[tree.child[a][d]] \cap sub[tree.child[a][Other(d)]] = {}
    BY <1>2, <2>1
  <2> QED BY <2>1, <2>2, <2>3
<1>13. ASSUME NEW a \in live', NEW d \in Side, NEW b \in new[tree'.child[a][d]]
       PROVE  Beside(d, tree'.key[b], tree'.key[a])
  <2>1. a \in live /\ a # y /\ b \in sub[tree.child[a][d]] /\ b # y /\ b \in live
    BY <1>1, <1>2, <1>3, <1>11
  <2>2. Beside(d, tree.key[b], tree.key[a])
    BY <2>1 DEF Ordered
  <2>3. /\ tree'.key[a] = (IF a = p THEN tree.key[y] ELSE tree.key[a])
        /\ tree'.key[b] = (IF b = p THEN tree.key[y] ELSE tree.key[b])
    BY <1>1, <1>3, <2>1
  <2>4. CASE a # p /\ b # p
    BY <2>2, <2>3, <2>4
  <2>5. ASSUME HasTwo(tree, p) PROVE tree.key[p] <= tree.key[y] /\ y \in sub[p] /\ tree.key[y] \in Int
    <3>1. y \in sub[c] /\ y \in sub[p]
      BY <1>1, <1>2, <1>4, <1>6, <2>5
    <3>2. Beside("right", tree.key[y], tree.key[p])
      BY <1>1, <1>6, <3>1 DEF Ordered
    <3> QED BY <1>1, <1>3, <3>1, <3>2 DEF Beside
  <2>6. CASE a = p
    <3>1. HasTwo(tree, p) /\ b # p
      BY <1>1, <1>2, <2>1, <2>6
    <3>2. CASE d = "left"
      <4>1. tree.key[b] <= tree.key[p]
        BY <2>2, <2>6, <3>2 DEF Beside
      <4>2. tree.key[b] \in Int /\ tree.key[p] \in Int
        BY <1>1, <1>3, <2>1
      <4>3. tree.key[b] <= tree.key[y]
        BY <2>5, <3>1, <4>1, <4>2
      <4> QED BY <2>3, <2>6, <3>1, <3>2, <4>3 DEF Beside
    <3>3. CASE d = "right"
      <4>1. b \in sub[c]
        BY <1>6, <2>1, <2>6, <3>3
      <4> QED BY <1>4, <2>3, <2>6, <3>1, <3>3, <4>1 DEF Beside
    <3> QED BY <1>6, <3>2, <3>3
  <2>7. CASE b = p /\ a # p
    <3>1. HasTwo(tree, p) /\ tree.child[a][d] \in live
      BY <1>1, <1>2, <1>3, <2>1, <2>7
    <3>2. y \in sub[tree.child[a][d]]
      BY <1>5, <2>1, <2>5, <2>7, <3>1
    <3>3. Beside(d, tree.key[y], tree.key[a])
      BY <2>1, <3>2 DEF Ordered
    <3> QED BY <2>3, <2>7, <3>3
  <2> QED BY <2>4, <2>6, <2>7
<1>14. Spans(tree', live', new) /\ Ordered(tree', live', new)
  BY <1>9, <1>10, <1>12, <1>13 DEF Spans, Ordered
<1> QED BY <1>14

-----------------------------------------------------------------------------
\* The colours.

(***************************************************************************)
(* A weight for every node: the number of black nodes on every path from   *)
(* it down to nil.  M holds the link, given by the node above it and the   *)
(* side, below which rbtree_erase has yet to make up for one black node.   *)
(* X holds the node that may be red below a red one.                       *)
(***************************************************************************)
Weights(N, g) == g \in [N \cup {Nil} -> Nat] /\ g[Nil] = 0
One(test) == IF test THEN 1 ELSE 0
Even(ch, col, g, M, a) ==
  \A d \in Side : g[a] = g[ch[a][d]] + One(<<a, d>> \in M) + One(col[a] = "black")
Calm(ch, col, X, a) ==
  col[a] = "red" => \A d \in Side : col[ch[a][d]] = "black" \/ ch[a][d] \in X

\* A rotation in which the upper node's colour and weight go to the node that comes up for it.
LEMMA RotateColors ==
  ASSUME NEW t, IsTree(t), NEW z \in live, NEW d \in Side, t.child[z][Other(d)] # Nil,
         NEW x, x = t.child[z][Other(d)],
         NEW col, NEW new, NEW g, NEW h, NEW M,
         \A a \in (live \cup {Nil}) \ {x, z} : new[a] = col[a] /\ h[a] = g[a],
         new[x] = col[z], h[x] = g[z],
         \A a \in live \ {x, z} : Even(t.child, col, g, M, a) /\ Calm(t.child, col, {}, a)
  PROVE  \A a \in live \ {x, z} : /\ Even(Rotate(t, z, d).child, new, h, M, a)
                                  /\ Calm(Rotate(t, z, d).child, new, {}, a)
<1> DEFINE r == Rotate(t, z, d)
           p == t.parent[z]
           s == SideOf(t, z)
<1>1. /\ x \in live /\ x # z /\ t.parent[x] = z
      /\ p # Nil => /\ p \in live /\ p \notin {x, z} /\ s \in Side
                    /\ t.child[p][s] = z /\ t.child[p][Other(s)] # z
  BY Neighbours
<1>2. /\ p # Nil => r.child[p][s] = x /\ r.child[p][Other(s)] = t.child[p][Other(s)]
      /\ \A a \in live \ {x, z, p} : \A e \in Side : r.child[a][e] = t.child[a][e]
  BY RotateSets
<1>3. Nil \notin live
  BY NodesAssumption DEF IsTree
<1>4. /\ \A a \in live, e \in Side : t.child[a][e] \in live \cup {Nil}
      /\ \A a \in live, e \in Side : t.child[a][e] # Nil => t.parent[t.child[a][e]] = a
  BY DEF IsTree, LinkedIn
<1>5. p = t.parent[z]
  OBVIOUS
<1> HIDE DEF r, p, s
<1>6. ASSUME NEW a \in live \ {x, z}, NEW e \in Side
      PROVE  h[r.child[a][e]] = g[t.child[a][e]] /\ new[r.child[a][e]] = col[t.child[a][e]]
  <2>1. CASE a # p
    <3>1. r.child[a][e] = t.child[a][e] /\ t.child[a][e] \notin {x, z}
      BY <1>1, <1>2, <1>3, <1>4, <1>5, <2>1
    <3> QED BY <1>4, <3>1
  <2>2. CASE a = p /\ e = s
    BY <1>1, <1>2, <1>3, <2>2
  <2>3. CASE a = p /\ e = Other(s)
    <3>1. p # Nil /\ t.child[p][e] # z /\ r.child[p][e] = t.child[p][e]
      BY <1>1, <1>2, <1>3, <2>3
    <3>2. t.child[p][e] # x
      BY <1>1, <1>3, <1>4, <2>3
    <3> QED BY <1>4, <2>3, <3>1, <3>2
  <2>4. a = p => e = s \/ e = Other(s)
    BY <1>1, <1>3, Sides
  <2> QED BY <2>1, <2>2, <2>3, <2>4
<1>7. ASSUME NEW a \in live \ {x, z} PROVE Even(r.child, new, h, M, a) /\ Calm(r.child, new, {}, a)
  <2>1. h[a] = g[a] /\ new[a] = col[a]
    OBVIOUS
  <2>2. Even(t.child, col, g, M, a) /\ Calm(t.child, col, {}, a)
    OBVIOUS
  <2>3. Even(r.child, new, h, M, a)
    BY <1>6, <2>1, <2>2 DEF Even
  <2>4. Calm(r.child, new, {}, a)
    BY <1>6, <2>1, <2>2 DEF Calm
  <2> QED BY <2>3, <2>4
<1> QED BY <1>7 DEF r

\* A black node and a red child of it exchange their colours and turn.
MayTurn(t, z, d, x, col, new, g, M) ==
  /\ x = t.child[z][Other(d)] /\ x # Nil
  /\ \A a \in (live \cup {Nil}) \ {x, z} : new[a] = col[a]
  /\ col[z] = "black" /\ col[x] = "red" /\ new[z] = "red" /\ new[x] = "black"
  /\ col[t.child[z][d]] = "black" /\ col[t.child[x][d]] = "black"
  /\ Weights(live, g)
  /\ \A a \in live : Even(t.child, col, g, M, a)
  /\ \A a \in live \ {x, z} : Calm(t.child, col, {}, a)
  /\ \A e \in Side : <<x, e>> \notin M
  /\ <<z, Other(d)>> \notin M

LEMMA SwapRotates ==
  ASSUME NEW t, IsTree(t), NEW z \in live, NEW d \in Side, NEW x, NEW col, NEW new, NEW g, NEW M,
         MayTurn(t, z, d, x, col, new, g, M)
  PROVE  \E h : /\ Weights(live, h)
                /\ \A a \in live : /\ Even(Rotate(t, z, d).child, new, h, M, a)
                                   /\ Calm(Rotate(t, z, d).child, new, {}, a)
<1> DEFINE r == Rotate(t, z, d)
           b == t.child[x][d]
           c == t.child[z][d]
           f == t.child[x][Other(d)]
           h == [g EXCEPT ![x] = g[z], ![z] = g[x]]
<1> USE DEF MayTurn
<1>1. x \in live /\ x # z /\ x # Nil /\ z # Nil
  BY Neighbours, NodesAssumption DEF IsTree
<1>2. /\ r.child[z][d] = c /\ r.child[z][Other(d)] = b
      /\ r.child[x][d] = z /\ r.child[x][Other(d)] = f
  BY RotateSets
<1>3. /\ h[x] = g[z] /\ h[z] = g[x] /\ \A a \in (live \cup {Nil}) \ {x, z} : h[a] = g[a]
      /\ Weights(live, h)
  BY <1>1 DEF Weights
<1>4. Other(d) \in Side /\ Other(d) # d /\ \A e \in Side : e = d \/ e = Other(d)
  BY Sides
<1>5. /\ b \in live \cup {Nil} /\ c \in live \cup {Nil} /\ f \in live \cup {Nil}
  BY <1>1, <1>4, ChildOrNil
<1>6. b \notin {x, z} /\ c \notin {x, z} /\ f \notin {x, z}
  <2>1. \A a \in live, e \in Side : t.child[a][e] # Nil => t.parent[t.child[a][e]] = a
    BY DEF IsTree, LinkedIn
  <2>2. t.child[z]["left"] = t.child[z]["right"] => t.child[z]["left"] = Nil
    BY DEF IsTree, LinkedIn
  <2>3. c # x
    BY <1>1, <1>4, <2>2 DEF Side, Other
  <2>4. PICK depth \in [live -> Nat] : \A a \in live \ {t.root} : depth[t.parent[a]] < depth[a]
    BY DEF IsTree, Acyclic
  <2>5. \A a \in live, e \in Side : t.child[a][e] # Nil => depth[a] < depth[t.child[a][e]] /\ t.child[a][e] \in live
    BY <2>1, <2>4 DEF IsTree, LinkedIn
  <2>6. \A a \in live : depth[a] \in Nat
    BY <2>4
  <2>7. depth[z] < depth[x] /\ (c # Nil => c # z) /\ (b # Nil => b # x /\ b # z) /\ (f # Nil => f # x /\ f # z)
    <3>1. depth[z] < depth[x]
      BY <1>1, <1>4, <2>5
    <3>2. c # Nil => depth[z] < depth[c]
      BY <2>5
    <3>3. (b # Nil => depth[x] < depth[b]) /\ (f # Nil => depth[x] < depth[f])
      BY <1>1, <1>4, <2>5
    <3> HIDE DEF b, c, f
    <3> QED BY <1>1, <2>6, <3>1, <3>2, <3>3
  <2> QED BY <1>1, <2>3, <2>7
<1>7. /\ t.child[z][d] = c /\ t.child[z][Other(d)] = x /\ t.child[x][d] = b /\ t.child[x][Other(d)] = f
      /\ g[z] \in Nat /\ g[x] \in Nat /\ g[b] \in Nat /\ g[c] \in Nat /\ g[f] \in Nat
  BY <1>1, <1>5 DEF Weights
<1> HIDE DEF h, b, c, f, r
<1>8. \A a \in live \ {x, z} : Even(r.child, new, h, M, a) /\ Calm(r.child, new, {}, a)
  BY <1>3, RotateColors DEF r
<1>9. /\ h[b] = g[b] /\ h[c] = g[c] /\ h[f] = g[f] /\ new[b] = "black" /\ new[c] = "black"
  BY <1>3, <1>5, <1>6, <1>7
<1>10. /\ g[z] = g[c] + One(<<z, d>> \in M) + 1 /\ g[z] = g[x] + 1 /\ g[x] = g[b] /\ g[x] = g[f]
  <2>1. /\ One(<<z, Other(d)>> \in M) = 0 /\ One(<<x, d>> \in M) = 0 /\ One(<<x, Other(d)>> \in M) = 0
        /\ One(col[z] = "black") = 1 /\ One(col[x] = "black") = 0
    BY <1>4 DEF One
  <2>2. Even(t.child, col, g, M, z) /\ Even(t.child, col, g, M, x)
    BY <1>1
  <2>3. /\ g[z] = g[c] + One(<<z, d>> \in M) + 1 /\ g[z] = g[x] + 0 + 1
        /\ g[x] = g[b] + 0 + 0 /\ g[x] = g[f] + 0 + 0
    BY <1>4, <1>7, <2>1, <2>2 DEF Even
  <2> QED BY <1>7, <2>3
<1>11. Even(r.child, new, h, M, z) /\ Calm(r.child, new, {}, z)
  <2>1. Calm(r.child, new, {}, z)
    BY <1>2, <1>4, <1>9 DEF Calm
  <2>2. One(<<z, d>> \in M) \in Nat /\ One(<<z, Other(d)>> \in M) = 0 /\ One(new[z] = "black") = 0
    BY DEF One
  <2>3. h[z] = g[c] + One(<<z, d>> \in M) + 0 /\ h[z] = g[b] + 0 + 0
    BY <1>3, <1>7, <1>10, <2>2
  <2> QED BY <1>2, <1>4, <1>9, <2>1, <2>2, <2>3 DEF Even
<1>12. Even(r.child, new, h, M, x) /\ Calm(r.child, new, {}, x)
  <2>1. One(<<x, d>> \in M) = 0 /\ One(<<x, Other(d)>> \in M) = 0 /\ One(new[x] = "black") = 1
    BY <1>4 DEF One
  <2>2. h[x] = h[z] + 0 + 1 /\ h[x] = h[f] + 0 + 1
    BY <1>3, <1>7, <1>9, <1>10
  <2> QED BY <1>2, <1>4, <2>1, <2>2 DEF Even, Calm
<1> QED BY <1>3, <1>8, <1>11, <1>12 DEF r

\* The link below which one black node is missing.
Missing ==
  IF running = "erase" /\ check # tree.root THEN {<<Parent, SideOf(tree, check)>>} ELSE {}

\* What the next activation of a check may rely on, of the colours.
Coloured ==
  /\ tree.color[Nil] = "black"
  /\ tree.color[tree.root] = "red" => running # "idle" /\ check = tree.root
  /\ running = "insert" /\ check # tree.root => tree.color[check] = "red"
  /\ running = "erase" /\ check # tree.root => Parent \in live /\ tree.child[Parent][SideOf(tree, check)] = check
  /\ \A a \in live : \/ running = "erase" /\ a = check
                     \/ Calm(tree.child, tree.color, IF running = "idle" THEN {} ELSE {check}, a)
  /\ \E g : Weights(live, g) /\ \A a \in live : Even(tree.child, tree.color, g, Missing, a)

\* A call returns with a tree in order.
LEMMA Settled ==
  ASSUME running' = "idle", tree'.color[Nil] = "black", tree'.color[tree'.root] # "red",
         NEW g, Weights(live', g),
         \A a \in live' : Even(tree'.child, tree'.color, g, {}, a) /\ Calm(tree'.child, tree'.color, {}, a)
  PROVE  Coloured'
<1>1. Missing' = {}
  BY DEF Missing
<1>2. (\E h : Weights(live, h) /\ \A a \in live : Even(tree.child, tree.color, h, Missing, a))'
  BY <1>1 DEF Weights, Even
<1>3. (\A a \in live : \/ running = "erase" /\ a = check
                       \/ Calm(tree.child, tree.color, IF running = "idle" THEN {} ELSE {check}, a))'
  BY DEF Calm, Side
<1> QED BY <1>2, <1>3 DEF Coloured

LEMMA PaintColors ==
  ASSUME NEW t, IsTree(t), NEW a \in Addr, NEW c \in {"red", "black"}
  PROVE  /\ Paint(t, a, c).color[a] = c /\ Paint(t, a, c).key = t.key
         /\ \A b \in Addr \ {a} : Paint(t, a, c).color[b] = t.color[b]
BY DEF Paint, IsTree, Fields

\* A weight and colours that differ at nodes that are not above or below a.
LEMMA SameBelow ==
  ASSUME NEW ch, NEW col, NEW new, NEW g, NEW h, NEW M, NEW K, NEW X, NEW a, new[a] = col[a], h[a] = g[a],
         \A d \in Side : /\ new[ch[a][d]] = col[ch[a][d]] /\ h[ch[a][d]] = g[ch[a][d]]
                         /\ (<<a, d>> \in K <=> <<a, d>> \in M)
  PROVE  /\ Even(ch, col, g, M, a) => Even(ch, new, h, K, a)
         /\ Calm(ch, col, X, a) => Calm(ch, new, X, a)
<1>1. \A d \in Side : One(<<a, d>> \in K) = One(<<a, d>> \in M)
  BY DEF One
<1> QED BY <1>1 DEF Even, Calm

\* Nodes and their neighbours are different.
LEMMA Apart ==
  ASSUME NEW t, IsTree(t)
  PROVE  /\ Nil \notin live /\ live \subseteq Addr /\ Nil \in Addr
         /\ \A a \in live, d \in Side :
              /\ t.child[a][d] \in live \cup {Nil} /\ t.child[a][d] # a
              /\ t.child[a][d] # Nil => /\ t.parent[t.child[a][d]] = a /\ t.child[a][Other(d)] # t.child[a][d]
                                        /\ t.child[a][d] # t.root
         /\ \A a \in live \ {t.root} : t.parent[a] \in live /\ SideOf(t, a) \in Side /\ t.child[t.parent[a]][SideOf(t, a)] = a
<1>1. Nil \notin live /\ live \subseteq Addr /\ Nil \in Addr /\ LinkedIn(t)
  BY NodesAssumption DEF IsTree, Addr
<1>2. PICK depth \in [live -> Nat] : \A a \in live \ {t.root} : depth[t.parent[a]] < depth[a]
  BY DEF IsTree, Acyclic
<1>3. \A a \in live : depth[a] \in Nat
  BY <1>2
<1>4. ASSUME NEW a \in live, NEW d \in Side
      PROVE  /\ t.child[a][d] \in live \cup {Nil} /\ t.child[a][d] # a
             /\ t.child[a][d] # Nil => /\ t.parent[t.child[a][d]] = a /\ t.child[a][Other(d)] # t.child[a][d]
                                       /\ t.child[a][d] # t.root
  <2>1. CASE t.child[a][d] = Nil
    BY <1>1, <2>1
  <2>2. CASE t.child[a][d] # Nil
    <3>1. t.child[a][d] \in live \ {t.root} /\ t.parent[t.child[a][d]] = a
      BY <1>1, <2>2 DEF LinkedIn
    <3>2. depth[a] < depth[t.child[a][d]]
      BY <1>2, <3>1
    <3>3. t.child[a]["left"] = t.child[a]["right"] => t.child[a]["left"] = Nil
      BY <1>1 DEF LinkedIn
    <3>4. t.child[a][Other(d)] # t.child[a][d]
      BY <2>2, <3>3 DEF Side, Other
    <3>5. t.child[a][d] # a
      BY <1>3, <3>2
    <3> QED BY <3>1, <3>4, <3>5
  <2> QED BY <2>1, <2>2
<1>5. ASSUME NEW a \in live \ {t.root}
      PROVE  t.parent[a] \in live /\ SideOf(t, a) \in Side /\ t.child[t.parent[a]][SideOf(t, a)] = a
  <2>1. t.parent[a] \in live /\ \E d \in Side : t.child[t.parent[a]][d] = a
    BY <1>1 DEF LinkedIn
  <2> QED BY <2>1 DEF SideOf, Side
<1> QED BY <1>1, <1>4, <1>5

\* The activations of rbtree_insert_check, and the colours.
LEMMA AtRootColors ==
  ASSUME CheckInv, Coloured, InsertAtRoot
  PROVE  Coloured'
<1>1. /\ IsTree(tree) /\ check \in live /\ check = tree.root /\ running = "insert" /\ running' = "idle" /\ live' = live
      /\ tree' = Paint(tree, check, "black") /\ tree.color[Nil] = "black"
  BY DEF CheckInv, InsertAtRoot, Return, Coloured
<1>2. /\ Nil \notin live /\ live \subseteq Addr /\ Nil \in Addr
      /\ \A a \in live, d \in Side : /\ tree.child[a][d] \in live \cup {Nil} /\ tree.child[a][d] # a
                                     /\ tree.child[a][d] # check
  BY <1>1, Apart
<1>3. /\ tree'.root = tree.root /\ tree'.child = tree.child /\ tree'.color[check] = "black"
      /\ \A a \in Addr \ {check} : tree'.color[a] = tree.color[a]
  <2> DEFINE t == Paint(tree, check, "black")
  <2>1. t.root = tree.root /\ t.child = tree.child
    BY <1>1, PaintKeepsTree
  <2>2. t.color[check] = "black" /\ \A a \in Addr \ {check} : t.color[a] = tree.color[a]
    BY <1>1, <1>2, PaintColors
  <2> HIDE DEF t
  <2> QED BY <1>1, <2>1, <2>2 DEF t
<1>4. PICK g : Weights(live, g) /\ \A a \in live : Even(tree.child, tree.color, g, {}, a)
  BY <1>1 DEF Coloured, Missing
<1> DEFINE h == IF tree.color[check] = "red" THEN [g EXCEPT ![check] = @ + 1] ELSE g
<1>5. /\ Weights(live, h) /\ \A a \in (live \cup {Nil}) \ {check} : h[a] = g[a]
      /\ h[check] = g[check] + One(tree.color[check] = "red")
  BY <1>1, <1>2, <1>4 DEF Weights, One
<1> HIDE DEF h
<1>6. ASSUME NEW a \in live
      PROVE  Even(tree'.child, tree'.color, h, {}, a) /\ Calm(tree'.child, tree'.color, {}, a)
  <2>1. \A d \in Side : /\ tree'.color[tree.child[a][d]] = tree.color[tree.child[a][d]]
                        /\ h[tree.child[a][d]] = g[tree.child[a][d]]
    BY <1>2, <1>3, <1>5
  <2>2. Even(tree.child, tree.color, g, {}, a) /\ Calm(tree.child, tree.color, {check}, a)
    BY <1>1, <1>4 DEF Coloured
  <2>3. CASE a = check
    <3>1. tree.color[a] \in {"red", "black"} /\ \A d \in Side : g[tree.child[a][d]] \in Nat
      BY <1>1, <1>2, <1>4 DEF IsTree, Fields, Weights
    <3>2. \A d \in Side : h[a] = h[tree'.child[a][d]] + One(<<a, d>> \in {}) + One(tree'.color[a] = "black")
      BY <1>3, <1>5, <2>1, <2>2, <2>3, <3>1 DEF Even, One
    <3> QED BY <1>3, <2>3, <3>2 DEF Even, Calm
  <2>4. CASE a # check
    <3>1. tree'.color[a] = tree.color[a] /\ h[a] = g[a]
      BY <1>2, <1>3, <1>5, <2>4
    <3>2. \A d \in Side : tree.child[a][d] \notin {check}
      BY <1>2
    <3>3. Calm(tree.child, tree.color, {}, a)
      BY <2>2, <3>2 DEF Calm
    <3> QED BY <1>3, <2>1, <2>2, <3>1, <3>3 DEF Even, Calm
  <2> QED BY <2>3, <2>4
<1>7. tree'.color[Nil] = "black" /\ tree'.color[tree'.root] # "red"
  BY <1>1, <1>2, <1>3
<1> QED BY <1>1, <1>5, <1>6, <1>7, Settled

LEMMA UnderBlackColors ==
  ASSUME CheckInv, Coloured, InsertUnderBlack
  PROVE  Coloured'
<1>1. /\ IsTree(tree) /\ check \in live \ {tree.root} /\ running = "insert" /\ running' = "idle" /\ live' = live
      /\ tree' = tree /\ tree.color[Nil] = "black" /\ tree.color[Parent] = "black"
  BY DEF CheckInv, InsertUnderBlack, Return, Coloured
<1>2. PICK g : Weights(live, g) /\ \A a \in live : Even(tree.child, tree.color, g, {}, a)
  BY <1>1 DEF Coloured, Missing
<1>3. ASSUME NEW a \in live PROVE Calm(tree.child, tree.color, {}, a)
  <2>1. Calm(tree.child, tree.color, {check}, a)
    BY <1>1 DEF Coloured
  <2>2. \A d \in Side : tree.child[a][d] = check => a = Parent
    BY <1>1, Apart DEF Parent
  <2> QED BY <1>1, <2>1, <2>2 DEF Calm
<1>4. tree.color[tree.root] # "red"
  BY <1>1 DEF Coloured
<1> QED BY <1>1, <1>2, <1>3, <1>4, Settled

\* Around a red node below a red one.
LEMMA TwoRed ==
  ASSUME CheckInv, Coloured, RedRed
  PROVE  /\ Parent \in live \ {tree.root} /\ Grand \in live /\ check \in live \ {tree.root}
         /\ tree.color[Parent] = "red" /\ tree.color[check] = "red" /\ tree.color[Grand] = "black"
         /\ tree.parent[Parent] = Grand /\ tree.parent[check] = Parent /\ tree.color[tree.root] # "red"
         /\ tree.child[Grand][SideOf(tree, Parent)] = Parent /\ SideOf(tree, Parent) \in Side
         /\ tree.child[Parent][SideOf(tree, check)] = check /\ SideOf(tree, check) \in Side
         /\ Uncle \in live \cup {Nil} /\ Uncle = tree.child[Grand][Other(SideOf(tree, Parent))]
         /\ check # Parent /\ check # Grand /\ Parent # Grand /\ Uncle \notin {check, Parent, Grand}
         /\ \A a \in live : /\ Calm(tree.child, tree.color, {check}, a)
                            /\ a # Parent => Calm(tree.child, tree.color, {}, a)
<1>1. /\ IsTree(tree) /\ check \in live \ {tree.root} /\ running = "insert" /\ tree.color[Parent] = "red"
      /\ tree.color[check] = "red" /\ tree.color[tree.root] # "red" /\ tree.color[Nil] = "black"
  BY DEF CheckInv, RedRed, Coloured
<1>2. /\ Parent \in live \ {tree.root} /\ tree.child[Parent][SideOf(tree, check)] = check /\ SideOf(tree, check) \in Side
      /\ tree.parent[check] = Parent /\ check # Parent
  BY <1>1, Apart DEF Parent
<1>3. /\ Grand \in live /\ tree.child[Grand][SideOf(tree, Parent)] = Parent /\ SideOf(tree, Parent) \in Side
      /\ tree.parent[Parent] = Grand /\ Parent # Grand
  BY <1>1, <1>2, Apart DEF Grand
<1>4. PICK depth \in [live -> Nat] : \A a \in live \ {tree.root} : depth[tree.parent[a]] < depth[a]
  BY <1>1 DEF IsTree, Acyclic
<1>5. check # Grand
  <2>1. depth[Parent] < depth[check] /\ depth[Grand] < depth[Parent]
    BY <1>1, <1>2, <1>3, <1>4
  <2>2. depth[Parent] \in Nat /\ depth[check] \in Nat /\ depth[Grand] \in Nat
    BY <1>1, <1>2, <1>3, <1>4
  <2> QED BY <2>1, <2>2
<1>6. /\ Uncle = tree.child[Grand][Other(SideOf(tree, Parent))] /\ Uncle \in live \cup {Nil}
      /\ Uncle # Grand /\ Uncle # Parent
      /\ Uncle # Nil => tree.parent[Uncle] = Grand
  <2>1. Uncle = tree.child[Grand][Other(SideOf(tree, Parent))] /\ Other(SideOf(tree, Parent)) \in Side
    BY <1>3, Sides DEF Uncle
  <2> QED BY <1>1, <1>3, <2>1, Apart
<1>7. Uncle # check
  BY <1>1, <1>2, <1>3, <1>6, Apart
<1>8. ASSUME NEW a \in live
      PROVE  Calm(tree.child, tree.color, {check}, a) /\ (a # Parent => Calm(tree.child, tree.color, {}, a))
  <2>1. Calm(tree.child, tree.color, {check}, a)
    BY <1>1 DEF Coloured
  <2>2. \A d \in Side : tree.child[a][d] = check => a = Parent
    BY <1>1, Apart DEF Parent
  <2> QED BY <2>1, <2>2 DEF Calm
<1>9. tree.color[Grand] = "black"
  <2>1. Calm(tree.child, tree.color, {}, Grand) /\ tree.color[Grand] \in {"red", "black"}
    BY <1>1, <1>3, <1>8, Apart DEF IsTree, Fields
  <2> QED BY <1>1, <1>3, <2>1 DEF Calm
<1> QED BY <1>1, <1>2, <1>3, <1>5, <1>6, <1>7, <1>8, <1>9

LEMMA RecolorColors ==
  ASSUME CheckInv, Coloured, InsertRecolor
  PROVE  Coloured'
<1> DEFINE P == Parent
           G == Grand
           U == Uncle
           e == SideOf(tree, P)
           t1 == Paint(tree, P, "black")
           t2 == Paint(t1, U, "black")
           t3 == Paint(t2, G, "red")
<1>1. /\ IsTree(tree) /\ running = "insert" /\ running' = "insert" /\ live' = live /\ tree' = t3 /\ check' = G
      /\ RedRed /\ tree.color[U] = "red" /\ tree.color[Nil] = "black"
  BY DEF CheckInv, InsertRecolor, RedRed, Coloured
<1>2. /\ P \in live \ {tree.root} /\ G \in live /\ check \in live \ {tree.root}
      /\ tree.color[P] = "red" /\ tree.color[check] = "red" /\ tree.color[G] = "black"
      /\ tree.parent[P] = G /\ tree.color[tree.root] # "red"
      /\ tree.child[G][e] = P /\ e \in Side /\ U \in live \cup {Nil} /\ U = tree.child[G][Other(e)]
      /\ P # G /\ U \notin {check, P, G}
      /\ \A a \in live : /\ Calm(tree.child, tree.color, {check}, a)
                         /\ a # P => Calm(tree.child, tree.color, {}, a)
  BY <1>1, TwoRed
<1>3. /\ Nil \notin live /\ live \subseteq Addr /\ Nil \in Addr /\ U # Nil
      /\ \A a \in live, d \in Side :
           /\ tree.child[a][d] \in live \cup {Nil} /\ tree.child[a][d] # a
           /\ tree.child[a][d] # Nil => tree.parent[tree.child[a][d]] = a /\ tree.child[a][d] # tree.root
  BY <1>1, Apart
<1>4. /\ tree.parent[U] = G /\ U # tree.root /\ U \in live
      /\ Other(e) \in Side /\ \A d \in Side : d = e \/ d = Other(e)
  BY <1>2, <1>3, Sides
<1>5. /\ t3.root = tree.root /\ t3.child = tree.child
      /\ t3.color[P] = "black" /\ t3.color[U] = "black" /\ t3.color[G] = "red"
      /\ \A a \in Addr \ {P, U, G} : t3.color[a] = tree.color[a]
  <2>1. IsTree(t1) /\ t1.root = tree.root /\ t1.child = tree.child
    BY <1>1, PaintKeepsTree
  <2>2. t1.color[P] = "black" /\ \A a \in Addr \ {P} : t1.color[a] = tree.color[a]
    BY <1>1, <1>2, <1>3, PaintColors
  <2> HIDE DEF t1, P, U, G
  <2>3. IsTree(t2) /\ t2.root = t1.root /\ t2.child = t1.child
    BY <2>1, PaintKeepsTree
  <2>4. t2.color[U] = "black" /\ \A a \in Addr \ {U} : t2.color[a] = t1.color[a]
    BY <1>3, <1>4, <2>1, PaintColors
  <2> HIDE DEF t2
  <2>5. IsTree(t3) /\ t3.root = t2.root /\ t3.child = t2.child
    BY <2>3, PaintKeepsTree
  <2>6. t3.color[G] = "red" /\ \A a \in Addr \ {G} : t3.color[a] = t2.color[a]
    BY <1>2, <1>3, <2>3, PaintColors
  <2> HIDE DEF t3
  <2> QED BY <1>2, <1>3, <1>4, <2>1, <2>2, <2>3, <2>4, <2>5, <2>6
<1> HIDE DEF t3, P, U, G, e
<1>6. PICK g : Weights(live, g) /\ \A a \in live : Even(tree.child, tree.color, g, {}, a)
  BY <1>1 DEF Coloured, Missing
<1> DEFINE h == [g EXCEPT ![P] = @ + 1, ![U] = @ + 1]
<1>7. /\ Weights(live, h) /\ h[P] = g[P] + 1 /\ h[U] = g[U] + 1
      /\ \A a \in (live \cup {Nil}) \ {P, U} : h[a] = g[a]
      /\ \A a \in live \cup {Nil} : g[a] \in Nat
  BY <1>2, <1>3, <1>4, <1>6 DEF Weights
<1> HIDE DEF h
<1>8. ASSUME NEW a \in live
      PROVE  Even(tree.child, t3.color, h, {}, a) /\ Calm(tree.child, t3.color, {G}, a)
  <2>1. Even(tree.child, tree.color, g, {}, a)
    BY <1>6
  <2>2. /\ \A d \in Side : <<a, d>> \notin {} /\ One(FALSE) = 0 /\ One(TRUE) = 1
        /\ One(<<a, e>> \in {}) = 0 /\ One(<<a, Other(e)>> \in {}) = 0
    BY DEF One
  <2>3. CASE a = G
    <3>1. g[G] = g[P] + 0 + 1 /\ g[G] = g[U] + 0 + 1
      BY <1>2, <1>4, <2>1, <2>2, <2>3 DEF Even, One
    <3>2. h[G] = h[P] + 0 + 0 /\ h[G] = h[U] + 0 + 0
      BY <1>2, <1>4, <1>7, <3>1
    <3>3. Even(tree.child, t3.color, h, {}, a)
      BY <1>2, <1>4, <1>5, <2>2, <2>3, <3>2 DEF Even, One
    <3>4. Calm(tree.child, t3.color, {G}, a)
      BY <1>2, <1>4, <1>5, <2>3 DEF Calm
    <3> QED BY <3>3, <3>4
  <2>4. CASE a \in {P, U}
    <3>1. \A d \in Side : tree.child[a][d] \in (live \cup {Nil}) \ {P, U}
      BY <1>2, <1>3, <1>4, <2>4
    <3>2. \A d \in Side : g[a] = g[tree.child[a][d]] + 0 + 0
      BY <1>1, <1>2, <2>1, <2>2, <2>4 DEF Even, One, U
    <3>3. \A d \in Side : h[a] = h[tree.child[a][d]] + 0 + 1
      BY <1>7, <2>4, <3>1, <3>2
    <3> QED BY <1>5, <2>4, <3>3 DEF Even, Calm, One
  <2>5. CASE a \notin {P, U, G}
    <3>1. \A d \in Side : tree.child[a][d] \in (live \cup {Nil}) \ {P, U}
      BY <1>2, <1>3, <1>4, <2>5
    <3>2. t3.color[a] = tree.color[a] /\ h[a] = g[a]
      BY <1>3, <1>5, <1>7, <2>5
    <3>3. \A d \in Side : h[tree.child[a][d]] = g[tree.child[a][d]]
      BY <1>7, <3>1
    <3>4. Even(tree.child, t3.color, h, {}, a)
      BY <2>1, <3>2, <3>3 DEF Even
    <3>5. \A d \in Side : tree.child[a][d] = G \/ t3.color[tree.child[a][d]] = tree.color[tree.child[a][d]]
      BY <1>3, <1>5, <3>1
    <3>6. Calm(tree.child, tree.color, {}, a)
      BY <1>2, <2>5
    <3> QED BY <3>2, <3>4, <3>5, <3>6 DEF Calm
  <2> QED BY <2>3, <2>4, <2>5
<1>9. /\ tree'.color[Nil] = "black" /\ tree'.color[check'] = "red"
      /\ tree'.color[tree'.root] = "red" => check' = tree'.root
  <2>1. Nil \notin {P, U, G} /\ tree.root \in live
    BY <1>1, <1>2, <1>3, <1>4 DEF IsTree, LinkedIn
  <2> QED BY <1>1, <1>2, <1>3, <1>4, <1>5, <2>1
<1>10. Missing' = {}
  BY <1>1 DEF Missing
<1>11. tree'.child = tree.child /\ tree'.color = t3.color
  BY <1>1, <1>5
<1>12. (\E f : Weights(live, f) /\ \A a \in live : Even(tree.child, tree.color, f, Missing, a))'
  BY <1>1, <1>7, <1>8, <1>10, <1>11 DEF Weights, Even
<1>13. (\A a \in live : \/ running = "erase" /\ a = check
                        \/ Calm(tree.child, tree.color, IF running = "idle" THEN {} ELSE {check}, a))'
  BY <1>1, <1>8, <1>11 DEF Calm, Side
<1> QED BY <1>1, <1>9, <1>12, <1>13 DEF Coloured

\* Two nodes are painted.
LEMMA PaintTwo ==
  ASSUME NEW t, IsTree(t), NEW a \in Addr, NEW c \in {"red", "black"}, NEW b \in Addr, NEW e \in {"red", "black"}, a # b
  PROVE  LET q == Paint(Paint(t, a, c), b, e)
         IN  /\ IsTree(q) /\ q.root = t.root /\ q.child = t.child /\ q.parent = t.parent /\ q.key = t.key
             /\ q.color[a] = c /\ q.color[b] = e
             /\ \A x \in Addr \ {a, b} : q.color[x] = t.color[x]
<1> DEFINE m == Paint(t, a, c)
<1>1. /\ IsTree(m) /\ m.root = t.root /\ m.child = t.child /\ m.parent = t.parent /\ m.key = t.key
      /\ m.color[a] = c /\ \A x \in Addr \ {a} : m.color[x] = t.color[x]
  <2>1. IsTree(m) /\ m.root = t.root /\ m.child = t.child /\ m.parent = t.parent
    BY PaintKeepsTree
  <2>2. m.key = t.key /\ m.color[a] = c /\ \A x \in Addr \ {a} : m.color[x] = t.color[x]
    BY PaintColors
  <2> HIDE DEF m
  <2> QED BY <2>1, <2>2
<1> HIDE DEF m
<1> DEFINE q == Paint(m, b, e)
<1>2. /\ IsTree(q) /\ q.root = m.root /\ q.child = m.child /\ q.parent = m.parent /\ q.key = m.key
      /\ q.color[b] = e /\ \A x \in Addr \ {b} : q.color[x] = m.color[x]
  <2>1. IsTree(q) /\ q.root = m.root /\ q.child = m.child /\ q.parent = m.parent
    BY <1>1, PaintKeepsTree
  <2>2. q.key = m.key /\ q.color[b] = e /\ \A x \in Addr \ {b} : q.color[x] = m.color[x]
    BY <1>1, PaintColors
  <2> HIDE DEF q
  <2> QED BY <2>1, <2>2
<1> HIDE DEF q
<1>3. /\ IsTree(q) /\ q.root = t.root /\ q.child = t.child /\ q.parent = t.parent /\ q.key = t.key
      /\ q.color[a] = c /\ q.color[b] = e
      /\ \A x \in Addr \ {a, b} : q.color[x] = t.color[x]
  BY <1>1, <1>2
<1> QED BY <1>3 DEF q, m

\* What a rotation does not change.
LEMMA RotateKeeps ==
  ASSUME NEW t, IsTree(t), NEW z \in live, NEW d \in Side, t.child[z][Other(d)] # Nil
  PROVE  /\ Rotate(t, z, d).color = t.color /\ Rotate(t, z, d).key = t.key
         /\ Rotate(t, z, d).root = IF z = t.root THEN t.child[z][Other(d)] ELSE t.root
BY RotateSets

LEMMA RotateInsertColors ==
  ASSUME CheckInv, Coloured, InsertRotate
  PROVE  Coloured'
<1> DEFINE P == Parent
           G == Grand
           U == Uncle
           e == SideOf(tree, P)
<1>1. /\ IsTree(tree) /\ running = "insert" /\ running' = "idle" /\ live' = live /\ RedRed
      /\ tree.color[U] = "black" /\ tree.color[Nil] = "black"
      /\ SideOf(tree, check) = e => tree' = Rotate(Paint(Paint(tree, G, "red"), P, "black"), G, Other(e))
      /\ SideOf(tree, check) # e =>
           tree' = Rotate(Rotate(Paint(Paint(tree, G, "red"), check, "black"), P, e), G, Other(e))
  BY DEF CheckInv, InsertRotate, RedRed, Coloured, Return
<1>2. /\ P \in live \ {tree.root} /\ G \in live /\ check \in live \ {tree.root}
      /\ tree.color[P] = "red" /\ tree.color[check] = "red" /\ tree.color[G] = "black"
      /\ tree.parent[P] = G /\ tree.parent[check] = P /\ tree.color[tree.root] # "red"
      /\ tree.child[G][e] = P /\ e \in Side /\ U \in live \cup {Nil} /\ U = tree.child[G][Other(e)]
      /\ tree.child[P][SideOf(tree, check)] = check /\ SideOf(tree, check) \in Side
      /\ P # G /\ P # check /\ G # check
      /\ \A a \in live : /\ Calm(tree.child, tree.color, {check}, a)
                         /\ a # P => Calm(tree.child, tree.color, {}, a)
  BY <1>1, TwoRed
<1>3. /\ Nil \notin live /\ live \subseteq Addr /\ Nil \in Addr
      /\ Other(e) \in Side /\ Other(Other(e)) = e /\ Other(e) # e /\ \A d \in Side : d = e \/ d = Other(e)
  BY <1>1, <1>2, Apart, Sides
<1> HIDE DEF P, G, U, e
<1>4. PICK g : Weights(live, g) /\ \A a \in live : Even(tree.child, tree.color, g, {}, a)
  BY <1>1 DEF Coloured, Missing
<1>5. CASE SideOf(tree, check) = e
  <2> DEFINE t == Paint(Paint(tree, G, "red"), P, "black")
  <2>1. /\ IsTree(t) /\ t.root = tree.root /\ t.child = tree.child
        /\ t.color[G] = "red" /\ t.color[P] = "black" /\ \A a \in Addr \ {G, P} : t.color[a] = tree.color[a]
    BY <1>1, <1>2, <1>3, PaintTwo
  <2>2. tree' = Rotate(t, G, Other(e))
    BY <1>1, <1>5
  <2> HIDE DEF t
  <2>3. t.child[G][Other(Other(e))] = P /\ P # Nil
    BY <1>2, <1>3, <2>1
  <2>4. tree.color[t.child[G][Other(e)]] = "black" /\ tree.color[t.child[P][Other(e)]] = "black"
    <3>1. tree.color[t.child[G][Other(e)]] = "black"
      BY <1>1, <1>2, <2>1
    <3>2. tree.child[P][Other(e)] # check
      BY <1>1, <1>2, <1>3, <1>5, Apart
    <3> QED BY <1>2, <1>3, <2>1, <3>1, <3>2 DEF Calm
  <2>5. /\ \A a \in (live \cup {Nil}) \ {P, G} : t.color[a] = tree.color[a]
        /\ \A a \in live : Even(t.child, tree.color, g, {}, a)
        /\ \A a \in live \ {P, G} : Calm(t.child, tree.color, {}, a)
    BY <1>2, <1>3, <1>4, <2>1
  <2>6. \E h : /\ Weights(live, h)
               /\ \A a \in live : /\ Even(Rotate(t, G, Other(e)).child, t.color, h, {}, a)
                                  /\ Calm(Rotate(t, G, Other(e)).child, t.color, {}, a)
    <3>1. MayTurn(t, G, Other(e), P, tree.color, t.color, g, {})
      BY <1>2, <1>4, <2>1, <2>3, <2>4, <2>5 DEF MayTurn
    <3> QED BY <1>2, <1>3, <2>1, <3>1, SwapRotates
  <2>7. tree'.color = t.color /\ tree'.root = IF G = tree.root THEN P ELSE tree.root
    BY <1>2, <1>3, <2>1, <2>2, <2>3, RotateKeeps
  <2>8. tree'.color[Nil] = "black" /\ tree'.color[tree'.root] # "red"
    <3>1. tree.root \in live
      BY <1>1, <1>2 DEF IsTree, LinkedIn
    <3> QED BY <1>1, <1>2, <1>3, <2>1, <2>7, <3>1
  <2> QED BY <1>1, <2>2, <2>6, <2>7, <2>8, Settled
<1>6. CASE SideOf(tree, check) # e
  <2> DEFINE t == Paint(Paint(tree, G, "red"), check, "black")
             m == Rotate(t, P, e)
  <2>1. /\ IsTree(t) /\ t.root = tree.root /\ t.child = tree.child /\ t.parent = tree.parent
        /\ t.color[G] = "red" /\ t.color[check] = "black" /\ \A a \in Addr \ {G, check} : t.color[a] = tree.color[a]
    BY <1>1, <1>2, <1>3, PaintTwo
  <2>2. tree' = Rotate(m, G, Other(e))
    BY <1>1, <1>6
  <2> HIDE DEF t
  <2>3. /\ SideOf(tree, check) = Other(e) /\ t.child[P][Other(e)] = check /\ check # Nil /\ SideOf(t, P) = e
    <3>1. SideOf(t, P) = SideOf(tree, P)
      BY <2>1 DEF SideOf
    <3> QED BY <1>2, <1>3, <1>6, <2>1, <3>1 DEF e
  <2> DEFINE b == t.child[check][e]
             f == t.child[check][Other(e)]
             c == t.child[P][e]
  <2>4. /\ m.color = t.color /\ m.root = tree.root
        /\ m.child[P][e] = c /\ m.child[P][Other(e)] = b
        /\ m.child[check][e] = P /\ m.child[check][Other(e)] = f
        /\ m.child[G][e] = check /\ m.child[G][Other(e)] = t.child[G][Other(e)]
    <3>1. t.parent[P] = G /\ G # Nil /\ G \notin {check, P}
      BY <1>2, <1>3, <2>1
    <3>2. /\ m.color = t.color /\ m.root = IF P = t.root THEN check ELSE t.root
          /\ m.child[P][e] = c /\ m.child[P][Other(e)] = t.child[check][e]
          /\ m.child[check][e] = P /\ m.child[check][Other(e)] = t.child[check][Other(e)]
          /\ m.child[G][e] = check /\ m.child[G][Other(e)] = t.child[G][Other(e)]
      <4>1. t.child[P][Other(e)] # Nil
        BY <2>3
      <4>2. LET x == t.child[P][Other(e)]
                q == t.parent[P]
                r == Rotate(t, P, e)
            IN  /\ r.color = t.color /\ r.root = IF P = t.root THEN x ELSE t.root
                /\ r.child[P][e] = t.child[P][e] /\ r.child[P][Other(e)] = t.child[x][e]
                /\ r.child[x][e] = P /\ r.child[x][Other(e)] = t.child[x][Other(e)]
                /\ q # Nil => /\ r.child[q][SideOf(t, P)] = x
                              /\ r.child[q][Other(SideOf(t, P))] = t.child[q][Other(SideOf(t, P))]
        <5>1. IsTree(t) /\ P \in live /\ e \in Side
          BY <1>2, <2>1
        <5> QED BY <4>1, <5>1, RotateSets
      <4> QED BY <2>3, <3>1, <4>2
    <3> HIDE DEF m
    <3> QED BY <1>2, <2>1, <3>2
  <2>5. IsTree(m)
    BY <1>2, <2>1, RotateKeepsTree
  <2> HIDE DEF m
  <2>6. /\ c \in live \cup {Nil} /\ b \in live \cup {Nil} /\ f \in live \cup {Nil} /\ c # check
    <3>1. t.child[P][Other(Other(e))] # t.child[P][Other(e)]
      BY <1>2, <1>3, <2>1, <2>3, Apart
    <3> QED BY <1>2, <1>3, <2>1, <3>1, <2>3, ChildOrNil
  <2>7. /\ tree.color[b] = "black" /\ tree.color[f] = "black" /\ tree.color[c] = "black"
    BY <1>2, <1>3, <2>1, <2>6 DEF Calm
  <2>8. g[P] = g[c] /\ g[P] = g[check] /\ g[check] = g[b] /\ g[check] = g[f]
    <3>1. Even(t.child, tree.color, g, {}, P) /\ Even(t.child, tree.color, g, {}, check)
      BY <1>2, <1>4, <2>1
    <3>2. One(<<P, e>> \in {}) = 0 /\ One(<<P, Other(e)>> \in {}) = 0 /\ One(<<check, e>> \in {}) = 0
          /\ One(<<check, Other(e)>> \in {}) = 0 /\ One(tree.color[P] = "black") = 0
          /\ One(tree.color[check] = "black") = 0
      BY <1>2 DEF One
    <3>3. g[c] \in Nat /\ g[check] \in Nat /\ g[b] \in Nat /\ g[f] \in Nat
      BY <1>2, <1>4, <2>6 DEF Weights
    <3>4. /\ g[P] = g[c] + 0 + 0 /\ g[P] = g[check] + 0 + 0
          /\ g[check] = g[b] + 0 + 0 /\ g[check] = g[f] + 0 + 0
      <4>1. c = t.child[P][e] /\ check = t.child[P][Other(e)] /\ b = t.child[check][e] /\ f = t.child[check][Other(e)]
        BY <2>3
      <4> HIDE DEF b, c, f
      <4> QED BY <1>2, <1>3, <3>1, <3>2, <4>1 DEF Even
    <3> HIDE DEF b, c, f
    <3> QED BY <3>3, <3>4
  <2>9. \A a \in live \ {P, check} : Even(m.child, tree.color, g, {}, a) /\ Calm(m.child, tree.color, {}, a)
    <3>1. \A a \in live \ {P, check} : Even(t.child, tree.color, g, {}, a) /\ Calm(t.child, tree.color, {}, a)
      BY <1>2, <1>4, <2>1
    <3>2. tree.color[check] = tree.color[P] /\ g[check] = g[P] /\ check = t.child[P][Other(e)] /\ t.child[P][Other(e)] # Nil
      BY <1>2, <2>3, <2>8
    <3> HIDE DEF b, c, f
    <3> QED BY <1>2, <2>1, <3>1, <3>2, RotateColors, SMTT(30) DEF m
  <2>10. ASSUME NEW a \in {P, check} PROVE Even(m.child, tree.color, g, {}, a)
    <3> HIDE DEF b, c, f
    <3>1. One(tree.color[a] = "black") = 0 /\ \A d \in Side : One(<<a, d>> \in {}) = 0
      BY <1>2 DEF One
    <3>2. ASSUME NEW d \in Side PROVE g[a] = g[m.child[a][d]] /\ g[a] \in Nat
      <4>1. g[a] \in Nat
        BY <1>2, <1>4 DEF Weights
      <4>2. d = e \/ d = Other(e)
        BY <1>3
      <4>3. CASE a = P
        BY <2>4, <2>8, <4>1, <4>2, <4>3
      <4>4. CASE a = check
        BY <2>4, <2>8, <4>1, <4>2, <4>4
      <4> QED BY <4>3, <4>4
    <3> QED BY <3>1, <3>2 DEF Even
  <2>11. Calm(m.child, tree.color, {}, P)
    <3> HIDE DEF b, c, f
    <3> QED BY <1>3, <2>4, <2>7 DEF Calm
  <2>12. m.child[G][Other(Other(e))] = check /\ tree.color[m.child[G][Other(e)]] = "black"
         /\ tree.color[m.child[check][Other(e)]] = "black"
    BY <1>1, <1>2, <1>3, <2>1, <2>4, <2>7
  <2> HIDE DEF b, c, f
  <2>13. /\ \A a \in (live \cup {Nil}) \ {check, G} : t.color[a] = tree.color[a]
         /\ \A a \in live : Even(m.child, tree.color, g, {}, a)
         /\ \A a \in live \ {check, G} : Calm(m.child, tree.color, {}, a)
    BY <1>3, <2>1, <2>9, <2>10, <2>11
  <2>14. \E h : /\ Weights(live, h)
                /\ \A a \in live : /\ Even(Rotate(m, G, Other(e)).child, t.color, h, {}, a)
                                   /\ Calm(Rotate(m, G, Other(e)).child, t.color, {}, a)
    <3>1. MayTurn(m, G, Other(e), check, tree.color, t.color, g, {})
      BY <1>2, <1>4, <2>1, <2>3, <2>12, <2>13 DEF MayTurn
    <3> QED BY <1>2, <1>3, <2>5, <3>1, SwapRotates
  <2>15. tree'.color = t.color /\ tree'.root = IF G = tree.root THEN check ELSE tree.root
    BY <1>2, <1>3, <2>2, <2>3, <2>4, <2>5, <2>12, RotateKeeps
  <2>16. tree'.color[Nil] = "black" /\ tree'.color[tree'.root] # "red"
    <3>1. tree.root \in live
      BY <1>1, <1>2 DEF IsTree, LinkedIn
    <3> QED BY <1>1, <1>2, <1>3, <2>1, <2>15, <3>1
  <2> QED BY <1>1, <2>2, <2>14, <2>15, <2>16, Settled
<1> QED BY <1>5, <1>6

\* The activations of rbtree_delete_check, and the colours.
LEMMA AtRootOrRedColors ==
  ASSUME CheckInv, Coloured, EraseAtRootOrRed
  PROVE  Coloured'
<1> DEFINE s == SideOf(tree, check)
           P == Parent
<1>1. /\ IsTree(tree) /\ running = "erase" /\ running' = "idle" /\ live' = live
      /\ tree' = Paint(tree, check, "black") /\ tree.color[Nil] = "black"
      /\ check = tree.root \/ tree.color[check] = "red"
      /\ check # tree.root => P \in live /\ tree.child[P][s] = check
      /\ s \in Side
      /\ Missing = IF check # tree.root THEN {<<P, s>>} ELSE {}
  BY SideOfIsSide DEF CheckInv, EraseAtRootOrRed, Return, Coloured, Missing
<1>2. /\ Nil \notin live /\ live \subseteq Addr /\ Nil \in Addr
      /\ \A a \in live, d \in Side :
           /\ tree.child[a][d] \in live \cup {Nil} /\ tree.child[a][d] # a
           /\ tree.child[a][d] # Nil => /\ tree.parent[tree.child[a][d]] = a /\ tree.child[a][d] # tree.root
                                        /\ tree.child[a][Other(d)] # tree.child[a][d]
      /\ tree.root \in live \cup {Nil}
  BY <1>1, Apart DEF IsTree, LinkedIn
<1>3. check \in live \cup {Nil} /\ (tree.color[check] = "red" => check \in live) /\ check \in Addr
  BY <1>1, <1>2 DEF CheckInv
<1> HIDE DEF s, P
<1>4. /\ tree'.root = tree.root /\ tree'.child = tree.child /\ tree'.color[check] = "black"
      /\ \A a \in Addr \ {check} : tree'.color[a] = tree.color[a]
  <2> DEFINE t == Paint(tree, check, "black")
  <2>1. t.root = tree.root /\ t.child = tree.child
    BY <1>1, PaintKeepsTree
  <2>2. t.color[check] = "black" /\ \A a \in Addr \ {check} : t.color[a] = tree.color[a]
    BY <1>1, <1>3, PaintColors
  <2> HIDE DEF t
  <2> QED BY <1>1, <2>1, <2>2 DEF t
<1>5. PICK g : Weights(live, g) /\ \A a \in live : Even(tree.child, tree.color, g, Missing, a)
  BY DEF Coloured
<1> DEFINE h == IF tree.color[check] = "red" THEN [g EXCEPT ![check] = @ + 1] ELSE g
<1>6. /\ Weights(live, h) /\ \A a \in (live \cup {Nil}) \ {check} : h[a] = g[a]
      /\ h[check] = g[check] + One(tree.color[check] = "red")
      /\ \A a \in live \cup {Nil} : g[a] \in Nat
  BY <1>2, <1>3, <1>5 DEF Weights, One
<1> HIDE DEF h
<1>7. ASSUME NEW a \in live, NEW d \in Side, a # check
      PROVE  h[tree.child[a][d]] = g[tree.child[a][d]] + One(<<a, d>> \in Missing)
  <2>1. CASE tree.child[a][d] = check /\ check # tree.root
    <3>1. check \in live /\ tree.color[check] = "red"
      BY <1>1, <1>3, <2>1
    <3>2. a = P
      BY <1>1, <1>2, <2>1, <3>1
    <3>3. d = s
      BY <1>1, <1>2, <2>1, <3>1, <3>2, Sides
    <3> QED BY <1>1, <1>6, <2>1, <3>1, <3>2, <3>3 DEF One
  <2>2. CASE tree.child[a][d] # check
    <3>1. <<a, d>> \notin Missing
      BY <1>1, <2>2
    <3>2. One(<<a, d>> \in Missing) = 0
      BY <3>1 DEF One
    <3>3. tree.child[a][d] \in live \cup {Nil}
      BY <1>2
    <3> HIDE DEF Missing
    <3> QED BY <1>6, <2>2, <3>2, <3>3
  <2>3. CASE tree.child[a][d] = check /\ check = tree.root
    <3>1. check = Nil
      BY <1>2, <2>3
    <3>2. One(<<a, d>> \in Missing) = 0 /\ One(tree.color[check] = "red") = 0
      BY <1>1, <2>3, <3>1 DEF One
    <3>3. g[check] \in Nat
      BY <1>3, <1>6
    <3> QED BY <1>6, <2>3, <3>2, <3>3
  <2> QED BY <2>1, <2>2, <2>3
<1>8. ASSUME NEW a \in live
      PROVE  Even(tree'.child, tree'.color, h, {}, a) /\ Calm(tree'.child, tree'.color, {}, a)
  <2>1. Even(tree.child, tree.color, g, Missing, a)
    BY <1>5
  <2>2. \A d \in Side : One(<<a, d>> \in {}) = 0 /\ One(<<a, d>> \in Missing) \in Nat
    BY DEF One
  <2>3. \A d \in Side : tree.child[a][d] \in live \cup {Nil} /\ g[tree.child[a][d]] \in Nat /\ tree.child[a][d] \in Addr
    BY <1>2, <1>6
  <2>4. CASE a = check
    <3>1. tree.color[a] \in {"red", "black"}
      BY <1>1, <1>3, <2>4 DEF IsTree, Fields
    <3>2. \A d \in Side : One(<<a, d>> \in Missing) = 0 /\ h[tree.child[a][d]] = g[tree.child[a][d]]
      <4>1. a # P \/ check = tree.root
        BY <1>1, <1>2, <2>4
      <4>2. \A d \in Side : <<a, d>> \notin Missing
        BY <1>1, <4>1
      <4> QED BY <1>2, <1>6, <2>4, <4>2 DEF One
    <3>3. \A d \in Side : g[a] = g[tree.child[a][d]] + 0 + One(tree.color[a] = "black")
      BY <2>1, <3>2 DEF Even
    <3>4. \A d \in Side : h[a] = h[tree.child[a][d]] + 0 + 1
      <4>1. One(tree.color[check] = "red") + One(tree.color[a] = "black") = 1
        BY <2>4, <3>1 DEF One
      <4>2. One(tree.color[check] = "red") \in Nat /\ One(tree.color[a] = "black") \in Nat
        BY DEF One
      <4> SUFFICES ASSUME NEW d \in Side PROVE h[a] = h[tree.child[a][d]] + 0 + 1
        OBVIOUS
      <4> DEFINE c == tree.child[a][d]
                 m == One(tree.color[check] = "red")
                 n == One(tree.color[a] = "black")
      <4>3. /\ h[a] = g[a] + m /\ g[a] = g[c] + 0 + n /\ h[c] = g[c] /\ g[c] \in Nat
            /\ m \in Nat /\ n \in Nat /\ m + n = 1
        BY <1>6, <2>3, <2>4, <3>2, <3>3, <4>1, <4>2
      <4> HIDE DEF c, m, n
      <4> QED BY <4>3 DEF c
    <3> QED BY <1>4, <2>2, <2>4, <3>4 DEF Even, Calm, One
  <2>5. CASE a # check
    <3>1. tree'.color[a] = tree.color[a] /\ h[a] = g[a]
      BY <1>2, <1>4, <1>6, <2>5
    <3>2. \A d \in Side : g[a] = g[tree.child[a][d]] + One(<<a, d>> \in Missing) + One(tree.color[a] = "black")
      BY <2>1 DEF Even
    <3>3. One(tree.color[a] = "black") \in Nat
      BY DEF One
    <3>4. ASSUME NEW d \in Side PROVE h[a] = h[tree.child[a][d]] + 0 + One(tree.color[a] = "black")
      <4>1. /\ h[tree.child[a][d]] = g[tree.child[a][d]] + One(<<a, d>> \in Missing)
            /\ g[tree.child[a][d]] \in Nat /\ One(<<a, d>> \in Missing) \in Nat
        BY <1>7, <2>2, <2>3, <2>5
      <4> HIDE DEF Missing
      <4> QED BY <3>1, <3>2, <3>3, <4>1
    <3>5. Even(tree'.child, tree'.color, h, {}, a)
      BY <1>4, <2>2, <3>1, <3>4 DEF Even
    <3>6. Calm(tree.child, tree.color, {check}, a)
      BY <1>1, <2>5 DEF Coloured
    <3>7. Calm(tree'.child, tree'.color, {}, a)
      BY <1>4, <2>3, <3>1, <3>6 DEF Calm
    <3> QED BY <3>5, <3>7
  <2> QED BY <2>4, <2>5
<1>9. tree'.color[Nil] = "black" /\ tree'.color[tree'.root] # "red"
  <2>1. tree.color[tree.root] = "red" => tree.root = check
    BY DEF Coloured
  <2> QED BY <1>1, <1>2, <1>4, <2>1
<1> QED BY <1>1, <1>6, <1>8, <1>9, Settled

\* A tree in the middle of an activation in which check's side is one black node short.
Short(t, d) ==
  /\ IsTree(t) /\ Parent \in live /\ d \in Side /\ check \in live \cup {Nil}
  /\ t.child[Parent][d] = check /\ t.color[check] = "black"
  /\ t.color[Nil] = "black" /\ t.color[t.root] = "black" /\ t.root \in live
  /\ t.child[Parent][Other(d)] \in live /\ t.color[t.child[Parent][Other(d)]] = "black"
  /\ \E g : /\ Weights(live, g)
            /\ \A a \in live : Even(t.child, t.color, g, {<<Parent, d>>}, a) /\ Calm(t.child, t.color, {}, a)

\* The brother of a side that is one black node short is a node.
LEMMA HasBrother ==
  ASSUME NEW t, IsTree(t), NEW z \in live, NEW d \in Side, NEW col, NEW g, Weights(live, g),
         Even(t.child, col, g, {<<z, d>>}, z)
  PROVE  t.child[z][Other(d)] \in live
<1>1. Other(d) \in Side /\ Other(d) # d
  BY Sides
<1>2. t.child[z][d] \in live \cup {Nil} /\ t.child[z][Other(d)] \in live \cup {Nil}
  BY <1>1, ChildOrNil
<1>3. One(<<z, d>> \in {<<z, d>>}) = 1 /\ One(<<z, Other(d)>> \in {<<z, d>>}) = 0 /\ One(col[z] = "black") \in Nat
  BY <1>1 DEF One
<1>4. /\ g[z] = g[t.child[z][d]] + 1 + One(col[z] = "black")
      /\ g[z] = g[t.child[z][Other(d)]] + 0 + One(col[z] = "black")
  BY <1>1, <1>3 DEF Even
<1>5. g[t.child[z][d]] \in Nat /\ g[t.child[z][Other(d)]] \in Nat
  BY <1>2 DEF Weights
<1>6. g[t.child[z][Other(d)]] # 0
  BY <1>3, <1>4, <1>5
<1> QED BY <1>2, <1>6 DEF Weights

LEMMA BrotherColors ==
  ASSUME CheckInv, Coloured, DoubleBlack, NEW d, d = SideOf(tree, check)
  PROVE  Short(BlackBrother(d), d)
<1> DEFINE P == Parent
           x == tree.child[P][Other(d)]
           M == {<<P, d>>}
<1>1. /\ IsTree(tree) /\ running = "erase" /\ check # tree.root /\ tree.color[check] = "black"
      /\ check \in live \cup {Nil} /\ P \in live /\ d \in Side /\ tree.child[P][d] = check
      /\ tree.color[Nil] = "black" /\ tree.color[tree.root] # "red" /\ Missing = M
  BY SideOfIsSide DEF CheckInv, DoubleBlack, Coloured, Missing
<1>2. /\ Nil \notin live /\ live \subseteq Addr /\ Nil \in Addr /\ Other(d) \in Side /\ Other(d) # d
      /\ tree.root \in live /\ tree.color[tree.root] = "black" /\ Other(Other(d)) = d
  <2>1. tree.root \in live
    BY <1>1 DEF IsTree, LinkedIn
  <2>2. Nil \notin live /\ live \subseteq Addr /\ Nil \in Addr
    BY <1>1, Apart
  <2> QED BY <1>1, <2>1, <2>2, Sides DEF IsTree, Fields
<1>3. PICK g : Weights(live, g) /\ \A a \in live : Even(tree.child, tree.color, g, M, a)
  BY <1>1 DEF Coloured
<1>4. \A a \in live : Calm(tree.child, tree.color, {}, a)
  <2>1. \A a \in live : a = check \/ Calm(tree.child, tree.color, {check}, a)
    BY <1>1 DEF Coloured
  <2> QED BY <1>1, <2>1 DEF Calm
<1> HIDE DEF P
<1>5. x \in live
  BY <1>1, <1>3, HasBrother
<1>6. CASE tree.color[x] = "black"
  <2>1. BlackBrother(d) = tree
    BY <1>6 DEF BlackBrother, P
  <2> QED BY <1>1, <1>2, <1>3, <1>4, <1>5, <1>6, <2>1 DEF Short, P
<1>7. CASE tree.color[x] # "black"
  <2> DEFINE q == Paint(Paint(tree, x, "black"), P, "red")
             b == tree.child[x][d]
  <2>1. /\ tree.color[x] = "red" /\ tree.color[P] = "black"
    <3>1. tree.color[x] = "red" /\ tree.color[P] \in {"red", "black"}
      BY <1>1, <1>2, <1>5, <1>7 DEF IsTree, Fields
    <3> QED BY <1>1, <1>2, <1>4, <3>1 DEF Calm
  <2>2. x # P /\ x # check /\ x # Nil /\ check # P
    <3>1. x # P /\ check # P /\ x # Nil
      BY <1>1, <1>2, <1>5, Apart
    <3> QED BY <1>1, <2>1, <3>1
  <2>3. /\ IsTree(q) /\ q.root = tree.root /\ q.child = tree.child
        /\ q.color[x] = "black" /\ q.color[P] = "red" /\ \A a \in Addr \ {x, P} : q.color[a] = tree.color[a]
    <3>1. x \in Addr /\ P \in Addr
      BY <1>1, <1>2, <1>5
    <3> HIDE DEF x
    <3> QED BY <1>1, <2>2, <3>1, PaintTwo
  <2>4. BlackBrother(d) = Rotate(q, P, d)
    BY <1>7 DEF BlackBrother, P
  <2> HIDE DEF q
  <2>5. b \in live \cup {Nil} /\ tree.color[b] = "black" /\ b # x
    BY <1>1, <1>4, <1>5, <2>1, Apart DEF Calm
  <2>6. MayTurn(q, P, d, x, tree.color, q.color, g, M)
    <3>1. q.child[P][Other(d)] = x /\ q.child[P][d] = check /\ q.child[x][d] = b
      BY <1>1, <2>3
    <3>2. \A e \in Side : <<x, e>> \notin M
      BY <2>2
    <3>3. <<P, Other(d)>> \notin M
      BY <1>2
    <3>4. \A a \in (live \cup {Nil}) \ {x, P} : q.color[a] = tree.color[a]
      BY <1>2, <2>3
    <3> HIDE DEF x, b, M
    <3> QED BY <1>1, <1>3, <1>4, <2>1, <2>2, <2>3, <2>5, <3>1, <3>2, <3>3, <3>4 DEF MayTurn
  <2> HIDE DEF M
  <2>7. PICK h : /\ Weights(live, h)
                 /\ \A a \in live : /\ Even(Rotate(q, P, d).child, q.color, h, M, a)
                                    /\ Calm(Rotate(q, P, d).child, q.color, {}, a)
    BY <1>1, <2>3, <2>6, SwapRotates
  <2> DEFINE t == Rotate(q, P, d)
  <2>8. q.child[P][Other(d)] = x /\ q.child[P][d] = check /\ q.child[x][d] = b
    BY <1>1, <2>3
  <2> HIDE DEF x, b
  <2>9. /\ t.color = q.color /\ t.child[P][d] = check /\ t.child[P][Other(d)] = b
        /\ t.root = IF P = tree.root THEN x ELSE tree.root
    <3>1. /\ t.color = q.color /\ t.child[P][d] = q.child[P][d]
          /\ t.child[P][Other(d)] = q.child[q.child[P][Other(d)]][d]
          /\ t.root = IF P = q.root THEN q.child[P][Other(d)] ELSE q.root
      <4>1. q.child[P][Other(d)] # Nil
        BY <2>2, <2>8
      <4>2. IsTree(q) /\ P \in live /\ d \in Side
        BY <1>1, <2>3
      <4> HIDE DEF t
      <4>3. t = Rotate(q, P, d)
        BY DEF t
      <4> QED BY <4>1, <4>2, <4>3, RotateSets
    <3> HIDE DEF t
    <3> QED BY <2>3, <2>8, <3>1
  <2>10. IsTree(t)
    BY <1>1, <2>3, RotateKeepsTree
  <2> HIDE DEF t
  <2>11. Even(t.child, t.color, h, {<<P, d>>}, P)
    BY <1>1, <2>7, <2>9 DEF t, M
  <2>12. t.child[P][Other(d)] \in live
    BY <1>1, <2>7, <2>10, <2>11, HasBrother
  <2>13. t.color[Nil] = "black" /\ t.color[check] = "black" /\ t.color[t.root] = "black" /\ t.root \in live
    BY <1>1, <1>2, <1>5, <2>2, <2>3, <2>9
  <2>14. t.color[b] = "black"
    <3>1. b # P
      BY <1>1, <1>2, <2>9, <2>10, <2>12, Apart
    <3> QED BY <1>2, <2>3, <2>5, <2>9, <3>1
  <2>15. \A a \in live : Even(t.child, t.color, h, {<<P, d>>}, a) /\ Calm(t.child, t.color, {}, a)
    BY <2>7, <2>9 DEF t, M
  <2>16. t = BlackBrother(d)
    BY <2>4 DEF t
  <2>17. Short(t, d)
    BY <1>1, <2>7, <2>9, <2>10, <2>12, <2>13, <2>14, <2>15 DEF Short, P
  <2> QED BY <2>16, <2>17
<1> QED BY <1>6, <1>7

\* Case 2: the missing black node goes up one level.
LEMMA ClimbColors ==
  ASSUME CheckInv, Coloured, EraseClimb
  PROVE  Coloured'
<1> DEFINE P == Parent
           d == SideOf(tree, check)
           t == BlackBrother(d)
           x == t.child[P][Other(d)]
           u == Paint(t, x, "red")
           M == {<<P, d>>}
<1>1. /\ DoubleBlack /\ tree' = u /\ check' = P /\ running' = "erase" /\ live' = live
      /\ \A e \in Side : t.color[t.child[x][e]] = "black"
  BY DEF EraseClimb, DoubleBlack
<1>2. Short(t, d)
  BY <1>1, BrotherColors
<1> HIDE DEF d, t, P
<1>3. /\ IsTree(t) /\ P \in live /\ d \in Side /\ check \in live \cup {Nil}
      /\ t.child[P][d] = check /\ t.color[check] = "black"
      /\ t.color[Nil] = "black" /\ t.color[t.root] = "black" /\ t.root \in live
      /\ x \in live /\ t.color[x] = "black"
      /\ \E g : /\ Weights(live, g)
                /\ \A a \in live : Even(t.child, t.color, g, M, a) /\ Calm(t.child, t.color, {}, a)
  BY <1>2 DEF Short, P
<1>4. PICK g : /\ Weights(live, g)
               /\ \A a \in live : Even(t.child, t.color, g, M, a) /\ Calm(t.child, t.color, {}, a)
  BY <1>3
<1>5. x = t.child[P][Other(d)]
  OBVIOUS
<1>6. M = {<<P, d>>}
  OBVIOUS
<1> HIDE DEF x, M
<1>7. /\ Nil \notin live /\ live \subseteq Addr /\ Nil \in Addr /\ Other(d) \in Side /\ Other(d) # d
      /\ \A e \in Side : e = d \/ e = Other(d)
      /\ \A a \in live, e \in Side :
           /\ t.child[a][e] \in live \cup {Nil} /\ t.child[a][e] # a
           /\ t.child[a][e] # Nil => /\ t.parent[t.child[a][e]] = a /\ t.child[a][Other(e)] # t.child[a][e]
                                     /\ t.child[a][e] # t.root
      /\ \A a \in live \ {t.root} : /\ t.parent[a] \in live /\ SideOf(t, a) \in Side
                                    /\ t.child[t.parent[a]][SideOf(t, a)] = a
  BY <1>3, Apart, Sides
<1>8. /\ x # P /\ x # Nil /\ x # check /\ check # P /\ x # t.root /\ t.parent[x] = P
  BY <1>3, <1>5, <1>7
<1>9. /\ u.root = t.root /\ u.child = t.child /\ u.parent = t.parent
      /\ u.color[x] = "red" /\ \A a \in Addr \ {x} : u.color[a] = t.color[a]
  <2>1. u.root = t.root /\ u.child = t.child /\ u.parent = t.parent
    BY <1>3, PaintKeepsTree
  <2>2. u.color[x] = "red" /\ \A a \in Addr \ {x} : u.color[a] = t.color[a]
    BY <1>3, <1>7, PaintColors
  <2> QED BY <2>1, <2>2
<1> HIDE DEF u
<1> DEFINE up == t.parent[P]
           s == SideOf(t, P)
           K == IF P # t.root THEN {<<up, s>>} ELSE {}
<1>10. Missing' = K
  <2>1. SideOf(u, P) = SideOf(t, P)
    BY <1>9 DEF SideOf
  <2>2. Missing' = IF check' # tree'.root THEN {<<tree'.parent[check'], SideOf(tree', check')>>} ELSE {}
    BY <1>1 DEF Missing, Parent, SideOf
  <2> QED BY <1>1, <1>9, <2>1, <2>2
<1>11. /\ P # t.root => up \in live /\ s \in Side /\ t.child[up][s] = P
  BY <1>3, <1>7
<1>12. up = t.parent[P] /\ K = IF P # t.root THEN {<<up, s>>} ELSE {}
  OBVIOUS
<1> HIDE DEF up, s, K
<1>13. /\ g[x] = g[check] + 1 /\ g[P] = g[x] + One(t.color[P] = "black")
       /\ \A a \in live \cup {Nil} : g[a] \in Nat
  <2>1. Even(t.child, t.color, g, M, P)
    BY <1>3, <1>4
  <2>2. One(<<P, d>> \in M) = 1 /\ One(<<P, Other(d)>> \in M) = 0 /\ One(t.color[P] = "black") \in Nat
    BY <1>6, <1>7 DEF One
  <2>3. g[P] = g[check] + 1 + One(t.color[P] = "black") /\ g[P] = g[x] + 0 + One(t.color[P] = "black")
    BY <1>3, <1>5, <1>7, <2>1, <2>2 DEF Even
  <2>4. \A a \in live \cup {Nil} : g[a] \in Nat
    BY <1>4 DEF Weights
  <2>5. g[check] \in Nat /\ g[x] \in Nat
    BY <1>3, <2>4
  <2> QED BY <2>2, <2>3, <2>4, <2>5
<1> DEFINE h == [g EXCEPT ![P] = @ - 1, ![x] = @ - 1]
<1>14. /\ Weights(live, h) /\ h[P] = g[P] - 1 /\ h[x] = g[x] - 1 /\ h[check] = g[check]
       /\ \A a \in (live \cup {Nil}) \ {P, x} : h[a] = g[a]
  <2>1. g[x] - 1 \in Nat /\ g[P] - 1 \in Nat
    <3>1. g[check] \in Nat /\ One(t.color[P] = "black") \in Nat
      BY <1>3, <1>13 DEF One
    <3> QED BY <1>13, <3>1
  <2> QED BY <1>3, <1>4, <1>7, <1>8, <2>1 DEF Weights
<1> HIDE DEF h
<1>15. ASSUME NEW a \in live
       PROVE  Even(t.child, u.color, h, K, a) /\ (a # P => Calm(t.child, u.color, {P}, a))
  <2>1. Even(t.child, t.color, g, M, a) /\ Calm(t.child, t.color, {}, a)
    BY <1>4
  <2>2. CASE a = P
    <3>1. \A e \in Side : One(<<P, e>> \in K) = 0
      <4>1. P # t.root => up # P
        BY <1>7, <1>11
      <4> QED BY <1>12, <4>1 DEF One
    <3>2. h[P] = h[check] + 0 + One(t.color[P] = "black") /\ h[P] = h[x] + 0 + One(t.color[P] = "black")
      <4>1. g[check] \in Nat /\ One(t.color[P] = "black") \in Nat
        BY <1>3, <1>13 DEF One
      <4> QED BY <1>13, <1>14, <4>1
    <3>3. u.color[P] = t.color[P]
      BY <1>3, <1>7, <1>8, <1>9
    <3> QED BY <1>3, <1>5, <1>7, <2>2, <3>1, <3>2, <3>3 DEF Even
  <2>3. CASE a = x
    <3>1. \A e \in Side : t.child[x][e] \in (live \cup {Nil}) \ {P, x}
      <4>1. \A e \in Side : t.child[x][e] # P
        <5>1. PICK depth \in [live -> Nat] : \A b \in live \ {t.root} : depth[t.parent[b]] < depth[b]
          BY <1>3 DEF IsTree, Acyclic
        <5>2. depth[P] < depth[x] /\ depth[P] \in Nat /\ depth[x] \in Nat
          BY <1>3, <1>8, <5>1
        <5> QED BY <1>3, <1>7, <5>1, <5>2
      <4> QED BY <1>3, <1>7, <4>1
    <3>2. \A e \in Side : One(<<x, e>> \in M) = 0 /\ One(<<x, e>> \in K) = 0
      <4>1. P # t.root => up # x
        BY <1>3, <1>11, <3>1
      <4> QED BY <1>6, <1>8, <1>12, <4>1 DEF One
    <3>3. One(t.color[x] = "black") = 1 /\ One(u.color[x] = "black") = 0
      BY <1>3, <1>9 DEF One
    <3>4. \A e \in Side : g[x] = g[t.child[x][e]] + 0 + 1
      BY <2>1, <2>3, <3>2, <3>3 DEF Even
    <3>5. \A e \in Side : h[x] = h[t.child[x][e]] + 0 + 0
      BY <1>13, <1>14, <3>1, <3>4
    <3>6. \A e \in Side : u.color[t.child[x][e]] = "black"
      BY <1>1, <1>3, <1>7, <1>9, <3>1
    <3> QED BY <2>3, <3>2, <3>3, <3>5, <3>6 DEF Even, Calm
  <2>4. CASE a \notin {P, x}
    <3>1. u.color[a] = t.color[a] /\ h[a] = g[a]
      BY <1>7, <1>9, <1>14, <2>4
    <3>2. \A e \in Side : t.child[a][e] \in (live \cup {Nil}) \ {x} /\ t.child[a][e] \in Addr
      BY <1>3, <1>7, <1>8, <2>4
    <3>3. \A e \in Side : u.color[t.child[a][e]] = t.color[t.child[a][e]]
      BY <1>9, <3>2
    <3>4. \A e \in Side : One(<<a, e>> \in M) = 0
      BY <1>6, <2>4 DEF One
    <3>5. ASSUME NEW e \in Side PROVE g[t.child[a][e]] = h[t.child[a][e]] + One(<<a, e>> \in K)
      <4>1. CASE t.child[a][e] = P
        <5>1. P # t.root /\ a = up
          BY <1>3, <1>7, <1>12, <4>1
        <5>2. e = s
          BY <1>3, <1>7, <1>11, <4>1, <5>1, Sides
        <5> QED BY <1>3, <1>12, <1>13, <1>14, <4>1, <5>1, <5>2 DEF One
      <4>2. CASE t.child[a][e] # P
        <5>1. <<a, e>> \notin K
          BY <1>11, <1>12, <4>2
        <5>2. One(<<a, e>> \in K) = 0 /\ g[t.child[a][e]] \in Nat /\ g[t.child[a][e]] = h[t.child[a][e]]
          BY <1>13, <1>14, <3>2, <4>2, <5>1 DEF One
        <5> QED BY <5>2
      <4> QED BY <4>1, <4>2
    <3>6. ASSUME NEW e \in Side PROVE h[a] = h[t.child[a][e]] + One(<<a, e>> \in K) + One(u.color[a] = "black")
      <4> DEFINE c == t.child[a][e]
                 n == One(u.color[a] = "black")
                 k == One(<<a, e>> \in K)
      <4>1. g[a] = g[c] + 0 + n
        BY <2>1, <3>1, <3>4 DEF Even
      <4>2. g[c] = h[c] + k /\ h[a] = g[a] /\ g[c] \in Nat
        BY <1>13, <3>1, <3>2, <3>5
      <4>3. n \in Nat
        BY DEF One
      <4> HIDE DEF c, n, k
      <4> QED BY <4>1, <4>2, <4>3 DEF c, n, k
    <3>7. Even(t.child, u.color, h, K, a)
      BY <3>6 DEF Even
    <3>8. Calm(t.child, u.color, {P}, a)
      BY <2>1, <3>1, <3>3 DEF Calm
    <3> QED BY <3>7, <3>8
  <2> QED BY <2>2, <2>3, <2>4
<1>16. tree'.child = t.child /\ tree'.color = u.color /\ tree'.root = t.root /\ tree'.parent = t.parent
  BY <1>1, <1>9
<1>17. /\ tree'.color[Nil] = "black" /\ tree'.color[tree'.root] # "red"
  BY <1>3, <1>7, <1>8, <1>9, <1>16
<1>18. check' # tree'.root => Parent' \in live' /\ tree'.child[Parent'][SideOf(tree', check')] = check'
  <2>1. SideOf(tree', P) = s /\ Parent' = up
    BY <1>1, <1>9, <1>12 DEF SideOf, s, Parent
  <2> QED BY <1>1, <1>11, <1>16, <2>1
<1>19. (\E f : Weights(live, f) /\ \A a \in live : Even(tree.child, tree.color, f, Missing, a))'
  BY <1>1, <1>10, <1>14, <1>15, <1>16 DEF Weights, Even
<1>20. (\A a \in live : \/ running = "erase" /\ a = check
                        \/ Calm(tree.child, tree.color, IF running = "idle" THEN {} ELSE {check}, a))'
  BY <1>1, <1>15, <1>16 DEF Calm, Side
<1> QED BY <1>1, <1>17, <1>18, <1>19, <1>20 DEF Coloured, SideOf

\* What a rotation links, with a name for each node.
LEMMA RotateLinks ==
  ASSUME NEW t, IsTree(t), NEW z \in live, NEW d \in Side, NEW x, x = t.child[z][Other(d)], x # Nil,
         NEW p, p = t.parent[z], NEW s, s = SideOf(t, z), NEW r, r = Rotate(t, z, d)
  PROVE  /\ r.color = t.color /\ r.root = IF z = t.root THEN x ELSE t.root
         /\ r.child[z][d] = t.child[z][d] /\ r.child[z][Other(d)] = t.child[x][d]
         /\ r.child[x][d] = z /\ r.child[x][Other(d)] = t.child[x][Other(d)]
         /\ p # Nil => r.child[p][s] = x /\ r.child[p][Other(s)] = t.child[p][Other(s)]
BY RotateSets

\* The brother, which has a red child.
RedNephew(t, d, x) == x = t.child[Parent][Other(d)] /\ \E e \in Side : t.color[t.child[x][e]] = "red"

\* Case 3: the child of the brother away from check is red.
LEMMA FarColors ==
  ASSUME NEW t, NEW d, Short(t, d), NEW x, RedNephew(t, d, x)
  PROVE  LET q == FarRed(t, x, d)
         IN  Short(q, d) /\ q.color[q.child[q.child[Parent][Other(d)]][Other(d)]] = "red"
<1> DEFINE P == Parent
           M == {<<P, d>>}
           near == t.child[x][d]
           far == t.child[x][Other(d)]
           q == FarRed(t, x, d)
<1>1. /\ IsTree(t) /\ P \in live /\ d \in Side /\ check \in live \cup {Nil}
      /\ t.child[P][d] = check /\ t.color[check] = "black"
      /\ t.color[Nil] = "black" /\ t.color[t.root] = "black" /\ t.root \in live
      /\ x \in live /\ t.color[x] = "black" /\ t.child[P][Other(d)] = x
      /\ \E g : /\ Weights(live, g)
                /\ \A a \in live : Even(t.child, t.color, g, M, a) /\ Calm(t.child, t.color, {}, a)
  BY DEF Short, RedNephew
<1>2. PICK g : /\ Weights(live, g)
               /\ \A a \in live : Even(t.child, t.color, g, M, a) /\ Calm(t.child, t.color, {}, a)
  BY <1>1
<1>3. /\ Nil \notin live /\ live \subseteq Addr /\ Nil \in Addr /\ Other(d) \in Side /\ Other(d) # d /\ Other(Other(d)) = d
      /\ \A e \in Side : e = d \/ e = Other(d)
      /\ \A a \in live, e \in Side :
           /\ t.child[a][e] \in live \cup {Nil} /\ t.child[a][e] # a
           /\ t.child[a][e] # Nil => /\ t.parent[t.child[a][e]] = a /\ t.child[a][Other(e)] # t.child[a][e]
                                     /\ t.child[a][e] # t.root
  BY <1>1, Apart, Sides
<1>4. near \in live \cup {Nil} /\ far \in live \cup {Nil} /\ t.color[far] \in {"red", "black"}
  BY <1>1, <1>3 DEF IsTree, Fields
<1>5. CASE t.color[near] = "red" /\ t.color[far] = "black"
  <2> DEFINE u == Paint(Paint(t, near, "black"), x, "red")
             r == Rotate(u, x, Other(d))
             b == t.child[near][Other(d)]
  <2>1. near \in live /\ near # x /\ near # Nil /\ near # t.root /\ x # t.root /\ near # far
    BY <1>1, <1>3, <1>4, <1>5
  <2>2. near # P /\ x # P /\ x # Nil
    <3>1. PICK depth \in [live -> Nat] : \A a \in live \ {t.root} : depth[t.parent[a]] < depth[a]
      BY <1>1 DEF IsTree, Acyclic
    <3>2. t.parent[near] = x /\ t.parent[x] = P
      BY <1>1, <1>3, <2>1
    <3>3. depth[P] < depth[x] /\ depth[x] < depth[near]
      BY <1>1, <2>1, <3>1, <3>2
    <3>4. depth[P] \in Nat /\ depth[x] \in Nat /\ depth[near] \in Nat
      BY <1>1, <2>1, <3>1
    <3> HIDE DEF near
    <3> QED BY <1>1, <1>3, <3>3, <3>4
  <2>3. q = r
    BY <1>5 DEF FarRed
  <2>4. /\ IsTree(u) /\ u.root = t.root /\ u.child = t.child /\ u.parent = t.parent
        /\ u.color[near] = "black" /\ u.color[x] = "red" /\ \A a \in Addr \ {near, x} : u.color[a] = t.color[a]
    <3>1. IsTree(t) /\ x \in Addr /\ near \in Addr /\ near # x
      BY <1>1, <1>3, <2>1
    <3> HIDE DEF near
    <3> QED BY <3>1, PaintTwo
  <2>5. u.child[x][Other(Other(d))] = near /\ u.child[x][Other(d)] = far /\ u.child[near][Other(d)] = b
    BY <1>3, <2>4
  <2>6. b \in live \cup {Nil} /\ t.color[b] = "black"
    BY <1>2, <1>3, <1>5, <2>1 DEF Calm
  <2> HIDE DEF u, near, far, b
  <2>7. MayTurn(u, x, Other(d), near, t.color, u.color, g, M)
    <3>1. \A e \in Side : <<near, e>> \notin M
      BY <2>2
    <3>2. <<x, Other(Other(d))>> \notin M
      BY <2>2
    <3>3. \A a \in (live \cup {Nil}) \ {near, x} : u.color[a] = t.color[a]
      BY <1>3, <2>4
    <3> HIDE DEF M
    <3> QED BY <1>1, <1>2, <1>5, <2>1, <2>4, <2>5, <2>6, <3>1, <3>2, <3>3 DEF MayTurn
  <2>8. PICK h : /\ Weights(live, h)
                 /\ \A a \in live : Even(r.child, u.color, h, M, a) /\ Calm(r.child, u.color, {}, a)
    BY <1>1, <1>3, <2>4, <2>7, SwapRotates
  <2>9. /\ r.color = u.color /\ r.root = t.root /\ r.child[P][d] = check /\ r.child[P][Other(d)] = near
        /\ r.child[near][Other(d)] = x
    <3>1. SideOf(u, x) = Other(d) /\ u.parent[x] = P
      <4>1. t.parent[x] = P
        BY <1>1, <1>3, <2>2
      <4>2. t.child[P][d] # x
        BY <1>1, <1>3, <2>2
      <4> QED BY <1>1, <1>3, <2>4, <4>1, <4>2 DEF SideOf, Side, Other
    <3>2. /\ r.color = u.color /\ r.root = (IF x = u.root THEN near ELSE u.root) /\ r.child[near][Other(d)] = x
          /\ P # Nil => r.child[P][Other(d)] = near /\ r.child[P][Other(Other(d))] = u.child[P][Other(Other(d))]
      <4>1. /\ IsTree(u) /\ x \in live /\ Other(d) \in Side /\ near = u.child[x][Other(Other(d))] /\ near # Nil
            /\ P = u.parent[x] /\ Other(d) = SideOf(u, x) /\ r = Rotate(u, x, Other(d))
        BY <1>1, <1>3, <2>1, <2>4, <2>5, <3>1
      <4> HIDE DEF r, P, near
      <4> QED BY <4>1, RotateLinks
    <3> HIDE DEF r
    <3>3. P # Nil
      BY <1>1, <1>3
    <3> QED BY <1>1, <1>3, <2>1, <2>4, <2>5, <3>1, <3>2, <3>3
  <2>10. IsTree(r)
    BY <1>1, <1>3, <2>4, RotateKeepsTree
  <2> HIDE DEF r
  <2>11. r.color[check] = "black" /\ r.color[Nil] = "black" /\ r.color[r.root] = "black" /\ r.color[near] = "black"
         /\ r.color[x] = "red"
    <3>1. check # x /\ check # near
      <4>1. check # x
        BY <1>1, <1>3, <2>2
      <4> QED BY <1>1, <1>5, <4>1
    <3> QED BY <1>1, <1>3, <2>1, <2>2, <2>4, <2>9, <3>1
  <2>12. \A a \in live : Even(r.child, r.color, h, M, a) /\ Calm(r.child, r.color, {}, a)
    BY <2>8, <2>9
  <2>13. Short(r, d)
    BY <1>1, <2>1, <2>8, <2>9, <2>10, <2>11, <2>12 DEF Short
  <2> QED BY <2>3, <2>9, <2>11, <2>13
<1>6. CASE ~(t.color[near] = "red" /\ t.color[far] = "black")
  <2>1. q = t
    BY <1>6 DEF FarRed
  <2>2. t.color[far] = "red"
    BY <1>3, <1>4, <1>6 DEF RedNephew
  <2> QED BY <1>1, <2>1, <2>2
<1> QED BY <1>5, <1>6

LastPaint(t, d, x, far, u) ==
  /\ x = t.child[Parent][Other(d)] /\ far = t.child[x][Other(d)] /\ t.color[far] = "red"
  /\ IsTree(u) /\ u.root = t.root /\ u.child = t.child
  /\ u.color[x] = t.color[Parent] /\ u.color[Parent] = "black" /\ u.color[far] = "black"
  /\ \A a \in Addr \ {x, Parent, far} : u.color[a] = t.color[a]

\* Case 4: the brother comes up with the colour of the parent, and nothing is missing any more.
LEMMA LastRotation ==
  ASSUME NEW t, NEW d, Short(t, d), NEW x, NEW far, NEW u, LastPaint(t, d, x, far, u)
  PROVE  LET r == Rotate(u, Parent, d)
         IN  /\ \E h : /\ Weights(live, h)
                       /\ \A a \in live : Even(r.child, r.color, h, {}, a) /\ Calm(r.child, r.color, {}, a)
             /\ r.color[Nil] = "black" /\ r.color[r.root] = "black" /\ r.color[check] = "black"
<1> DEFINE P == Parent
           M == {<<P, d>>}
           b == t.child[x][d]
           r == Rotate(u, P, d)
<1>1. /\ IsTree(t) /\ P \in live /\ d \in Side /\ check \in live \cup {Nil}
      /\ t.child[P][d] = check /\ t.color[check] = "black"
      /\ t.color[Nil] = "black" /\ t.color[t.root] = "black" /\ t.root \in live
      /\ x \in live /\ t.color[x] = "black"
      /\ \E g : /\ Weights(live, g)
                /\ \A a \in live : Even(t.child, t.color, g, M, a) /\ Calm(t.child, t.color, {}, a)
  BY DEF Short, LastPaint
<1>2. PICK g : /\ Weights(live, g)
               /\ \A a \in live : Even(t.child, t.color, g, M, a) /\ Calm(t.child, t.color, {}, a)
  BY <1>1
<1> HIDE DEF P
<1>3. /\ Nil \notin live /\ live \subseteq Addr /\ Nil \in Addr /\ Other(d) \in Side /\ Other(d) # d
      /\ \A e \in Side : e = d \/ e = Other(d)
      /\ \A a \in live, e \in Side :
           /\ t.child[a][e] \in live \cup {Nil} /\ t.child[a][e] # a
           /\ t.child[a][e] # Nil => /\ t.parent[t.child[a][e]] = a /\ t.child[a][Other(e)] # t.child[a][e]
                                     /\ t.child[a][e] # t.root
  BY <1>1, Apart, Sides
<1>4. /\ t.child[P][Other(d)] = x /\ t.child[x][Other(d)] = far
      /\ u.color[x] = t.color[P] /\ u.color[P] = "black" /\ u.color[far] = "black"
      /\ \A a \in Addr \ {x, P, far} : u.color[a] = t.color[a]
      /\ t.color[far] = "red"
      /\ IsTree(u) /\ u.root = t.root /\ u.child = t.child
  BY DEF LastPaint, P
<1>5. /\ far \in live /\ b \in live \cup {Nil} /\ x # P /\ x # Nil /\ far # x /\ b # x /\ check # x /\ check # P
      /\ b # far /\ x # t.root /\ far # t.root /\ t.parent[x] = P /\ t.parent[far] = x /\ (b # Nil => t.parent[b] = x)
      /\ check # far
  <2>1. far \in live
    <3>1. far # Nil /\ far \in live \cup {Nil}
      BY <1>1, <1>3, <1>4
    <3> QED BY <3>1
  <2>2. b \in live \cup {Nil} /\ b # x /\ b # far /\ (b # Nil => t.parent[b] = x)
    BY <1>1, <1>3, <1>4, <2>1
  <2> HIDE DEF b
  <2> QED BY <1>1, <1>3, <1>4, <2>1, <2>2
<1>6. far # P /\ b # P
  <2>1. PICK depth \in [live -> Nat] : \A a \in live \ {t.root} : depth[t.parent[a]] < depth[a]
    BY <1>1 DEF IsTree, Acyclic
  <2>2. depth[P] < depth[x] /\ depth[x] < depth[far]
    BY <1>1, <1>5, <2>1
  <2>3. b # Nil => b # t.root /\ b \in live
    BY <1>1, <1>3, <1>5
  <2>4. b # Nil => depth[x] < depth[b]
    BY <1>5, <2>1, <2>3
  <2>5. depth[P] \in Nat /\ depth[x] \in Nat /\ depth[far] \in Nat /\ (b # Nil => depth[b] \in Nat)
    BY <1>1, <1>5, <2>1
  <2> HIDE DEF b
  <2> QED BY <1>1, <1>3, <2>2, <2>4, <2>5
<1> DEFINE col == [t.color EXCEPT ![far] = "black"]
           k == [g EXCEPT ![far] = @ + 1]
           h == [k EXCEPT ![x] = g[P], ![P] = g[x]]
<1>7. /\ col[far] = "black" /\ \A a \in Addr \ {far} : col[a] = t.color[a]
  BY <1>1, <1>3, <1>5 DEF IsTree, Fields
<1>8. /\ Weights(live, k) /\ k[far] = g[far] + 1 /\ \A a \in (live \cup {Nil}) \ {far} : k[a] = g[a]
      /\ \A a \in live \cup {Nil} : g[a] \in Nat
  <2>1. g \in [live \cup {Nil} -> Nat] /\ g[Nil] = 0
    BY <1>2 DEF Weights
  <2>2. g[far] + 1 \in Nat
    BY <1>5, <2>1
  <2>3. far \in live \cup {Nil} /\ far # Nil
    BY <1>3, <1>5
  <2>4. k \in [live \cup {Nil} -> Nat]
    BY <2>1, <2>2, <2>3
  <2>5. k[far] = g[far] + 1 /\ \A a \in (live \cup {Nil}) \ {far} : k[a] = g[a]
    BY <2>1, <2>3
  <2> HIDE DEF k
  <2> QED BY <2>1, <2>3, <2>4, <2>5 DEF Weights
<1> HIDE DEF k
<1>9. /\ Weights(live, h) /\ h[x] = g[P] /\ h[P] = g[x] /\ \A a \in (live \cup {Nil}) \ {x, P} : h[a] = k[a]
  BY <1>1, <1>3, <1>5, <1>8 DEF Weights
<1> HIDE DEF h, col, b, r, M
<1>10. ASSUME NEW a \in live \ {x, P} PROVE Even(t.child, col, k, {}, a) /\ Calm(t.child, col, {}, a)
  <2>1. Even(t.child, t.color, g, M, a) /\ Calm(t.child, t.color, {}, a)
    BY <1>2
  <2>2. \A e \in Side : One(<<a, e>> \in M) = 0 /\ One(<<a, e>> \in {}) = 0
    BY DEF One, M
  <2>3. \A e \in Side : t.child[a][e] \in (live \cup {Nil}) \ {far} /\ t.child[a][e] \in Addr
    BY <1>3, <1>5
  <2>4. CASE a = far
    <3>1. One(t.color[far] = "black") = 0 /\ One(col[far] = "black") = 1
      BY <1>4, <1>7 DEF One
    <3>2. \A e \in Side : g[far] = g[t.child[far][e]] + 0 + 0
      BY <2>1, <2>2, <2>4, <3>1 DEF Even
    <3>3. \A e \in Side : k[far] = k[t.child[far][e]] + 0 + 1
      <4> SUFFICES ASSUME NEW e \in Side PROVE k[far] = k[t.child[far][e]] + 0 + 1
        OBVIOUS
      <4> DEFINE c == t.child[far][e]
      <4>1. k[far] = g[far] + 1 /\ g[far] = g[c] + 0 + 0 /\ k[c] = g[c] /\ g[c] \in Nat
        BY <1>8, <2>3, <2>4, <3>2
      <4> HIDE DEF c
      <4> QED BY <4>1 DEF c
    <3>4. Even(t.child, col, k, {}, a)
      BY <2>2, <2>4, <3>1, <3>3 DEF Even
    <3>5. Calm(t.child, col, {}, a)
      BY <1>7, <2>4 DEF Calm
    <3> QED BY <3>4, <3>5
  <2>5. CASE a # far
    <3>1. col[a] = t.color[a] /\ k[a] = g[a]
      BY <1>3, <1>7, <1>8, <2>5
    <3>2. \A e \in Side : col[t.child[a][e]] = t.color[t.child[a][e]] /\ k[t.child[a][e]] = g[t.child[a][e]]
      BY <1>7, <1>8, <2>3
    <3>3. Even(t.child, col, k, {}, a)
      BY <2>1, <2>2, <3>1, <3>2 DEF Even
    <3>4. Calm(t.child, col, {}, a)
      BY <2>1, <3>1, <3>2 DEF Calm
    <3> QED BY <3>3, <3>4
  <2> QED BY <2>4, <2>5
<1>11. /\ u.child[P][Other(d)] = x /\ u.child[P][d] = check /\ u.child[x][Other(d)] = far /\ u.child[x][d] = b
  BY <1>1, <1>4 DEF b
<1>12. /\ r.color = u.color /\ r.root = (IF P = t.root THEN x ELSE t.root)
       /\ r.child[P][d] = check /\ r.child[P][Other(d)] = b /\ r.child[x][d] = P /\ r.child[x][Other(d)] = far
  <2>1. IsTree(u) /\ P \in live /\ d \in Side /\ u.child[P][Other(d)] # Nil /\ u.root = t.root
    BY <1>1, <1>4, <1>5, <1>11
  <2>2. /\ r.color = u.color /\ r.root = (IF P = u.root THEN u.child[P][Other(d)] ELSE u.root)
        /\ r.child[P][d] = u.child[P][d] /\ r.child[P][Other(d)] = u.child[u.child[P][Other(d)]][d]
        /\ r.child[u.child[P][Other(d)]][d] = P
        /\ r.child[u.child[P][Other(d)]][Other(d)] = u.child[u.child[P][Other(d)]][Other(d)]
    BY <2>1, RotateSets DEF r
  <2> HIDE DEF r
  <2> QED BY <1>11, <2>1, <2>2
<1>13. \A a \in live \ {x, P} : Even(r.child, u.color, h, {}, a) /\ Calm(r.child, u.color, {}, a)
  <2>1. \A a \in (live \cup {Nil}) \ {x, P} : u.color[a] = col[a] /\ h[a] = k[a]
    BY <1>3, <1>4, <1>7, <1>9
  <2>2. u.color[x] = col[P] /\ h[x] = k[P]
    BY <1>1, <1>3, <1>4, <1>6, <1>7, <1>8, <1>9
  <2>3. \A a \in live \ {x, P} : Even(u.child, col, k, {}, a) /\ Calm(u.child, col, {}, a)
    BY <1>4, <1>10
  <2>4. IsTree(u) /\ u.child[P][Other(d)] # Nil /\ x = u.child[P][Other(d)]
    BY <1>4, <1>5, <1>11
  <2> QED BY <1>1, <2>1, <2>2, <2>3, <2>4, RotateColors DEF r
<1>14. /\ g[x] = g[check] + 1 /\ g[P] = g[x] + One(t.color[P] = "black") /\ g[x] = g[b] + 1 /\ g[x] = g[far] + 1
  <2>1. Even(t.child, t.color, g, M, P) /\ Even(t.child, t.color, g, M, x)
    BY <1>1, <1>2
  <2>2. /\ One(<<P, d>> \in M) = 1 /\ One(<<P, Other(d)>> \in M) = 0 /\ One(t.color[P] = "black") \in Nat
        /\ One(<<x, d>> \in M) = 0 /\ One(<<x, Other(d)>> \in M) = 0 /\ One(t.color[x] = "black") = 1
    BY <1>1, <1>3, <1>5 DEF One, M
  <2>3. g[P] = g[check] + 1 + One(t.color[P] = "black") /\ g[P] = g[x] + 0 + One(t.color[P] = "black")
    BY <1>1, <1>3, <1>4, <2>1, <2>2 DEF Even
  <2>4. g[x] = g[b] + 0 + 1 /\ g[x] = g[far] + 0 + 1
    BY <1>1, <1>3, <1>4, <2>1, <2>2 DEF Even, b
  <2>5. g[check] \in Nat /\ g[x] \in Nat /\ g[b] \in Nat /\ g[far] \in Nat
    BY <1>1, <1>5, <1>8
  <2> QED BY <2>2, <2>3, <2>4, <2>5
<1>15. /\ h[check] = g[check] /\ h[b] = g[b] /\ h[far] = g[far] + 1
  BY <1>1, <1>3, <1>5, <1>6, <1>8, <1>9
<1>16. Even(r.child, u.color, h, {}, P) /\ Calm(r.child, u.color, {}, P)
  <2>1. \A e \in Side : One(<<P, e>> \in {}) = 0
    BY DEF One
  <2>2. One(u.color[P] = "black") = 1
    BY <1>4 DEF One
  <2>3. h[P] = h[check] + 0 + 1 /\ h[P] = h[b] + 0 + 1
    BY <1>1, <1>5, <1>8, <1>9, <1>14, <1>15
  <2> QED BY <1>3, <1>4, <1>12, <2>1, <2>2, <2>3 DEF Even, Calm
<1>17. Even(r.child, u.color, h, {}, x) /\ Calm(r.child, u.color, {}, x)
  <2>1. \A e \in Side : One(<<x, e>> \in {}) = 0
    BY DEF One
  <2>2. One(u.color[x] = "black") = One(t.color[P] = "black") /\ One(t.color[P] = "black") \in Nat
    BY <1>4 DEF One
  <2>3. /\ h[x] = h[P] + 0 + One(t.color[P] = "black") /\ h[x] = h[far] + 0 + One(t.color[P] = "black")
    BY <1>1, <1>5, <1>8, <1>9, <1>14, <1>15, <2>2
  <2>4. Even(r.child, u.color, h, {}, x)
    BY <1>3, <1>12, <2>1, <2>2, <2>3 DEF Even
  <2>5. \A e \in Side : r.child[x][e] \in {P, far}
    BY <1>3, <1>12
  <2>6. Calm(r.child, u.color, {}, x)
    BY <1>4, <2>5 DEF Calm
  <2> QED BY <2>4, <2>6
<1>18. \A a \in live : Even(r.child, r.color, h, {}, a) /\ Calm(r.child, r.color, {}, a)
  BY <1>12, <1>13, <1>16, <1>17
<1>19. r.color[Nil] = "black" /\ r.color[r.root] = "black" /\ r.color[check] = "black"
  BY <1>1, <1>3, <1>4, <1>5, <1>12
<1> QED BY <1>9, <1>18, <1>19 DEF r, P

LEMMA RotateEraseColors ==
  ASSUME CheckInv, Coloured, EraseRotate
  PROVE  Coloured'
<1> DEFINE P == Parent
           d == SideOf(tree, check)
           t == BlackBrother(d)
           bro == t.child[P][Other(d)]
           t3 == FarRed(t, bro, d)
           x == t3.child[P][Other(d)]
           far == t3.child[x][Other(d)]
           c == t3.color[P]
           p1 == Paint(t3, x, c)
           p2 == Paint(p1, P, "black")
           u == Paint(p2, far, "black")
           r == Rotate(u, P, d)
           q == Paint(r, check, "black")
<1>1. /\ DoubleBlack /\ live' = live /\ running' = "idle" /\ tree' = [q EXCEPT !.parent[Nil] = Nil]
      /\ \E e \in Side : t.color[t.child[bro][e]] = "red"
  BY DEF EraseRotate, Return
<1>2. Short(t, d)
  BY <1>1, BrotherColors
<1> HIDE DEF t
<1>3. Short(t3, d) /\ t3.color[far] = "red"
  <2>1. RedNephew(t, d, bro)
    BY <1>1 DEF RedNephew
  <2> QED BY <1>2, <2>1, FarColors
<1> HIDE DEF d, t3, bro
<1>4. /\ IsTree(t3) /\ P \in live /\ d \in Side /\ check \in live \cup {Nil} /\ x \in live
      /\ t3.color[x] = "black"
  BY <1>3 DEF Short
<1>5. /\ Nil \notin live /\ live \subseteq Addr /\ Nil \in Addr /\ far \in live \cup {Nil} /\ x # P /\ far # x /\ far # P
  <2>1. Other(d) \in Side
    BY <1>4, Sides
  <2>2. /\ Nil \notin live /\ live \subseteq Addr /\ Nil \in Addr /\ far \in live \cup {Nil} /\ far # x /\ x # P
        /\ far # Nil => t3.parent[far] = x /\ far # t3.root
        /\ t3.parent[x] = P /\ x # t3.root
    BY <1>4, <2>1, Apart
  <2>3. PICK depth \in [live -> Nat] : \A a \in live \ {t3.root} : depth[t3.parent[a]] < depth[a]
    BY <1>4 DEF IsTree, Acyclic
  <2> HIDE DEF x, far
  <2>4. far # Nil => depth[P] < depth[x] /\ depth[x] < depth[far] /\ depth[P] \in Nat /\ depth[x] \in Nat /\ depth[far] \in Nat
    BY <1>4, <2>2, <2>3
  <2>5. far # P
    BY <1>4, <2>2, <2>4
  <2> QED BY <2>2, <2>5
<1> HIDE DEF P
<1>6. t3.color[P] \in {"red", "black"} /\ P \in Addr /\ x \in Addr /\ far \in Addr
  BY <1>4, <1>5 DEF IsTree, Fields
<1>7. /\ IsTree(p2) /\ p2.root = t3.root /\ p2.child = t3.child /\ p2.color[x] = c /\ p2.color[P] = "black"
      /\ \A a \in Addr \ {x, P} : p2.color[a] = t3.color[a]
  <2>1. /\ IsTree(t3) /\ x \in Addr /\ P \in Addr /\ x # P /\ c \in {"red", "black"} /\ "black" \in {"red", "black"}
    BY <1>4, <1>5, <1>6
  <2> HIDE DEF x, c
  <2>2. IsTree(p1) /\ p1.root = t3.root /\ p1.child = t3.child
    BY <2>1, PaintKeepsTree
  <2>3. p1.color[x] = c /\ \A a \in Addr \ {x} : p1.color[a] = t3.color[a]
    BY <2>1, PaintColors
  <2> HIDE DEF p1
  <2>4. IsTree(p2) /\ p2.root = p1.root /\ p2.child = p1.child
    BY <2>1, <2>2, PaintKeepsTree
  <2>5. p2.color[P] = "black" /\ \A a \in Addr \ {P} : p2.color[a] = p1.color[a]
    BY <2>1, <2>2, PaintColors
  <2> HIDE DEF p2
  <2> QED BY <2>1, <2>2, <2>3, <2>4, <2>5
<1> HIDE DEF p1, p2
<1>8. /\ IsTree(u) /\ u.root = t3.root /\ u.child = t3.child /\ u.color[x] = t3.color[P] /\ u.color[P] = "black"
      /\ u.color[far] = "black" /\ \A a \in Addr \ {x, P, far} : u.color[a] = t3.color[a]
  <2> HIDE DEF x, far
  <2>1. IsTree(u) /\ u.root = p2.root /\ u.child = p2.child
    BY <1>7, PaintKeepsTree
  <2>2. u.color[far] = "black" /\ \A a \in Addr \ {far} : u.color[a] = p2.color[a]
    BY <1>6, <1>7, PaintColors
  <2> HIDE DEF u
  <2> QED BY <1>5, <1>6, <1>7, <2>1, <2>2
<1>9. x = t3.child[P][Other(d)] /\ far = t3.child[x][Other(d)]
  OBVIOUS
<1> HIDE DEF u, x, far
<1>10. /\ \E h : /\ Weights(live, h)
                  /\ \A a \in live : Even(r.child, r.color, h, {}, a) /\ Calm(r.child, r.color, {}, a)
       /\ r.color[Nil] = "black" /\ r.color[r.root] = "black" /\ r.color[check] = "black"
  <2>1. \A a \in Addr \ {x, Parent, far} : u.color[a] = t3.color[a]
    BY <1>8 DEF P
  <2>2. LastPaint(t3, d, x, far, u)
    BY <1>3, <1>8, <1>9, <2>1 DEF P, LastPaint
  <2> QED BY <1>3, <2>2, LastRotation DEF P
<1>11. IsTree(r)
  BY <1>4, <1>8, RotateKeepsTree
<1> HIDE DEF r
<1>12. /\ q.root = r.root /\ q.child = r.child /\ IsTree(q)
       /\ \A a \in Addr : q.color[a] = r.color[a]
  <2>1. IsTree(q) /\ q.root = r.root /\ q.child = r.child
    BY <1>11, PaintKeepsTree
  <2>2. q.color[check] = "black" /\ \A a \in Addr \ {check} : q.color[a] = r.color[a]
    BY <1>4, <1>5, <1>11, PaintColors
  <2> HIDE DEF q
  <2> QED BY <1>10, <2>1, <2>2
<1> HIDE DEF q
<1>13. tree'.root = q.root /\ tree'.child = q.child /\ tree'.color = q.color
  BY <1>1, <1>12 DEF IsTree, Fields
<1>14. PICK h : /\ Weights(live, h)
                /\ \A a \in live : Even(r.child, r.color, h, {}, a) /\ Calm(r.child, r.color, {}, a)
  BY <1>10
<1>15. \A a \in live : Even(tree'.child, tree'.color, h, {}, a) /\ Calm(tree'.child, tree'.color, {}, a)
  <2> SUFFICES ASSUME NEW a \in live
               PROVE  Even(r.child, q.color, h, {}, a) /\ Calm(r.child, q.color, {}, a)
    BY <1>12, <1>13
  <2>1. q.color[a] = r.color[a] /\ \A e \in Side : q.color[r.child[a][e]] = r.color[r.child[a][e]]
    BY <1>5, <1>11, <1>12, ChildOrNil
  <2> QED BY <1>14, <2>1 DEF Even, Calm
<1>16. tree'.color[Nil] = "black" /\ tree'.color[tree'.root] # "red"
  BY <1>5, <1>10, <1>11, <1>12, <1>13 DEF IsTree, Fields
<1> QED BY <1>1, <1>14, <1>15, <1>16, Settled

\* The calls, and the colours.
LEMMA InsertColors ==
  ASSUME IsTree(tree), DescentsEnd, Coloured, NEW k \in Keys, Insert(k)
  PROVE  Coloured'
<1> DEFINE p == Last(tree, k)
           e == Dir(tree, k, p)
<1>1. PICK n \in Nodes \ live :
           /\ live' = live \cup {n} /\ check' = n /\ running' = "insert"
           /\ Fields(tree') /\ tree'.root = (IF p = Nil THEN n ELSE tree.root)
           /\ \A d \in Side : tree'.child[n][d] = Nil
           /\ tree'.color[n] = IF p = Nil THEN "black" ELSE "red"
           /\ \A a \in Addr \ {n} : tree'.color[a] = tree.color[a]
           /\ \A a \in Addr \ {n, p} : tree'.child[a] = tree.child[a]
           /\ p = Nil <=> tree.root = Nil
           /\ p # Nil => /\ p \in live /\ tree.child[p][e] = Nil /\ tree'.child[p][e] = n
                         /\ tree'.child[p][Other(e)] = tree.child[p][Other(e)]
           /\ e \in Side
  <2> HIDE DEF p, e
  <2>1. p = Last(tree, k) /\ e = Dir(tree, k, p)
    BY DEF p, e
  <2> QED BY <2>1, InsertSets
<1> HIDE DEF p, e
<1>2. /\ running = "idle" /\ Nil \notin live /\ live \subseteq Addr /\ Nil \in Addr /\ n \in Addr /\ n # Nil /\ n \notin live
      /\ \A a \in live, d \in Side : tree.child[a][d] \in live \cup {Nil}
      /\ tree.root \in live \cup {Nil} /\ (tree.root = Nil => live = {})
  <2>1. running = "idle"
    BY DEF Insert
  <2>2. Nil \notin live /\ live \subseteq Addr /\ Nil \in Addr /\ n \in Addr /\ n # Nil /\ n \notin live
    BY NodesAssumption DEF IsTree, Addr
  <2> QED BY <2>1, <2>2, Apart DEF IsTree, LinkedIn
<1>3. /\ Missing = {} /\ tree.color[Nil] = "black" /\ tree.color[tree.root] # "red"
      /\ \A a \in live : Calm(tree.child, tree.color, {}, a)
  BY <1>2 DEF Missing, Coloured
<1>4. PICK g : Weights(live, g) /\ \A a \in live : Even(tree.child, tree.color, g, {}, a)
  BY <1>3 DEF Coloured
<1>5. ASSUME NEW a \in live, NEW d \in Side
      PROVE  tree'.child[a][d] = tree.child[a][d] \/ (tree'.child[a][d] = n /\ tree.child[a][d] = Nil /\ p # Nil)
  <2>1. CASE a # p
    BY <1>1, <1>2, <2>1
  <2>2. CASE a = p
    BY <1>1, <1>2, <2>2, Sides
  <2> QED BY <2>1, <2>2
<1> DEFINE h == [a \in live \cup {n, Nil} |-> IF a = n THEN One(p = Nil) ELSE g[a]]
<1>6. /\ Weights(live \cup {n}, h) /\ h[n] = One(p = Nil) /\ \A a \in live \cup {Nil} : h[a] = g[a] /\ g[a] \in Nat
      /\ g[Nil] = 0
  BY <1>2, <1>4 DEF Weights, One
<1> HIDE DEF h
<1>7. ASSUME NEW a \in live PROVE Even(tree'.child, tree'.color, h, {}, a) /\ Calm(tree'.child, tree'.color, {n}, a)
  <2>1. tree'.color[a] = tree.color[a] /\ h[a] = g[a]
    BY <1>1, <1>2, <1>6
  <2>2. \A d \in Side : h[tree'.child[a][d]] = g[tree.child[a][d]]
    <3> SUFFICES ASSUME NEW d \in Side PROVE h[tree'.child[a][d]] = g[tree.child[a][d]]
      OBVIOUS
    <3>1. p # Nil => h[n] = 0
      BY <1>6 DEF One
    <3> QED BY <1>2, <1>5, <1>6, <3>1
  <2>3. \A d \in Side : tree'.child[a][d] = n \/ tree'.color[tree'.child[a][d]] = tree.color[tree.child[a][d]]
    BY <1>1, <1>2, <1>5
  <2>4. Even(tree.child, tree.color, g, {}, a) /\ Calm(tree.child, tree.color, {}, a)
    BY <1>3, <1>4
  <2>5. Even(tree'.child, tree'.color, h, {}, a)
    BY <2>1, <2>2, <2>4 DEF Even
  <2>6. Calm(tree'.child, tree'.color, {n}, a)
    BY <2>1, <2>3, <2>4 DEF Calm
  <2> QED BY <2>5, <2>6
<1>8. Even(tree'.child, tree'.color, h, {}, n) /\ Calm(tree'.child, tree'.color, {n}, n)
  <2>1. \A d \in Side : One(<<n, d>> \in {}) = 0
    BY DEF One
  <2>2. One(tree'.color[n] = "black") = One(p = Nil) /\ One(p = Nil) \in Nat
    BY <1>1 DEF One
  <2>3. One(p = Nil) = h[Nil] + 0 + One(tree'.color[n] = "black")
    BY <1>6, <2>2
  <2>4. Even(tree'.child, tree'.color, h, {}, n)
    BY <1>1, <1>6, <2>1, <2>3 DEF Even
  <2>5. tree'.color[Nil] = "black"
    BY <1>1, <1>2, <1>3
  <2> QED BY <1>1, <2>4, <2>5 DEF Calm
<1>9. tree'.color[Nil] = "black" /\ (tree'.color[tree'.root] = "red" => check' = tree'.root)
      /\ (check' # tree'.root => tree'.color[check'] = "red")
  BY <1>1, <1>2, <1>3
<1>10. Missing' = {}
  BY <1>1 DEF Missing
<1>11. (\E f : Weights(live, f) /\ \A a \in live : Even(tree.child, tree.color, f, Missing, a))'
  <2>1. \A a \in live' : Even(tree'.child, tree'.color, h, Missing', a)
    BY <1>1, <1>7, <1>8, <1>10
  <2>2. Weights(live', h)
    BY <1>1, <1>6, Zenon DEF Weights
  <2> QED BY <2>1, <2>2 DEF Weights, Even
<1>12. (\A a \in live : \/ running = "erase" /\ a = check
                        \/ Calm(tree.child, tree.color, IF running = "idle" THEN {} ELSE {check}, a))'
  BY <1>1, <1>7, <1>8 DEF Calm
<1> QED BY <1>1, <1>9, <1>11, <1>12 DEF Coloured

LEMMA EraseColors ==
  ASSUME IsTree(tree), DescentsEnd, Coloured, NEW p, Erase(p)
  PROVE  Coloured'
<1> DEFINE y == Unlinked(tree, p)
           r == Replacement(tree, y)
           up == tree.parent[y]
           s == SideOf(tree, y)
           black == tree.color[y] = "black"
<1>1. /\ live' = live \ {y}
      /\ running' = (IF black THEN "erase" ELSE "idle") /\ check' = (IF black THEN r ELSE Nil)
      /\ y \in live /\ up \in live \cup {Nil} /\ (up = Nil <=> y = tree.root) /\ up # y
      /\ r \in live \cup {Nil} /\ s \in Side
      /\ r # Nil => tree.parent[r] = y /\ r # y /\ r # up /\ r # tree.root
      /\ \A d \in Side : tree.child[y][d] \in {r, Nil}
      /\ \E d \in Side : tree.child[y][d] = r /\ tree.child[y][Other(d)] = Nil
      /\ up # Nil => tree.child[up][s] = y
      /\ tree'.root = (IF y = tree.root THEN r ELSE tree.root)
      /\ tree'.parent[r] = up
      /\ up # Nil => tree'.child[up][s] = r /\ tree'.child[up][Other(s)] = tree.child[up][Other(s)]
      /\ \A a \in Addr \ {y, up} : tree'.child[a] = tree.child[a]
      /\ \A a \in Addr \ {y} : tree'.color[a] = tree.color[a]
  <2> HIDE DEF y, r, up, s
  <2>1. y = Unlinked(tree, p) /\ r = Replacement(tree, y) /\ up = tree.parent[y] /\ s = SideOf(tree, y)
    BY DEF y, r, up, s
  <2> QED BY <2>1, EraseSets
<1> HIDE DEF y, r, up, s
<1>2. /\ running = "idle" /\ Nil \notin live /\ live \subseteq Addr /\ Nil \in Addr /\ y # Nil
      /\ \A a \in live, d \in Side : /\ tree.child[a][d] \in live \cup {Nil}
                                     /\ tree.child[a][d] # Nil => tree.parent[tree.child[a][d]] = a
                                                                  /\ tree.child[a][Other(d)] # tree.child[a][d]
      /\ tree.root \in live
  <2>1. running = "idle"
    BY DEF Erase
  <2>2. Nil \notin live /\ live \subseteq Addr /\ Nil \in Addr
    BY NodesAssumption DEF IsTree, Addr
  <2>3. tree.root \in live /\ y # Nil
    BY <1>1, <2>2 DEF IsTree, LinkedIn
  <2> QED BY <2>1, <2>2, <2>3, Apart
<1>3. /\ Missing = {} /\ tree.color[Nil] = "black" /\ tree.color[tree.root] # "red"
      /\ \A a \in live : Calm(tree.child, tree.color, {}, a)
  BY <1>2 DEF Missing, Coloured
<1>4. PICK g : Weights(live, g) /\ \A a \in live : Even(tree.child, tree.color, g, {}, a)
  BY <1>3 DEF Coloured
<1>5. g[Nil] = 0 /\ \A a \in live \cup {Nil} : g[a] \in Nat
  BY <1>4 DEF Weights
<1>6. g[r] = 0 /\ g[y] = One(black)
  <2>1. PICK d \in Side : tree.child[y][d] = r /\ tree.child[y][Other(d)] = Nil
    BY <1>1
  <2>2. Other(d) \in Side
    BY Sides
  <2>3. One(<<y, d>> \in {}) = 0 /\ One(<<y, Other(d)>> \in {}) = 0 /\ One(black) \in Nat
    BY DEF One
  <2>4. g[y] = g[r] + 0 + One(black) /\ g[y] = g[Nil] + 0 + One(black)
    BY <1>1, <1>4, <2>1, <2>2, <2>3 DEF Even
  <2>5. g[r] \in Nat /\ g[y] \in Nat
    BY <1>1, <1>5
  <2> HIDE DEF black
  <2> QED BY <1>5, <2>3, <2>4, <2>5
<1>7. ASSUME up # Nil
      PROVE  /\ up \in live /\ g[up] = g[y] + One(tree.color[up] = "black")
             /\ g[up] = g[tree.child[up][Other(s)]] + One(tree.color[up] = "black")
             /\ tree.child[up][Other(s)] \in live \cup {Nil} /\ tree.child[up][Other(s)] # y
  <2>1. up \in live /\ Other(s) \in Side /\ tree.child[up][s] = y
    BY <1>1, <1>7, Sides
  <2>2. One(<<up, s>> \in {}) = 0 /\ One(<<up, Other(s)>> \in {}) = 0 /\ One(tree.color[up] = "black") \in Nat
    BY DEF One
  <2>3. /\ g[up] = g[y] + 0 + One(tree.color[up] = "black")
        /\ g[up] = g[tree.child[up][Other(s)]] + 0 + One(tree.color[up] = "black")
    BY <1>1, <1>4, <2>1, <2>2 DEF Even
  <2>4. tree.child[up][Other(s)] \in live \cup {Nil} /\ tree.child[up][Other(s)] # y
    BY <1>1, <1>2, <2>1
  <2>5. g[y] \in Nat /\ g[tree.child[up][Other(s)]] \in Nat
    BY <1>1, <1>5, <2>4
  <2> DEFINE m == One(tree.color[up] = "black")
             o == g[tree.child[up][Other(s)]]
  <2>6. m \in Nat /\ o \in Nat /\ g[y] \in Nat /\ g[up] = g[y] + 0 + m /\ g[up] = o + 0 + m
    BY <2>2, <2>3, <2>5
  <2> HIDE DEF m, o
  <2>7. g[up] = g[y] + m /\ g[up] = o + m
    BY <2>6
  <2> QED BY <2>1, <2>4, <2>7 DEF m, o
<1>8. ASSUME black, up # Nil PROVE SideOf(tree', r) = s
  <2>1. tree.child[up][Other(s)] # r
    <3>1. CASE r # Nil
      BY <1>1, <1>2, <1>7, <1>8, <3>1, Sides
    <3>2. CASE r = Nil
      <4>1. g[y] = 1 /\ One(tree.color[up] = "black") \in Nat
        BY <1>6, <1>8 DEF One
      <4>2. g[tree.child[up][Other(s)]] \in Nat
        BY <1>5, <1>7, <1>8
      <4>3. /\ g[up] = 1 + One(tree.color[up] = "black")
            /\ g[up] = g[tree.child[up][Other(s)]] + One(tree.color[up] = "black")
        BY <1>7, <1>8, <4>1
      <4>4. g[tree.child[up][Other(s)]] # 0
        BY <4>1, <4>2, <4>3
      <4> QED BY <1>5, <3>2, <4>4
    <3> QED BY <3>1, <3>2
  <2>2. tree'.child[up][s] = r /\ tree'.child[up][Other(s)] # r /\ tree'.parent[r] = up
    BY <1>1, <1>8, <2>1
  <2> QED BY <1>1, <2>2 DEF SideOf, Side, Other
<1>9. Missing' = IF black /\ up # Nil THEN {<<up, s>>} ELSE {}
  <2>1. CASE ~black
    BY <1>1, <2>1 DEF Missing
  <2>2. CASE black /\ up = Nil
    BY <1>1, <2>2 DEF Missing
  <2>3. CASE black /\ up # Nil
    <3>1. check' = r /\ tree'.root = tree.root /\ r # tree.root /\ running' = "erase"
      BY <1>1, <1>2, <2>3
    <3>2. Parent' = up
      BY <1>1, <3>1 DEF Parent
    <3>3. SideOf(tree, check)' = s
      BY <1>8, <2>3, <3>1 DEF SideOf
    <3> QED BY <2>3, <3>1, <3>2, <3>3 DEF Missing
  <2> QED BY <2>1, <2>2, <2>3
<1> DEFINE h == [a \in live' \cup {Nil} |-> g[a]]
<1>10. Weights(live', h) /\ \A a \in live' \cup {Nil} : h[a] = g[a]
  BY <1>1, <1>2, <1>5 DEF Weights
<1>11. \A a \in live' : a \in live /\ a # y /\ a \in Addr /\ tree'.color[a] = tree.color[a] /\ h[a] = g[a]
  BY <1>1, <1>2, <1>10
<1> HIDE DEF h
<1>12. r \in live' \cup {Nil} /\ h[r] = 0 /\ tree'.color[r] = tree.color[r] /\ tree'.color[Nil] = "black"
  <2>1. r \in live' \cup {Nil} /\ r # y /\ r \in Addr
    BY <1>1, <1>2
  <2> QED BY <1>1, <1>2, <1>3, <1>6, <1>10, <2>1
<1>13. ASSUME NEW a \in live', NEW d \in Side, ~(a = up /\ d = s)
       PROVE  /\ tree'.child[a][d] = tree.child[a][d] /\ tree.child[a][d] \in live' \cup {Nil}
              /\ <<a, d>> \notin Missing'
  <2>1. tree'.child[a][d] = tree.child[a][d]
    <3>1. CASE a # up
      BY <1>1, <1>11, <3>1
    <3>2. CASE a = up
      <4>1. d = Other(s) /\ up # Nil
        BY <1>1, <1>2, <1>11, <1>13, <3>2, Sides
      <4> QED BY <1>1, <3>2, <4>1
    <3> QED BY <3>1, <3>2
  <2>2. tree.child[a][d] # y
    <3>1. CASE a # up
      <4>1. tree.child[a][d] # Nil => tree.parent[tree.child[a][d]] = a
        BY <1>2, <1>11
      <4>2. up = tree.parent[y]
        BY DEF up
      <4> QED BY <1>2, <3>1, <4>1, <4>2
    <3>2. CASE a = up
      <4>1. d = Other(s) /\ up # Nil
        BY <1>1, <1>2, <1>11, <1>13, <3>2, Sides
      <4> QED BY <1>7, <3>2, <4>1
    <3> QED BY <3>1, <3>2
  <2>3. tree.child[a][d] \in live' \cup {Nil}
    BY <1>1, <1>2, <1>11, <2>2
  <2>4. <<a, d>> \notin Missing'
    BY <1>9, <1>13
  <2> QED BY <2>1, <2>3, <2>4
<1>14. ASSUME NEW a \in live', NEW d \in Side
       PROVE  h[a] = h[tree'.child[a][d]] + One(<<a, d>> \in Missing') + One(tree'.color[a] = "black")
  <2>1. CASE ~(a = up /\ d = s)
    <3>1. g[a] = g[tree.child[a][d]] + One(<<a, d>> \in {}) + One(tree.color[a] = "black")
      BY <1>4, <1>11 DEF Even
    <3>2. One(<<a, d>> \in Missing') = One(<<a, d>> \in {})
      BY <1>13, <2>1 DEF One
    <3>3. h[tree'.child[a][d]] = g[tree.child[a][d]]
      BY <1>10, <1>13, <2>1
    <3> QED BY <1>11, <3>1, <3>2, <3>3
  <2>2. CASE a = up /\ d = s
    <3>1. up # Nil
      BY <1>2, <1>11, <2>2
    <3>2. tree'.child[a][d] = r /\ h[a] = g[up]
      BY <1>1, <1>11, <2>2, <3>1
    <3>3. One(<<a, d>> \in Missing') = One(black)
      BY <1>9, <2>2, <3>1 DEF One
    <3>4. g[up] = One(black) + One(tree'.color[a] = "black")
      BY <1>6, <1>7, <1>11, <2>2, <3>1
    <3>5. One(black) \in Nat /\ One(tree'.color[a] = "black") \in Nat
      BY DEF One
    <3> DEFINE m == One(black)
               n == One(tree'.color[a] = "black")
    <3>6. m \in Nat /\ n \in Nat /\ h[a] = m + n /\ h[tree'.child[a][d]] = 0 /\ One(<<a, d>> \in Missing') = m
      BY <1>12, <3>2, <3>3, <3>4, <3>5
    <3> HIDE DEF m, n
    <3>7. h[a] = 0 + m + n
      BY <3>6
    <3> QED BY <3>6, <3>7 DEF n
  <2> QED BY <2>1, <2>2
<1>15. ASSUME NEW a \in live'
       PROVE  Calm(tree'.child, tree'.color, IF running' = "idle" THEN {} ELSE {check'}, a)
  <2>1. Calm(tree.child, tree.color, {}, a) /\ tree'.color[a] = tree.color[a]
    BY <1>3, <1>11
  <2>2. ASSUME NEW d \in Side, tree.color[a] = "red"
        PROVE  \/ tree'.color[tree'.child[a][d]] = "black"
               \/ tree'.child[a][d] \in IF running' = "idle" THEN {} ELSE {check'}
    <3>1. CASE ~(a = up /\ d = s)
      <4>1. tree.color[tree.child[a][d]] = "black"
        BY <2>1, <2>2 DEF Calm
      <4>2. tree'.child[a][d] = tree.child[a][d] /\ tree.child[a][d] \in live' \cup {Nil}
        BY <1>13, <3>1
      <4> DEFINE c == tree.child[a][d]
      <4>3. c \in Addr \ {y}
        <5> HIDE DEF c
        <5>1. c \in live' \cup {Nil}
          BY <4>2 DEF c
        <5> QED BY <1>2, <1>11, <5>1
      <4>4. tree'.color[c] = tree.color[c]
        <5> HIDE DEF c
        <5> QED BY <1>1, <4>3
      <4> QED BY <4>1, <4>2, <4>4
    <3>2. CASE a = up /\ d = s
      <4>1. tree'.child[a][d] = r
        BY <1>1, <1>2, <1>11, <3>2
      <4>2. CASE black
        BY <1>1, <4>1, <4>2
      <4>3. CASE ~black
        <5>1. tree.color[y] = "red" /\ Calm(tree.child, tree.color, {}, y)
          BY <1>1, <1>2, <1>3, <4>3 DEF IsTree, Fields
        <5>2. tree.color[r] = "black"
          BY <1>1, <5>1 DEF Calm
        <5> QED BY <1>12, <4>1, <5>2
      <4> QED BY <4>2, <4>3
    <3> QED BY <3>1, <3>2
  <2> QED BY <2>1, <2>2 DEF Calm
<1>16. /\ tree'.color[tree'.root] = "red" => running' # "idle" /\ check' = tree'.root
       /\ running' # "insert"
       /\ running' = "erase" /\ check' # tree'.root => Parent' \in live' /\ tree'.child[Parent'][SideOf(tree', check')] = check'
  <2>1. tree'.color[tree'.root] = "red" => running' # "idle" /\ check' = tree'.root
    <3>1. CASE y = tree.root
      <4>1. black
        BY <1>1, <1>2, <1>3, <3>1 DEF IsTree, Fields
      <4> QED BY <1>1, <3>1, <4>1
    <3>2. CASE y # tree.root
      BY <1>1, <1>2, <1>3, <3>2
    <3> QED BY <3>1, <3>2
  <2>2. ASSUME running' = "erase", check' # tree'.root
        PROVE  Parent' \in live' /\ tree'.child[Parent'][SideOf(tree', check')] = check'
    <3>1. black /\ up # Nil /\ check' = r
      BY <1>1, <2>2
    <3>2. Parent' = up
      BY <1>1, <3>1 DEF Parent
    <3> QED BY <1>1, <1>8, <3>1, <3>2
  <2> QED BY <1>1, <2>1, <2>2
<1>17. (\E f : Weights(live, f) /\ \A a \in live : Even(tree.child, tree.color, f, Missing, a))'
  <2>1. \A a \in live' : Even(tree'.child, tree'.color, h, Missing', a)
    BY <1>14 DEF Even
  <2> QED BY <1>10, <2>1 DEF Weights, Even
<1>18. (\A a \in live : \/ running = "erase" /\ a = check
                        \/ Calm(tree.child, tree.color, IF running = "idle" THEN {} ELSE {check}, a))'
  BY <1>15 DEF Calm
<1> QED BY <1>12, <1>16, <1>17, <1>18 DEF Coloured, SideOf

\* The check's node counts for one black node more.
Extra(a) == One(running = "erase" /\ a = check)

\* The walk of BlackHeight comes to the weights.
LEMMA HeightIsWeight ==
  ASSUME IsTree(tree), Coloured, tree.root # Nil, NEW sub, Spans(tree, live, sub)
  PROVE  BlackHeight # Unequal
<1> DEFINE N == Cardinality(Nodes)
           Leaf(b, d) == IF running = "erase" /\ check = Nil /\ tree.parent[Nil] = b /\ SideOf(tree, Nil) = d
                         THEN 1 ELSE 0
           Both(l, r, b) == IF l = r /\ l # Unequal THEN l + Blacks(b) ELSE Unequal
           Bottom(b, d) == IF tree.child[b][d] = Nil THEN Leaf(b, d) ELSE Unequal
           Below(above, b, d) == IF tree.child[b][d] = Nil THEN Leaf(b, d)
                                 ELSE IF tree.child[b][d] \notin live THEN Unequal ELSE above[tree.child[b][d]]
           Row(above) == [b \in live |-> Both(Below(above, b, "left"), Below(above, b, "right"), b)]
           First == [b \in live |-> Both(Bottom(b, "left"), Bottom(b, "right"), b)]
           Step(g) == [depth \in 0..N |->
             [b \in live |->
                LET Under1(d) == IF tree.child[b][d] = Nil THEN Leaf(b, d)
                                 ELSE IF depth = 0 \/ tree.child[b][d] \notin live THEN Unequal
                                 ELSE g[depth - 1][tree.child[b][d]]
                IN  IF Under1("left") = Under1("right") /\ Under1("left") # Unequal
                    THEN Under1("left") + Blacks(b) ELSE Unequal]]
           Height == CHOOSE g : g = Step(g)
<1>1. N \in Nat
  BY NodesAssumption, FS_CardinalityType
<1>2. BlackHeight = Height[N][tree.root]
  BY DEF BlackHeight
<1>3. \A b \in live : Blacks(b) \in Nat /\ Blacks(b) = One(tree.color[b] = "black") + Extra(b)
  BY DEF Blacks, One, Extra
<1>4. Height = Step(Height)
  <2> DEFINE Rows == [live -> Int]
             step == [above \in Rows |-> Row(above)]
  <2>1. First \in Rows /\ step \in [Rows -> Rows]
    <3>1. \A b \in live, d \in Side : Bottom(b, d) \in Int
      BY DEF Unequal
    <3>2. ASSUME NEW l \in Int, NEW r \in Int, NEW b \in live PROVE Both(l, r, b) \in Int
      BY <1>3 DEF Unequal
    <3>3. "left" \in Side /\ "right" \in Side
      BY DEF Side
    <3>4. First \in Rows
      <4> HIDE DEF Bottom, Both
      <4> QED BY <3>1, <3>2, <3>3
    <3>5. ASSUME NEW above \in Rows PROVE Row(above) \in Rows
      <4>1. \A b \in live, d \in Side : Below(above, b, d) \in Int
        BY DEF Unequal
      <4> HIDE DEF Below, Both
      <4> QED BY <3>2, <3>3, <4>1
    <3> HIDE DEF Row, Rows, First
    <3> QED BY <3>4, <3>5
  <2>2. PICK f \in [0..N -> Rows] : f = [n \in 0..N |-> IF n = 0 THEN First ELSE step[f[n-1]]]
    <3>1. \E f \in [0..N -> Rows] : Iterated(f, First, step, N)
      <4> HIDE DEF Rows, First, step, N
      <4> QED BY <1>1, <2>1, Iterates
    <3> QED BY <3>1 DEF Iterated
  <2>3. ASSUME NEW n \in 0..N PROVE f[n] = Step(f)[n]
    <3>1. CASE n = 0
      <4>1. f[n] = First
        BY <2>2, <3>1
      <4>2. First = Step(f)[n]
        BY <3>1
      <4> QED BY <4>1, <4>2
    <3>2. CASE n # 0
      <4>1. n - 1 \in 0..N
        BY <1>1, <3>2
      <4>2. f[n - 1] \in Rows
        <5> HIDE DEF Rows
        <5> QED BY <4>1
      <4>3. f[n] = step[f[n - 1]]
        BY <2>2, <3>2
      <4>4. f[n] = Row(f[n - 1])
        <5> HIDE DEF Row, Rows
        <5> QED BY <4>2, <4>3
      <4>5. Row(f[n - 1]) = Step(f)[n]
        BY <3>2
      <4> QED BY <4>4, <4>5
    <3> QED BY <3>1, <3>2
  <2>4. f = Step(f)
    <3>1. f = [n \in 0..N |-> f[n]] /\ Step(f) = [n \in 0..N |-> Step(f)[n]]
      <4> HIDE DEF Rows
      <4> QED OBVIOUS
    <3> HIDE DEF Step
    <3> QED BY <2>3, <3>1
  <2> HIDE DEF Step
  <2> QED BY <2>4
<1>5. ASSUME NEW n \in 0..N, NEW b \in live
      PROVE  Height[n][b] = IF n = 0 THEN Both(Bottom(b, "left"), Bottom(b, "right"), b)
                            ELSE Both(Below(Height[n - 1], b, "left"), Below(Height[n - 1], b, "right"), b)
  <2> HIDE DEF Height
  <2>1. Height[n] = Step(Height)[n]
    <3> HIDE DEF Step
    <3> QED BY <1>4
  <2>2. CASE n = 0
    BY <2>1, <2>2
  <2>3. CASE n # 0
    BY <2>1, <2>3
  <2> QED BY <2>2, <2>3
<1> HIDE DEF Height, N
<1>6. PICK g : Weights(live, g) /\ \A a \in live : Even(tree.child, tree.color, g, Missing, a)
  BY DEF Coloured
<1> DEFINE size == Size(sub)
           Far(n) == n <= N => \A a \in live : size[a] <= n + 1 => Height[n][a] = g[a] + Extra(a)
           Done == {n \in Nat : Far(n)}
<1>7. /\ size \in [live \cup {Nil} -> Nat]
      /\ \A a \in live : /\ size[a] <= N
                         /\ \A d \in Side : tree.child[a][d] \in live \cup {Nil} /\ size[tree.child[a][d]] < size[a]
  BY Sizes DEF N
<1>8. /\ Nil \notin live /\ tree.root \in live /\ g[Nil] = 0 /\ \A a \in live \cup {Nil} : g[a] \in Nat
      /\ \A a \in live, d \in Side :
           tree.child[a][d] # Nil => /\ tree.child[a][d] \in live \ {tree.root} /\ tree.parent[tree.child[a][d]] = a
                                     /\ tree.child[a][Other(d)] # tree.child[a][d]
  BY <1>6, Apart DEF IsTree, LinkedIn, Weights
<1>9. running = "erase" /\ check # tree.root => Parent \in live /\ tree.child[Parent][SideOf(tree, check)] = check
  BY DEF Coloured
<1> HIDE DEF size
\* What is below a node on a side, with what is missing there.
<1>10. ASSUME NEW a \in live, NEW d \in Side, tree.child[a][d] = Nil PROVE Leaf(a, d) = One(<<a, d>> \in Missing)
  <2>1. CASE running = "erase" /\ check = Nil
    <3>1. Missing = {<<tree.parent[Nil], SideOf(tree, Nil)>>}
      BY <1>8, <2>1 DEF Missing, Parent
    <3> QED BY <2>1, <3>1 DEF One
  <2>2. CASE ~(running = "erase" /\ check = Nil)
    <3>1. <<a, d>> \notin Missing
      BY <1>9, <1>10, <2>2 DEF Missing
    <3> QED BY <2>2, <3>1 DEF One
  <2> QED BY <2>1, <2>2
<1>11. ASSUME NEW a \in live, NEW d \in Side, tree.child[a][d] # Nil
       PROVE  Extra(tree.child[a][d]) = One(<<a, d>> \in Missing)
  <2>1. SUFFICES (running = "erase" /\ tree.child[a][d] = check) <=> <<a, d>> \in Missing
    BY DEF Extra, One
  <2>2. ASSUME running = "erase", tree.child[a][d] = check PROVE <<a, d>> \in Missing
    <3>1. check # tree.root /\ Parent = a
      BY <1>8, <1>11, <2>2 DEF Parent
    <3>2. d = SideOf(tree, check)
      BY <1>8, <1>9, <1>11, <2>2, <3>1, Sides, SideOfIsSide
    <3> QED BY <2>2, <3>1, <3>2 DEF Missing
  <2>3. ASSUME <<a, d>> \in Missing PROVE running = "erase" /\ tree.child[a][d] = check
    BY <1>9, <2>3 DEF Missing
  <2> QED BY <2>2, <2>3
<1> HIDE DEF Leaf
<1>12. ASSUME NEW n \in Nat, n <= N, NEW a \in live, size[a] <= n + 1,
              n # 0 => \A c \in live : size[c] <= n => Height[n - 1][c] = g[c] + Extra(c)
       PROVE  Height[n][a] = g[a] + Extra(a)
  <2>1. \A d \in Side : /\ tree.child[a][d] \in live \cup {Nil} /\ size[tree.child[a][d]] \in Nat
                        /\ size[tree.child[a][d]] <= n /\ g[tree.child[a][d]] \in Nat
    BY <1>7, <1>8, <1>12
  <2>2. n \in 0..N /\ "left" \in Side /\ "right" \in Side
    BY <1>1, <1>12 DEF Side
  <2>3. \A d \in Side : One(<<a, d>> \in Missing) \in Nat /\ One(tree.color[a] = "black") \in Nat /\ Extra(a) \in Nat
    BY DEF One, Extra
  <2>4. \A d \in Side : g[a] = g[tree.child[a][d]] + One(<<a, d>> \in Missing) + One(tree.color[a] = "black")
    BY <1>6 DEF Even
  <2>5. PICK l, r : /\ Height[n][a] = Both(l, r, a)
                    /\ l = g[tree.child[a]["left"]] + One(<<a, "left">> \in Missing)
                    /\ r = g[tree.child[a]["right"]] + One(<<a, "right">> \in Missing)
    <3>1. CASE n = 0
      <4>1. \A d \in Side : tree.child[a][d] = Nil
        <5> SUFFICES ASSUME NEW d \in Side, tree.child[a][d] # Nil PROVE FALSE
          OBVIOUS
        <5> DEFINE c == tree.child[a][d]
        <5>1. c \in live /\ size[c] = 0
          BY <2>1, <3>1
        <5>2. tree.child[c]["left"] \in live \cup {Nil} /\ size[tree.child[c]["left"]] < size[c]
          <6> HIDE DEF c
          <6> QED BY <1>7, <2>2, <5>1
        <5> HIDE DEF c
        <5>3. size[tree.child[c]["left"]] \in Nat
          BY <1>7, <5>2
        <5> QED BY <5>1, <5>2, <5>3
      <4>2. \A d \in Side : Bottom(a, d) = g[tree.child[a][d]] + One(<<a, d>> \in Missing)
        BY <1>8, <1>10, <2>3, <4>1
      <4>3. Height[n][a] = Both(Bottom(a, "left"), Bottom(a, "right"), a)
        <5> HIDE DEF Both, Bottom
        <5> QED BY <1>5, <2>2, <3>1
      <4> HIDE DEF Both, Bottom
      <4> QED BY <2>2, <4>2, <4>3
    <3>2. CASE n # 0
      <4>1. ASSUME NEW d \in Side
            PROVE  Below(Height[n - 1], a, d) = g[tree.child[a][d]] + One(<<a, d>> \in Missing)
        <5>1. CASE tree.child[a][d] = Nil
          BY <1>8, <1>10, <2>3, <5>1
        <5>2. CASE tree.child[a][d] # Nil
          <6>1. tree.child[a][d] \in live /\ Height[n - 1][tree.child[a][d]] = g[tree.child[a][d]] + Extra(tree.child[a][d])
            BY <1>12, <2>1, <3>2, <5>2
          <6> QED BY <1>11, <5>2, <6>1
        <5> QED BY <5>1, <5>2
      <4>2. Height[n][a] = Both(Below(Height[n - 1], a, "left"), Below(Height[n - 1], a, "right"), a)
        <5> HIDE DEF Both, Below
        <5> QED BY <1>5, <2>2, <3>2
      <4> HIDE DEF Both, Below
      <4> QED BY <2>2, <4>1, <4>2
    <3> QED BY <3>1, <3>2
  <2> DEFINE m == One(tree.color[a] = "black")
  <2>6. l \in Nat /\ r \in Nat /\ g[a] = l + m /\ g[a] = r + m /\ m \in Nat /\ Extra(a) \in Nat /\ Blacks(a) = m + Extra(a)
    <3>1. l \in Nat /\ r \in Nat
      BY <2>1, <2>2, <2>3, <2>5
    <3> QED BY <1>3, <2>2, <2>3, <2>4, <2>5, <3>1
  <2> HIDE DEF m
  <2>7. l = r /\ l # Unequal /\ l + Blacks(a) = g[a] + Extra(a)
    BY <2>6 DEF Unequal
  <2> QED BY <2>5, <2>7
<1> HIDE DEF Both, Below, Bottom
<1>13. Far(0)
  BY <1>1, <1>12
<1>14. ASSUME NEW n \in Nat, Far(n) PROVE Far(n + 1)
  <2> SUFFICES ASSUME n + 1 <= N, NEW a \in live, size[a] <= (n + 1) + 1
               PROVE  Height[n + 1][a] = g[a] + Extra(a)
    OBVIOUS
  <2>1. (n + 1) - 1 = n /\ n <= N /\ n + 1 \in Nat
    BY <1>1
  <2>2. \A c \in live : size[c] <= n + 1 => Height[(n + 1) - 1][c] = g[c] + Extra(c)
    BY <1>14, <2>1
  <2> QED BY <1>12, <2>1, <2>2
<1> HIDE DEF Far
<1>15. Nat \subseteq Done
  <2>1. 0 \in Done /\ \A n \in Nat \cap Done : n + 1 \in Done
    BY <1>13, <1>14
  <2> HIDE DEF Done
  <2> QED BY <2>1, Counting
<1>16. Far(N)
  BY <1>1, <1>15
<1>17. size[tree.root] <= N + 1
  BY <1>1, <1>7, <1>8
<1>18. Height[N][tree.root] = g[tree.root] + Extra(tree.root)
  BY <1>1, <1>8, <1>16, <1>17 DEF Far
<1>19. g[tree.root] \in Nat /\ Extra(tree.root) \in Nat
  BY <1>8 DEF Extra, One
<1> QED BY <1>2, <1>18, <1>19 DEF Unequal

\* Between two nodes of which one is above the other, only the check's can be red with the other.
LEMMA CalmIsNoRedRed ==
  ASSUME IsTree(tree), Coloured, running \in {"idle", "insert", "erase"}
  PROVE  NoRedRed
<1>1. ASSUME NEW a \in live \ {tree.root}, tree.color[a] = "red", tree.color[tree.parent[a]] = "red" PROVE Excused(a)
  <2> DEFINE b == tree.parent[a]
             d == SideOf(tree, a)
  <2>1. b \in live /\ d \in Side /\ tree.child[b][d] = a
    BY Apart
  <2>2. \/ running = "erase" /\ b = check
        \/ Calm(tree.child, tree.color, IF running = "idle" THEN {} ELSE {check}, b)
    BY <2>1 DEF Coloured
  <2>3. CASE running = "erase" /\ b = check
    BY <2>3 DEF Excused
  <2>4. CASE Calm(tree.child, tree.color, IF running = "idle" THEN {} ELSE {check}, b)
    <3>1. a \in IF running = "idle" THEN {} ELSE {check}
      BY <1>1, <2>1, <2>4 DEF Calm
    <3> QED BY <3>1 DEF Excused
  <2> QED BY <2>2, <2>3, <2>4
<1> QED BY <1>1 DEF NoRedRed, Coloured

-----------------------------------------------------------------------------
\* The order of the keys.

InOrder(t) == \E sub : Spans(t, live, sub) /\ Ordered(t, live, sub)

\* A tree in the middle of an activation: linked and in order, each node with its key.
Sound(t) == IsTree(t) /\ InOrder(t) /\ t.key = tree.key

LEMMA PaintSound ==
  ASSUME NEW t, Sound(t), NEW a \in Addr, NEW c \in {"red", "black"}
  PROVE  Sound(Paint(t, a, c))
<1> DEFINE s == Paint(t, a, c)
<1>1. IsTree(s) /\ s.root = t.root /\ s.child = t.child
  BY PaintKeepsTree DEF Sound
<1>2. s.key = t.key
  BY PaintColors DEF Sound
<1> HIDE DEF s
<1>3. InOrder(s)
  BY <1>1, <1>2 DEF Sound, InOrder, Spans, Ordered
<1> QED BY <1>1, <1>2, <1>3 DEF Sound, s

LEMMA RotateSound ==
  ASSUME NEW t, Sound(t), NEW z \in live, NEW d \in Side
  PROVE  Sound(Rotate(t, z, d))
<1>1. IsTree(t) /\ InOrder(t) /\ t.key = tree.key
  BY DEF Sound
<1>2. CASE t.child[z][Other(d)] = Nil
  <2>1. Rotate(t, z, d) = t
    BY <1>2 DEF Rotate
  <2> QED BY <2>1
<1>3. CASE t.child[z][Other(d)] # Nil
  <2>1. IsTree(Rotate(t, z, d))
    BY <1>1, RotateKeepsTree
  <2>2. Rotate(t, z, d).key = t.key
    BY <1>1, <1>3, RotateKeeps
  <2>3. InOrder(Rotate(t, z, d))
    BY <1>1, <1>3, RotateSpans DEF InOrder
  <2> QED BY <1>1, <2>1, <2>2, <2>3 DEF Sound
<1> QED BY <1>2, <1>3

\* What an activation writes.
Writes(s) == live' = live /\ tree'.root = s.root /\ tree'.child = s.child /\ tree'.key = s.key

LEMMA WritesSound ==
  ASSUME NEW s, Sound(s), Writes(s)
  PROVE  InOrder(tree)' /\ tree'.key = tree.key
BY DEF Sound, Writes, InOrder, Spans, Ordered, Side

LEMMA InsertSound ==
  ASSUME CheckInv, InOrder(tree), InsertAtRoot \/ InsertUnderBlack \/ InsertRecolor \/ InsertRotate
  PROVE  \E s : Sound(s) /\ Writes(s)
<1>1. Sound(tree) /\ check \in live /\ live' = live /\ live \subseteq Addr
  BY DEF CheckInv, Sound, IsTree, Addr, InsertAtRoot, InsertUnderBlack, InsertRecolor, InsertRotate, RedRed, Return
<1>2. ASSUME NEW s, Sound(s), tree' = s PROVE \E q : Sound(q) /\ Writes(q)
  BY <1>1, <1>2 DEF Writes
<1>3. CASE InsertAtRoot
  <2>1. Sound(Paint(tree, check, "black"))
    BY <1>1, PaintSound
  <2> QED BY <1>2, <1>3, <2>1 DEF InsertAtRoot, Return
<1>4. CASE InsertUnderBlack
  BY <1>1, <1>2, <1>4 DEF InsertUnderBlack, Return
<1>5. ASSUME RedRed PROVE Parent \in live /\ Grand \in live /\ Uncle \in live \cup {Nil}
  <2>1. IsTree(tree)
    BY DEF CheckInv
  <2>2. Parent \in live /\ tree.color[Parent] = "red" /\ check # tree.root
    BY <1>1, <1>5 DEF RedRed, Parent, CheckInv, IsTree, LinkedIn
  <2>3. Parent # tree.root
    BY <1>5, <2>2 DEF RedRed, CheckInv
  <2>4. Grand \in live
    BY <2>1, <2>2, <2>3 DEF Grand, IsTree, LinkedIn
  <2>5. Other(SideOf(tree, Parent)) \in Side
    BY SideOfIsSide, Sides
  <2>6. Uncle \in live \cup {Nil}
    BY <2>1, <2>4, <2>5, ChildOrNil DEF Uncle
  <2> QED BY <2>2, <2>4, <2>6
<1>6. CASE InsertRecolor
  <2> DEFINE t1 == Paint(tree, Parent, "black")
             t2 == Paint(t1, Uncle, "black")
             t3 == Paint(t2, Grand, "red")
  <2>1. tree' = t3 /\ Grand \in Addr /\ Parent \in Addr /\ Uncle \in Addr
    BY <1>1, <1>5, <1>6 DEF InsertRecolor, Addr
  <2>2. Sound(t1)
    BY <1>1, <2>1, PaintSound
  <2>3. Sound(t2)
    <3> HIDE DEF t1
    <3> QED BY <2>1, <2>2, PaintSound
  <2>4. Sound(t3)
    <3> HIDE DEF t2
    <3> QED BY <2>1, <2>3, PaintSound
  <2> HIDE DEF t3
  <2> QED BY <1>2, <2>1, <2>4
<1>7. CASE InsertRotate
  <2> DEFINE d == SideOf(tree, Parent)
             t == Paint(tree, Grand, "red")
             outer == Paint(t, Parent, "black")
             paint == Paint(t, check, "black")
             inner == Rotate(paint, Parent, d)
  <2>1. Parent \in live /\ Grand \in live /\ d \in Side /\ Other(d) \in Side
    BY <1>5, <1>7, SideOfIsSide, Sides DEF InsertRotate
  <2>2. tree' = Rotate(outer, Grand, Other(d)) \/ tree' = Rotate(inner, Grand, Other(d))
    BY <1>7 DEF InsertRotate, Return
  <2> HIDE DEF d
  <2>3. Sound(t)
    BY <1>1, <2>1, PaintSound
  <2> HIDE DEF t
  <2>4. Sound(outer) /\ Sound(paint)
    BY <1>1, <2>1, <2>3, PaintSound
  <2> HIDE DEF paint
  <2>5. Sound(inner)
    BY <2>1, <2>4, RotateSound
  <2> HIDE DEF outer, inner
  <2>6. Sound(Rotate(outer, Grand, Other(d))) /\ Sound(Rotate(inner, Grand, Other(d)))
    BY <2>1, <2>4, <2>5, RotateSound
  <2>7. CASE tree' = Rotate(outer, Grand, Other(d))
    BY <1>2, <2>6, <2>7
  <2>8. CASE tree' = Rotate(inner, Grand, Other(d))
    BY <1>2, <2>6, <2>8
  <2> QED BY <2>2, <2>7, <2>8
<1> QED BY <1>3, <1>4, <1>6, <1>7

LEMMA BrotherSound ==
  ASSUME Sound(tree), Parent \in live, NEW d \in Side
  PROVE  Sound(BlackBrother(d))
<1> DEFINE bro == tree.child[Parent][Other(d)]
           t1 == Paint(tree, bro, "black")
           t2 == Paint(t1, Parent, "red")
<1>1. IsTree(tree) /\ live \subseteq Addr /\ Nil \in Addr
  BY DEF Sound, IsTree, Addr
<1>2. bro \in Addr /\ Parent \in Addr
  BY <1>1, ChildOrNil, Sides
<1>3. BlackBrother(d) = IF tree.color[bro] = "black" THEN tree ELSE Rotate(t2, Parent, d)
  BY DEF BlackBrother
<1> HIDE DEF bro
<1>4. Sound(t1)
  BY <1>2, PaintSound
<1> HIDE DEF t1
<1>5. Sound(t2)
  BY <1>2, <1>4, PaintSound
<1> HIDE DEF t2
<1>6. Sound(Rotate(t2, Parent, d))
  BY <1>5, RotateSound
<1> QED BY <1>3, <1>6

LEMMA FarSound ==
  ASSUME NEW t, Sound(t), NEW bro \in live, NEW d \in Side
  PROVE  Sound(FarRed(t, bro, d))
<1> DEFINE near == t.child[bro][d]
           t1 == Paint(t, near, "black")
           t2 == Paint(t1, bro, "red")
<1>1. IsTree(t) /\ live \subseteq Addr /\ Nil \in Addr /\ Other(d) \in Side
  BY Sides DEF Sound, IsTree, Addr
<1>2. near \in Addr /\ bro \in Addr
  BY <1>1, ChildOrNil
<1>3. FarRed(t, bro, d) = t \/ FarRed(t, bro, d) = Rotate(t2, bro, Other(d))
  BY DEF FarRed
<1> HIDE DEF near
<1>4. Sound(t1)
  BY <1>2, PaintSound
<1> HIDE DEF t1
<1>5. Sound(t2)
  BY <1>2, <1>4, PaintSound
<1> HIDE DEF t2
<1>6. Sound(Rotate(t2, bro, Other(d)))
  BY <1>1, <1>5, RotateSound
<1> QED BY <1>3, <1>6

LEMMA EraseSound ==
  ASSUME CheckInv, InOrder(tree), Coloured, check \in Addr, EraseAtRootOrRed \/ EraseClimb \/ EraseRotate
  PROVE  \E s : Sound(s) /\ Writes(s)
<1>1. Sound(tree) /\ live' = live /\ live \subseteq Addr /\ Nil \in Addr
  BY DEF CheckInv, Sound, IsTree, Addr, EraseAtRootOrRed, EraseClimb, EraseRotate, Return
<1>2. CASE EraseAtRootOrRed
  <2>1. tree' = Paint(tree, check, "black")
    BY <1>2 DEF EraseAtRootOrRed, Return
  <2>2. Sound(Paint(tree, check, "black"))
    BY <1>1, PaintSound
  <2> QED BY <1>1, <2>1, <2>2 DEF Writes
<1> DEFINE P == Parent
           d == SideOf(tree, check)
           t == BlackBrother(d)
           bro == t.child[P][Other(d)]
<1>3. ASSUME DoubleBlack PROVE Short(t, d) /\ Sound(t)
  <2> HIDE DEF t
  <2>1. Short(BlackBrother(d), d)
    BY <1>3, BrotherColors
  <2>2. Parent \in live /\ d \in Side
    BY <2>1 DEF Short
  <2>3. Sound(BlackBrother(d))
    <3> HIDE DEF d
    <3> QED BY <1>1, <2>2, BrotherSound
  <2> QED BY <2>1, <2>3 DEF t
<1>4. CASE EraseClimb
  <2>1. DoubleBlack /\ tree' = Paint(t, bro, "red")
    BY <1>4 DEF EraseClimb
  <2> HIDE DEF t, d
  <2>2. bro \in live
    BY <1>3, <2>1 DEF Short
  <2> HIDE DEF bro
  <2>3. Sound(Paint(t, bro, "red"))
    BY <1>1, <1>3, <2>1, <2>2, PaintSound
  <2> QED BY <1>1, <2>1, <2>3 DEF Writes
<1>5. CASE EraseRotate
  <2> DEFINE t3 == FarRed(t, bro, d)
             x == t3.child[P][Other(d)]
             far == t3.child[x][Other(d)]
             c == t3.color[P]
             p1 == Paint(t3, x, c)
             p2 == Paint(p1, P, "black")
             u == Paint(p2, far, "black")
             r == Rotate(u, P, d)
             q == Paint(r, check, "black")
  <2>1. /\ DoubleBlack /\ tree' = [q EXCEPT !.parent[Nil] = Nil]
        /\ \E e \in Side : t.color[t.child[bro][e]] = "red"
    BY <1>5 DEF EraseRotate, Return
  <2> HIDE DEF t
  <2>2. Short(t, d) /\ Sound(t) /\ bro \in live /\ d \in Side
    BY <1>3, <2>1 DEF Short
  <2>3. RedNephew(t, d, bro)
    BY <2>1 DEF RedNephew
  <2> HIDE DEF d, bro
  <2>4. Short(t3, d) /\ Sound(t3)
    BY <2>2, <2>3, FarColors, FarSound
  <2> HIDE DEF t3
  <2>5. /\ IsTree(t3) /\ P \in live /\ x \in live /\ c \in {"red", "black"}
    BY <1>1, <2>4 DEF Short, IsTree, Fields
  <2> HIDE DEF c, P, x
  <2>6. far \in live \cup {Nil}
    BY <2>2, <2>5, ChildOrNil, Sides
  <2>7. P \in Addr /\ x \in Addr /\ far \in Addr
    BY <1>1, <2>5, <2>6
  <2> HIDE DEF far
  <2>8. Sound(p1)
    BY <2>4, <2>5, <2>7, PaintSound
  <2> HIDE DEF p1
  <2>9. Sound(p2)
    BY <2>7, <2>8, PaintSound
  <2> HIDE DEF p2
  <2>10. Sound(u)
    BY <2>7, <2>9, PaintSound
  <2> HIDE DEF u
  <2>11. Sound(r)
    BY <2>2, <2>5, <2>10, RotateSound
  <2> HIDE DEF r
  <2>12. Sound(q)
    BY <2>11, PaintSound
  <2> HIDE DEF q
  <2>13. tree'.root = q.root /\ tree'.child = q.child /\ tree'.key = q.key
    BY <2>1, <2>12 DEF Sound, IsTree, Fields
  <2> QED BY <1>1, <2>12, <2>13 DEF Writes
<1> QED BY <1>2, <1>4, <1>5

-----------------------------------------------------------------------------
\* All the calls.

(***************************************************************************)
(* The inductive invariant: the links, the order of the keys, and the      *)
(* colours, between any two activations.                                   *)
(***************************************************************************)
TreeInv ==
  /\ CheckInv /\ InOrder(tree) /\ Coloured
  /\ running \in {"idle", "insert", "erase"} /\ check \in Addr

LEMMA EmptyIsTree == (tree = EmptyTree /\ live = {} /\ running = "idle" /\ check \in Addr) => TreeInv
<1> SUFFICES ASSUME tree = EmptyTree, live = {}, running = "idle", check \in Addr PROVE TreeInv
  OBVIOUS
<1>1. Fields(tree) /\ tree.root = Nil /\ tree.color[Nil] = "black"
  BY DEF EmptyTree, Fields, Addr
<1>2. Acyclic(tree)
  <2>1. [a \in live |-> 0] \in [live -> Nat]
    OBVIOUS
  <2> QED BY <2>1 DEF Acyclic
<1>3. CheckInv
  BY <1>1, <1>2 DEF CheckInv, IsTree, LinkedIn
<1>4. InOrder(tree)
  <2> DEFINE sub == [a \in live \cup {Nil} |-> {}]
  <2>1. sub \in [live \cup {Nil} -> SUBSET live] /\ sub[Nil] = {} /\ sub[tree.root] = live
    BY <1>1
  <2> QED BY <2>1 DEF InOrder, Spans, Ordered
<1>5. Coloured
  <2> DEFINE g == [a \in live \cup {Nil} |-> 0]
  <2>1. Weights(live, g)
    BY DEF Weights
  <2> QED BY <1>1, <2>1 DEF Coloured
<1> QED BY <1>3, <1>4, <1>5 DEF TreeInv

LEMMA InvGivesCalls ==
  ASSUME TreeInv
  PROVE  /\ DescentsEnd /\ NoLeak
         /\ running = "idle" => RootBlack
<1>1. IsTree(tree)
  BY DEF TreeInv, CheckInv
<1>2. PICK sub : Spans(tree, live, sub) /\ Ordered(tree, live, sub)
  BY DEF TreeInv, InOrder
<1>3. DescentsEnd
  BY <1>1, <1>2, EveryDescentEnds
<1>4. NoLeak
  <2>1. tree.root \in live \cup {Nil} /\ sub[tree.root] = live
    BY <1>1, <1>2 DEF IsTree, LinkedIn, Spans
  <2> QED BY <1>1, <1>2, <2>1, UnderIsSpan DEF NoLeak
<1>5. running = "idle" => RootBlack
  BY <1>1 DEF TreeInv, Coloured, RootBlack, IsTree, Fields
<1> QED BY <1>3, <1>4, <1>5

LEMMA InvKept ==
  ASSUME TreeInv, [Next]_vars
  PROVE  TreeInv'
<1>1. /\ CheckInv /\ InOrder(tree) /\ Coloured /\ IsTree(tree) /\ DescentsEnd /\ NoLeak
      /\ running \in {"idle", "insert", "erase"} /\ check \in Addr
      /\ running = "idle" => RootBlack
  BY InvGivesCalls DEF TreeInv, CheckInv
<1>2. PICK sub : Spans(tree, live, sub) /\ Ordered(tree, live, sub)
  BY <1>1 DEF InOrder
<1>3. ASSUME NEW k \in Keys, Insert(k) PROVE TreeInv'
  <2>1. CheckInv'
    <3>1. RootBlack
      BY <1>1, <1>3 DEF Insert
    <3> QED BY <1>1, <1>3, <3>1, InsertKeepsTree
  <2>2. InOrder(tree)'
    BY <1>1, <1>2, <1>3, InsertSpans DEF InOrder, Spans, Ordered
  <2>3. Coloured'
    BY <1>1, <1>3, InsertColors
  <2>4. running' = "insert" /\ check' \in Addr
    BY <1>3 DEF Insert, Addr
  <2> QED BY <2>1, <2>2, <2>3, <2>4 DEF TreeInv
<1>4. ASSUME NEW p \in Nodes, Erase(p) PROVE TreeInv'
  <2>1. CheckInv'
    BY <1>1, <1>4, EraseKeepsTree
  <2>2. InOrder(tree)'
    BY <1>1, <1>2, <1>4, EraseSpans DEF InOrder, Spans, Ordered
  <2>3. Coloured'
    BY <1>1, <1>4, EraseColors
  <2>4. running' \in {"idle", "insert", "erase"} /\ check' \in Addr
    <3>1. check' \in live \cup {Nil} /\ running' \in {"idle", "erase"}
      <4> DEFINE y == Unlinked(tree, p)
                 r == Replacement(tree, y)
      <4> HIDE DEF y, r
      <4>1. y = Unlinked(tree, p) /\ r = Replacement(tree, y)
        BY DEF y, r
      <4>2. /\ running' = (IF tree.color[y] = "black" THEN "erase" ELSE "idle")
            /\ check' = (IF tree.color[y] = "black" THEN r ELSE Nil) /\ r \in live \cup {Nil}
        BY <1>1, <1>4, <4>1, EraseSets
      <4> QED BY <4>2
    <3> QED BY <1>1, <3>1 DEF IsTree, Addr
  <2> QED BY <2>1, <2>2, <2>3, <2>4 DEF TreeInv
<1>5. CASE Delete
  <2>1. live' = {} /\ tree' = EmptyTree /\ running' = "idle" /\ check' = check
    BY <1>1, <1>5 DEF Delete, NoLeak
  <2>2. (tree = EmptyTree /\ live = {} /\ running = "idle" /\ check \in Addr)'
    BY <1>1, <2>1 DEF EmptyTree, Addr
  <2>3. ((tree = EmptyTree /\ live = {} /\ running = "idle" /\ check \in Addr) => TreeInv)'
    BY EmptyIsTree, PTL
  <2> QED BY <2>2, <2>3
<1>6. CASE Activation
  <2>1. CheckInv'
    BY <1>1, <1>6, InsertChecks, EraseChecks DEF Activation
  <2>2. PICK s : Sound(s) /\ Writes(s)
    BY <1>1, <1>6, InsertSound, EraseSound DEF Activation
  <2>3. InOrder(tree)'
    BY <2>2, WritesSound
  <2>4. Coloured'
    BY <1>1, <1>6, AtRootColors, UnderBlackColors, RecolorColors, RotateInsertColors,
       AtRootOrRedColors, ClimbColors, RotateEraseColors DEF Activation
  <2>5. running' \in {"idle", "insert", "erase"}
    BY <1>1, <1>6 DEF Activation, InsertAtRoot, InsertUnderBlack, InsertRecolor, InsertRotate, EraseAtRootOrRed,
                      EraseClimb, EraseRotate, Return
  <2>6. check' \in Addr
    <3>1. check' = Nil \/ InsertRecolor \/ EraseClimb
      BY <1>6 DEF Activation, InsertAtRoot, InsertUnderBlack, InsertRotate, EraseAtRootOrRed, EraseRotate, Return
    <3>2. CASE InsertRecolor
      <4>1. check' \in live'
        BY <2>1, <3>2 DEF CheckInv, InsertRecolor, RedRed
      <4> QED BY <1>1, <2>1, <3>2, <4>1 DEF InsertRecolor, CheckInv, IsTree, Addr
    <3>3. CASE EraseClimb
      <4>1. check' = Parent /\ Parent \in live
        BY <1>1, <3>3 DEF EraseClimb, DoubleBlack, Coloured
      <4> QED BY <1>1, <4>1 DEF IsTree, Addr
    <3> QED BY <3>1, <3>2, <3>3 DEF Addr
  <2> QED BY <2>1, <2>3, <2>4, <2>5, <2>6 DEF TreeInv
<1>7. CASE UNCHANGED vars
  <2>1. tree' = tree /\ live' = live /\ running' = running /\ check' = check
    BY <1>7 DEF vars
  <2>2. CheckInv'
    BY <1>1, <2>1 DEF CheckInv, IsTree, LinkedIn, Acyclic, Fields, Addr, Side
  <2>3. InOrder(tree)'
    BY <1>1, <2>1 DEF InOrder, Spans, Ordered
  <2>4. Coloured'
    <3>1. Missing' = Missing /\ Parent' = Parent
      BY <2>1 DEF Missing, Parent, SideOf
    <3>2. PICK g : Weights(live, g) /\ \A a \in live : Even(tree.child, tree.color, g, Missing, a)
      BY <1>1 DEF Coloured
    <3>3. (\E f : Weights(live, f) /\ \A a \in live : Even(tree.child, tree.color, f, Missing, a))'
      BY <2>1, <3>1, <3>2 DEF Weights, Even
    <3>4. (\A a \in live : \/ running = "erase" /\ a = check
                           \/ Calm(tree.child, tree.color, IF running = "idle" THEN {} ELSE {check}, a))'
      BY <1>1, <2>1 DEF Coloured, Calm
    <3>5. (running = "erase" /\ check # tree.root => Parent \in live /\ tree.child[Parent][SideOf(tree, check)] = check)'
      BY <1>1, <2>1, <3>1 DEF Coloured, SideOf
    <3> QED BY <1>1, <2>1, <3>3, <3>4, <3>5 DEF Coloured
  <2> QED BY <1>1, <2>1, <2>2, <2>3, <2>4 DEF TreeInv
<1> QED BY <1>3, <1>4, <1>5, <1>6, <1>7 DEF Next

LEMMA InvHolds == Spec => []TreeInv
<1>1. Init => TreeInv
  BY EmptyIsTree DEF Init, Addr
<1>2. TreeInv /\ [Next]_vars => TreeInv'
  BY InvKept
<1> QED BY <1>1, <1>2, PTL DEF Spec

LEMMA InvIsSafe ==
  ASSUME TreeInv
  PROVE  TypeOK /\ Linked /\ NoLeak /\ SearchOrder /\ ColorConstraint
<1>1. IsTree(tree) /\ Coloured /\ running \in {"idle", "insert", "erase"} /\ check \in Addr
  BY DEF TreeInv, CheckInv
<1>2. PICK sub : Spans(tree, live, sub) /\ Ordered(tree, live, sub)
  BY DEF TreeInv, InOrder
<1>3. Linked
  BY <1>1, LinkedInIsLinked DEF IsTree
<1>4. TypeOK
  <2>1. ASSUME NEW a \in live PROVE tree.parent[a] # Null /\ \A d \in Side : tree.child[a][d] # Null
    <3>1. Null \notin live \cup {Nil}
      BY <1>1, NodesAssumption DEF IsTree
    <3>2. tree.parent[a] \in live \cup {Nil}
      BY <1>1 DEF IsTree, LinkedIn
    <3> QED BY <1>1, <3>1, <3>2, ChildOrNil
  <2>2. Fields(tree) /\ live \subseteq Nodes
    BY <1>1 DEF IsTree
  <2> QED BY <1>1, <2>1, <2>2 DEF TypeOK, Fields
<1>5. NoLeak
  BY InvGivesCalls
<1>6. SearchOrder
  <2> SUFFICES ASSUME NEW a \in live
               PROVE  /\ \A b \in Under(tree, tree.child[a]["left"]) : tree.key[b] <= tree.key[a]
                      /\ \A b \in Under(tree, tree.child[a]["right"]) : tree.key[a] <= tree.key[b]
    BY DEF SearchOrder
  <2>1. "left" \in Side /\ "right" \in Side
    BY DEF Side
  <2>2. \A d \in Side : Under(tree, tree.child[a][d]) = sub[tree.child[a][d]]
    BY <1>1, <1>2, ChildOrNil, UnderIsSpan
  <2>3. \A d \in Side : \A b \in sub[tree.child[a][d]] : Beside(d, tree.key[b], tree.key[a])
    BY <1>2 DEF Ordered
  <2> QED BY <2>1, <2>2, <2>3 DEF Beside
<1>7. ColorConstraint
  <2>1. NoRedRed
    BY <1>1, CalmIsNoRedRed
  <2>2. tree.root # Nil => BlackHeight # Unequal
    BY <1>1, <1>2, HeightIsWeight
  <2> QED BY <2>1, <2>2 DEF ColorConstraint, EqualBlackHeights
<1> QED BY <1>3, <1>4, <1>5, <1>6, <1>7

(***************************************************************************)
(* The fields of every node hold what rbtree.h declares, and an allocated  *)
(* node has no null link, whatever calls a program makes.                  *)
(***************************************************************************)
THEOREM TypesHold == Spec => []TypeOK
<1>1. TreeInv => TypeOK
  BY InvIsSafe
<1> QED BY <1>1, InvHolds, PTL

(***************************************************************************)
(* Parents and children agree, no freed node is linked and no node is lost *)
(* from the links, in every state of the program, activations included.    *)
(***************************************************************************)
THEOREM LinksHold == Spec => []Linked
<1>1. TreeInv => Linked
  BY InvIsSafe
<1> QED BY <1>1, InvHolds, PTL

(***************************************************************************)
(* Every node that is allocated can be reached from the root, so           *)
(* delete_rbtree frees them all.                                           *)
(***************************************************************************)
THEOREM NothingLeaks == Spec => []NoLeak
<1>1. TreeInv => NoLeak
  BY InvIsSafe
<1> QED BY <1>1, InvHolds, PTL

(***************************************************************************)
(* The keys stay in search order, through every rotation and removal.      *)
(***************************************************************************)
THEOREM OrderHolds == Spec => []SearchOrder
<1>1. TreeInv => SearchOrder
  BY InvIsSafe
<1> QED BY <1>1, InvHolds, PTL

(***************************************************************************)
(* The colour constraints of test-rbtree.c hold whenever no call is under  *)
(* way, for a tree of any size, and between two activations except where   *)
(* the check has yet to repair them.                                       *)
(***************************************************************************)
THEOREM ColorsHold == Spec => []ColorConstraint
<1>1. TreeInv => ColorConstraint
  BY InvIsSafe
<1> QED BY <1>1, InvHolds, PTL

-----------------------------------------------------------------------------
\* The multiset of keys.

KeysKnown == \A a \in live : tree.key[a] \in Keys
Bag == [k \in Keys |-> Count(k)]

LEMMA CountType ==
  ASSUME IsTree(tree), NEW k
  PROVE  IsFiniteSet({a \in live : tree.key[a] = k}) /\ Count(k) \in Nat
<1>1. {a \in live : tree.key[a] = k} \subseteq Nodes
  BY DEF IsTree
<1>2. IsFiniteSet({a \in live : tree.key[a] = k})
  BY <1>1, NodesAssumption, FS_Subset
<1> QED BY <1>2, FS_CardinalityType DEF Count

LEMMA CountInsert ==
  ASSUME IsTree(tree), DescentsEnd, NEW k \in Keys, Insert(k)
  PROVE  /\ \A l \in Keys : Count(l)' = IF l = k THEN Count(l) + 1 ELSE Count(l)
         /\ KeysKnown => KeysKnown'
         /\ \A a \in live \cap live' : tree'.key[a] = tree.key[a]
<1> DEFINE p == Last(tree, k)
           e == Dir(tree, k, p)
<1>1. PICK n \in Nodes \ live :
           /\ live' = live \cup {n} /\ tree'.key[n] = k /\ \A a \in Addr \ {n} : tree'.key[a] = tree.key[a]
  <2> HIDE DEF p, e
  <2>1. p = Last(tree, k) /\ e = Dir(tree, k, p)
    BY DEF p, e
  <2> QED BY <2>1, InsertSets
<1>2. \A a \in live : a \in Addr \ {n} /\ tree'.key[a] = tree.key[a]
  BY <1>1 DEF IsTree, Addr
<1>3. ASSUME NEW l \in Keys PROVE Count(l)' = IF l = k THEN Count(l) + 1 ELSE Count(l)
  <2> DEFINE S == {a \in live : tree.key[a] = l}
             T == {a \in live' : tree'.key[a] = l}
  <2>1. T = IF l = k THEN S \cup {n} ELSE S
    BY <1>1, <1>2
  <2>2. n \notin S /\ IsFiniteSet(S)
    BY <1>1, CountType
  <2>3. Count(l) = Cardinality(S) /\ Count(l)' = Cardinality(T)
    BY DEF Count
  <2> HIDE DEF S, T
  <2>4. Cardinality(S \cup {n}) = Cardinality(S) + 1
    BY <2>2, FS_AddElement
  <2> QED BY <2>1, <2>3, <2>4
<1>4. KeysKnown => KeysKnown'
  BY <1>1, <1>2 DEF KeysKnown
<1> QED BY <1>2, <1>3, <1>4

LEMMA CountErase ==
  ASSUME IsTree(tree), DescentsEnd, NEW p, Erase(p)
  PROVE  /\ p \in live /\ Count(tree.key[p]) > 0
         /\ \A l : Count(l)' = IF l = tree.key[p] THEN Count(l) - 1 ELSE Count(l)
         /\ KeysKnown => KeysKnown'
         /\ \A a \in live \cap live' : tree'.key[a] = tree.key[a] \/ a = p
         /\ \E y \in live \ live' : y = p \/ tree'.key[p] = tree.key[y]
<1> DEFINE y == Unlinked(tree, p)
<1>1. /\ p \in live /\ live' = live \ {y} /\ y \in live
      /\ \A a \in Addr \ {y} : tree'.key[a] = IF a = p THEN tree.key[y] ELSE tree.key[a]
  <2> DEFINE r == Replacement(tree, y)
             up == tree.parent[y]
             s == SideOf(tree, y)
  <2> HIDE DEF y, r, up, s
  <2>1. y = Unlinked(tree, p) /\ r = Replacement(tree, y) /\ up = tree.parent[y] /\ s = SideOf(tree, y)
    BY DEF y, r, up, s
  <2> QED BY <2>1, EraseSets
<1> HIDE DEF y
<1>2. live \subseteq Addr
  BY DEF IsTree, Addr
<1>3. \A a \in live \ {y} : tree'.key[a] = IF a = p THEN tree.key[y] ELSE tree.key[a]
  BY <1>1, <1>2
<1>4. ASSUME NEW l
      PROVE  /\ Count(l)' = IF l = tree.key[p] THEN Count(l) - 1 ELSE Count(l)
             /\ l = tree.key[p] => Count(l) > 0
  <2> DEFINE S == {a \in live : tree.key[a] = l}
             T == {a \in live' : tree'.key[a] = l}
  <2>1. IsFiniteSet(S) /\ Count(l) = Cardinality(S) /\ Count(l)' = Cardinality(T) /\ Count(l) \in Nat
    BY CountType DEF Count
  <2>2. CASE l = tree.key[p] /\ l = tree.key[y]
    <3>1. y \in S /\ T = S \ {y}
      BY <1>1, <1>3, <2>2
    <3> HIDE DEF S, T
    <3>2. Cardinality(S \ {y}) = Cardinality(S) - 1 /\ Cardinality(S) # 0
      BY <2>1, <3>1, FS_RemoveElement, FS_EmptySet
    <3> QED BY <2>1, <2>2, <3>1, <3>2
  <2>3. CASE l = tree.key[p] /\ l # tree.key[y]
    <3>1. p \in S /\ T = S \ {p}
      BY <1>1, <1>3, <2>3
    <3> HIDE DEF S, T
    <3>2. Cardinality(S \ {p}) = Cardinality(S) - 1 /\ Cardinality(S) # 0
      BY <2>1, <3>1, FS_RemoveElement, FS_EmptySet
    <3> QED BY <2>1, <2>3, <3>1, <3>2
  <2>4. CASE l # tree.key[p] /\ l = tree.key[y]
    <3>1. y \in S /\ p \notin S /\ y # p /\ T = (S \ {y}) \cup {p}
      BY <1>1, <1>3, <2>4
    <3> HIDE DEF S, T
    <3>2. IsFiniteSet(S \ {y}) /\ Cardinality(S \ {y}) = Cardinality(S) - 1
      BY <2>1, <3>1, FS_RemoveElement
    <3>3. Cardinality((S \ {y}) \cup {p}) = Cardinality(S \ {y}) + 1
      BY <3>1, <3>2, FS_AddElement
    <3> QED BY <2>1, <2>4, <3>1, <3>2, <3>3
  <2>5. CASE l # tree.key[p] /\ l # tree.key[y]
    <3>1. T = S
      BY <1>1, <1>3, <2>5
    <3> QED BY <2>1, <2>5, <3>1
  <2> QED BY <2>2, <2>3, <2>4, <2>5
<1>5. KeysKnown => KeysKnown'
  BY <1>1, <1>3 DEF KeysKnown
<1>6. \A a \in live \cap live' : tree'.key[a] = tree.key[a] \/ a = p
  BY <1>1, <1>3
<1>7. y \in live \ live' /\ (y = p \/ tree'.key[p] = tree.key[y])
  BY <1>1, <1>3
<1> QED BY <1>1, <1>4, <1>5, <1>6, <1>7

\* Every step, and the multiset.
LEMMA BagSteps ==
  ASSUME TreeInv, KeysKnown, [Next]_vars
  PROVE  /\ KeysKnown'
         /\ \A k \in Keys : Insert(k) => Bag' = [Bag EXCEPT ![k] = @ + 1]
         /\ \A p \in live : Erase(p) => /\ Bag[tree.key[p]] > 0 /\ tree.key[p] \in Keys
                                        /\ Bag' = [Bag EXCEPT ![tree.key[p]] = @ - 1]
         /\ \/ Bag' = Bag \/ Bag' = [k \in Keys |-> 0]
            \/ \E k \in Keys : Insert(k)
            \/ \E p \in live : Erase(p)
         /\ \A a \in live \cap live' : tree'.key[a] = tree.key[a] \/ Erase(a)
         /\ \A p \in live : Erase(p) => \E y \in live \ live' : y = p \/ tree'.key[p] = tree.key[y]
<1>1. IsTree(tree) /\ DescentsEnd /\ NoLeak
  BY InvGivesCalls DEF TreeInv, CheckInv
<1>2. ASSUME NEW k \in Keys, Insert(k) PROVE Bag' = [Bag EXCEPT ![k] = @ + 1]
  <2>1. \A l \in Keys : Count(l)' = IF l = k THEN Count(l) + 1 ELSE Count(l)
    BY <1>1, <1>2, CountInsert
  <2>2. Bag' = [l \in Keys |-> Count(l)']
    BY DEF Bag
  <2> QED BY <2>1, <2>2 DEF Bag
<1>3. ASSUME NEW p \in live, Erase(p)
      PROVE  /\ Bag[tree.key[p]] > 0 /\ tree.key[p] \in Keys
             /\ Bag' = [Bag EXCEPT ![tree.key[p]] = @ - 1]
             /\ \E y \in live \ live' : y = p \/ tree'.key[p] = tree.key[y]
  <2>1. /\ Count(tree.key[p]) > 0 /\ \A l : Count(l)' = IF l = tree.key[p] THEN Count(l) - 1 ELSE Count(l)
        /\ \E y \in live \ live' : y = p \/ tree'.key[p] = tree.key[y]
    BY <1>1, <1>3, CountErase
  <2>2. tree.key[p] \in Keys
    BY DEF KeysKnown
  <2>3. Bag' = [l \in Keys |-> Count(l)']
    BY DEF Bag
  <2> QED BY <2>1, <2>2, <2>3 DEF Bag
<1>4. CASE \E k \in Keys : Insert(k)
  <2>1. PICK k \in Keys : Insert(k)
    BY <1>4
  <2>2. (KeysKnown => KeysKnown') /\ \A a \in live \cap live' : tree'.key[a] = tree.key[a]
    BY <1>1, <2>1, CountInsert
  <2> QED BY <1>2, <1>3, <1>4, <2>2
<1>5. CASE \E p \in Nodes : Erase(p)
  <2>1. PICK p : Erase(p)
    BY <1>5
  <2>2. /\ p \in live
        /\ KeysKnown => KeysKnown'
        /\ \A a \in live \cap live' : tree'.key[a] = tree.key[a] \/ a = p
    BY <1>1, <2>1, CountErase
  <2> QED BY <1>2, <1>3, <2>1, <2>2
<1>6. CASE Delete
  <2>1. live' = {}
    BY <1>1, <1>6 DEF Delete, NoLeak
  <2>2. \A k : Count(k)' = 0
    BY <2>1, FS_EmptySet DEF Count
  <2>3. Bag' = [k \in Keys |-> Count(k)']
    BY DEF Bag
  <2>4. Bag' = [k \in Keys |-> 0]
    BY <2>2, <2>3
  <2> QED BY <1>2, <1>3, <2>1, <2>4 DEF KeysKnown
<1>7. CASE Activation \/ UNCHANGED vars
  <2>1. tree'.key = tree.key /\ live' = live
    <3>1. CASE Activation
      <4>1. PICK s : Sound(s) /\ Writes(s)
        BY <3>1, InsertSound, EraseSound DEF Activation, TreeInv
      <4> QED BY <4>1, WritesSound DEF Writes
    <3>2. CASE UNCHANGED vars
      BY <3>2 DEF vars
    <3> QED BY <1>7, <3>1, <3>2
  <2>2. KeysKnown' /\ \A k : Count(k)' = Count(k)
    BY <2>1 DEF KeysKnown, Count
  <2>3. Bag' = Bag
    BY <2>2 DEF Bag
  <2> QED BY <1>2, <1>3, <2>1, <2>2, <2>3
<1> QED BY <1>4, <1>5, <1>6, <1>7 DEF Next

LEMMA KeysHold == Spec => []KeysKnown
<1>1. Init => KeysKnown
  BY DEF Init, KeysKnown
<1>2. TreeInv /\ KeysKnown /\ [Next]_vars => KeysKnown'
  BY BagSteps
<1> QED BY <1>1, <1>2, InvHolds, PTL DEF Spec

\* The contents of the tree, as the refinement mapping of Multiset takes them.
Contents == LET all == Under(tree, tree.root)
            IN  [k \in Keys |-> Cardinality({a \in all : tree.key[a] = k})]

LEMMA ContentsAreBag == TreeInv => Contents = Bag
BY InvGivesCalls DEF Contents, Bag, Count, NoLeak

(***************************************************************************)
(* rbtree.c implements a multiset of keys: each call does to the keys what *)
(* it promises, no activation of a check does anything to them, and the    *)
(* nodes a program holds pointers to keep their keys but for the node of a *)
(* removal, which takes the key of the one that is freed in its place.     *)
(***************************************************************************)
THEOREM TreeIsMultiset == Spec => IsMultiset
<1>1. Init => Multiset!Init
  <2> SUFFICES ASSUME Init PROVE Multiset!Init
    OBVIOUS
  <2>1. live = {} /\ TreeInv
    BY EmptyIsTree DEF Init, Addr
  <2>2. Contents = Bag
    BY <2>1, ContentsAreBag
  <2>3. \A k : Count(k) = 0
    BY <2>1, FS_EmptySet DEF Count
  <2>4. Contents = [k \in Keys |-> 0]
    BY <2>2, <2>3 DEF Bag
  <2> QED BY <2>4 DEF Multiset!Init, Contents
<1>2. TreeInv /\ KeysKnown /\ TreeInv' /\ [Next]_vars
        => /\ [Multiset!Next]_Contents
           /\ \A k \in Keys : Insert(k) => Multiset!Insert(k)
           /\ \A p \in live : Erase(p) => Multiset!Erase(tree.key[p])
           /\ \A a \in live \cap live' : tree'.key[a] = tree.key[a] \/ Erase(a)
           /\ \A p \in live : Erase(p) => \E y \in live \ live' : y = p \/ tree'.key[p] = tree.key[y]
  <2> SUFFICES ASSUME TreeInv, KeysKnown, TreeInv', [Next]_vars
               PROVE  /\ [Multiset!Next]_Contents
                      /\ \A k \in Keys : Insert(k) => Multiset!Insert(k)
                      /\ \A p \in live : Erase(p) => Multiset!Erase(tree.key[p])
                      /\ \A a \in live \cap live' : tree'.key[a] = tree.key[a] \/ Erase(a)
                      /\ \A p \in live : Erase(p) => \E y \in live \ live' : y = p \/ tree'.key[p] = tree.key[y]
    OBVIOUS
  <2>1. Contents = Bag /\ Contents' = Bag'
    <3>1. Contents = Bag
      BY ContentsAreBag
    <3>2. (TreeInv => Contents = Bag)'
      BY ContentsAreBag, PTL
    <3> QED BY <3>1, <3>2
  <2>2. \A k \in Keys : Insert(k) => Multiset!Insert(k)
    BY <2>1, BagSteps DEF Multiset!Insert, Contents
  <2>3. \A p \in live : Erase(p) => tree.key[p] \in Keys /\ Multiset!Erase(tree.key[p])
    BY <2>1, BagSteps DEF Multiset!Erase, Contents
  <2>4. [Multiset!Next]_Contents
    <3>1. \/ Contents' = Contents \/ Contents' = [k \in Keys |-> 0]
          \/ \E k \in Keys : Insert(k)
          \/ \E p \in live : Erase(p)
      BY <2>1, BagSteps
    <3>2. CASE Contents' = [k \in Keys |-> 0]
      BY <3>2 DEF Multiset!Next, Multiset!Clear, Contents
    <3>3. CASE \E k \in Keys : Insert(k)
      BY <2>2, <3>3 DEF Multiset!Next
    <3>4. CASE \E p \in live : Erase(p)
      BY <2>3, <3>4 DEF Multiset!Next
    <3> QED BY <3>1, <3>2, <3>3, <3>4
  <2>5. /\ \A a \in live \cap live' : tree'.key[a] = tree.key[a] \/ Erase(a)
        /\ \A p \in live : Erase(p) => \E y \in live \ live' : y = p \/ tree'.key[p] = tree.key[y]
    BY BagSteps
  <2> QED BY <2>2, <2>3, <2>4, <2>5
<1> QED BY <1>1, <1>2, InvHolds, KeysHold, PTL DEF Spec, IsMultiset, Multiset!Spec, PointersKept, Contents

-----------------------------------------------------------------------------
\* The functions that only read.

\* A search comes to a node with its key, unless there is none.
LEMMA FindFinds ==
  ASSUME NEW t, IsTree(t), NEW sub, Spans(t, live, sub), Ordered(t, live, sub), NEW k \in Int
  PROVE  \/ rbtree_find(t, k) \in live /\ t.key[rbtree_find(t, k)] = k
         \/ rbtree_find(t, k) = Null /\ \A a \in live : t.key[a] # k
<1> DEFINE A == live \cup {Nil}
           Step(f) == [a \in A |-> IF a = Nil \/ t.key[a] = k THEN a ELSE f[t.child[a][Dir(t, k, a)]]]
           Down == CHOOSE f : f = Step(f)
           Ends(a) == IF Down[a] = Nil THEN \A b \in sub[a] : t.key[b] # k
                      ELSE Down[a] \in sub[a] /\ t.key[Down[a]] = k
<1>1. /\ \A a \in live : /\ a \in sub[a] /\ sub[a] \subseteq live
                         /\ \A d \in Side : /\ t.child[a][d] \in A /\ Size(sub)[t.child[a][d]] < Size(sub)[a]
      /\ Size(sub) \in [A -> Nat] /\ sub[Nil] = {} /\ sub[t.root] = live
  <2>1. /\ \A a \in live : sub[a] \subseteq live
        /\ sub[Nil] = {} /\ sub[t.root] = live
    BY DEF Spans
  <2> QED BY <2>1, Sizes
<1>2. \A a \in live : Dir(t, k, a) \in Side
  BY DEF Dir, Side
<1>3. Nil \notin live /\ \A a \in live : t.key[a] \in Int
  BY NodesAssumption DEF IsTree, Fields, Addr
<1>4. Down = Step(Down)
  <2> DEFINE stop == [a \in A |-> a = Nil \/ t.key[a] = k]
             val == [a \in A |-> a]
             next == [a \in A |-> t.child[a][Dir(t, k, a)]]
             height == Size(sub)
  <2>1. \A a \in A : ~stop[a] => next[a] \in A /\ height[next[a]] < height[a]
    BY <1>1, <1>2
  <2>2. \E f : Walks(f, A, stop, val, next)
    <3>1. height \in [A -> Nat]
      BY <1>1
    <3> HIDE DEF A, stop, val, next, height
    <3> QED BY <2>1, <3>1, Descends
  <2>3. \E f : f = Step(f)
    BY <2>2 DEF Walks
  <2> HIDE DEF Step
  <2> QED BY <2>3
<1>5. rbtree_find(t, k) = IF Down[t.root] = Nil THEN Null ELSE Down[t.root]
  BY DEF rbtree_find
<1>6. \A a \in A : Down[a] = IF a = Nil \/ t.key[a] = k THEN a ELSE Down[t.child[a][Dir(t, k, a)]]
  BY <1>4
<1> HIDE DEF Down
<1>7. Ends(Nil)
  BY <1>1, <1>6
<1> DEFINE S == {a \in live : Ends(a)}
<1>8. ASSUME NEW a \in live, \A d \in Side : t.child[a][d] \in S \cup {Nil} PROVE a \in S
  <2> DEFINE d == Dir(t, k, a)
             c == t.child[a][d]
             o == t.child[a][Other(d)]
  <2>1. CASE t.key[a] = k
    BY <1>1, <1>3, <1>6, <2>1
  <2>2. CASE t.key[a] # k
    <3>1. d \in Side /\ Other(d) \in Side
      BY <1>2, Sides
    <3>2. Ends(c) /\ Down[a] = Down[c]
      BY <1>3, <1>6, <1>7, <1>8, <2>2, <3>1
    <3>3. sub[a] = {a} \cup sub[c] \cup sub[o] /\ \A b \in sub[o] : Beside(Other(d), t.key[b], t.key[a])
      BY <3>1 DEF Spans, Ordered
    <3>4. \A b \in sub[o] : b \in live /\ t.key[b] \in Int
      BY <1>1, <1>3, <3>3
    <3>5. \A b \in sub[o] : t.key[b] # k
      <4>1. t.key[a] \in Int
        BY <1>3
      <4>2. CASE d = "left"
        <5>1. k <= t.key[a] /\ Other(d) = "right"
          BY <4>2 DEF Dir, Other
        <5> QED BY <2>2, <3>3, <3>4, <4>1, <5>1 DEF Beside
      <4>3. CASE d = "right"
        <5>1. t.key[a] < k /\ Other(d) = "left"
          BY <4>1, <4>3 DEF Dir, Other
        <5> QED BY <2>2, <3>3, <3>4, <4>1, <5>1 DEF Beside
      <4> QED BY <4>2, <4>3 DEF Dir
    <3> HIDE DEF c, d, o
    <3> QED BY <2>2, <3>2, <3>3, <3>5
  <2> QED BY <2>1, <2>2
<1>9. live \subseteq S
  <2> HIDE DEF S
  <2> QED BY <1>8, BottomUp
<1>10. Ends(t.root)
  <2>1. t.root \in A
    BY DEF IsTree, LinkedIn
  <2> QED BY <1>7, <1>9, <2>1
<1> QED BY <1>1, <1>3, <1>5, <1>10

\* min and max are the ends of the order.
LEMMA EndsFound ==
  ASSUME NEW t, IsTree(t), NEW sub, Spans(t, live, sub), Ordered(t, live, sub)
  PROVE  /\ live = {} => rbtree_min(t) = Null /\ rbtree_max(t) = Null
         /\ \A a \in live : t.key[rbtree_min(t)] <= t.key[a] /\ t.key[a] <= t.key[rbtree_max(t)]
<1>1. (t.root = Nil <=> live = {}) /\ (t.root # Nil => t.root \in live) /\ sub[t.root] = live
  BY DEF IsTree, LinkedIn, Spans
<1>2. CASE live = {}
  BY <1>1, <1>2 DEF rbtree_min, rbtree_max
<1>3. CASE live # {}
  <2>1. "left" \in Side /\ "right" \in Side /\ t.root \in live /\ t.root # Nil
    BY <1>1, <1>3 DEF Side
  <2>2. \A d \in Side : \A b \in live : Beside(d, t.key[Outermost(t, t.root, d)], t.key[b])
    BY <1>1, <2>1, OutermostIsExtreme
  <2> QED BY <1>3, <2>1, <2>2 DEF Beside, rbtree_min, rbtree_max
<1> QED BY <1>2, <1>3

\* What inorder_arr writes for a node, and the walk that writes it.
Row(t, n, g) ==
  [a \in live \cup {Nil} |->
     [arr \in Seq(Int) |-> IF a = Nil \/ Len(arr) >= n THEN arr
                           ELSE g[t.child[a]["right"]][Append(g[t.child[a]["left"]][arr], t.key[a])]]]
Written(t, n) == CHOOSE g : g = Row(t, n, g)

\* The recursion of inorder_arr has a result.
LEMMA WrittenExists ==
  ASSUME NEW t, IsTree(t), NEW sub, Spans(t, live, sub), NEW n \in Nat
  PROVE  /\ Written(t, n) = Row(t, n, Written(t, n))
         /\ Written(t, n) \in [live \cup {Nil} -> [Seq(Int) -> Seq(Int)]]
<1> DEFINE A == live \cup {Nil}
           V == [Seq(Int) -> Seq(Int)]
           S == [A -> V]
           N == Cardinality(Nodes) + 1
           first == [a \in A |-> [arr \in Seq(Int) |-> arr]]
           step == [g \in S |-> Row(t, n, g)]
           size == Size(sub)
<1>1. /\ \A a \in live : /\ t.child[a]["left"] \in A /\ t.child[a]["right"] \in A
                         /\ size[t.child[a]["left"]] < size[a] /\ size[t.child[a]["right"]] < size[a]
      /\ size \in [A -> Nat] /\ size[Nil] = 0 /\ \A a \in live : size[a] <= Cardinality(Nodes)
  <2>1. "left" \in Side /\ "right" \in Side
    BY DEF Side
  <2> QED BY <2>1, Sizes
<1>2. Nil \notin live /\ \A a \in live : t.key[a] \in Int
  BY NodesAssumption DEF IsTree, Fields, Addr
<1>3. N \in Nat /\ N # 0 /\ N - 1 = Cardinality(Nodes) /\ Cardinality(Nodes) \in Nat
  BY NodesAssumption, FS_CardinalityType
<1>4. ASSUME NEW g \in S PROVE Row(t, n, g) \in S
  <2>1. ASSUME NEW a \in A, NEW arr \in Seq(Int), ~(a = Nil \/ Len(arr) >= n)
        PROVE  g[t.child[a]["right"]][Append(g[t.child[a]["left"]][arr], t.key[a])] \in Seq(Int)
    <3>1. g[t.child[a]["left"]] \in V /\ g[t.child[a]["right"]] \in V /\ t.key[a] \in Int
      BY <1>1, <1>2, <2>1
    <3>2. g[t.child[a]["left"]][arr] \in Seq(Int)
      BY <3>1
    <3>3. Append(g[t.child[a]["left"]][arr], t.key[a]) \in Seq(Int)
      BY <3>1, <3>2
    <3> QED BY <3>1, <3>3
  <2>2. ASSUME NEW a \in A, NEW arr \in Seq(Int)
        PROVE  (IF a = Nil \/ Len(arr) >= n THEN arr
                ELSE g[t.child[a]["right"]][Append(g[t.child[a]["left"]][arr], t.key[a])]) \in Seq(Int)
    BY <2>1
  <2> QED BY <2>2 DEF Row
<1>5. PICK f \in [0..N -> S] : Iterated(f, first, step, N)
  <2>1. first \in S
    OBVIOUS
  <2>2. step \in [S -> S]
    <3> HIDE DEF S
    <3> QED BY <1>4
  <2> HIDE DEF S, first, step, N
  <2> QED BY <1>3, <2>1, <2>2, Iterates
<1>6. f[0] = first /\ \A m \in 0..N : m # 0 => f[m] = Row(t, n, f[m-1])
  <2>1. f[0] = first /\ \A m \in 0..N : f[m] \in S /\ (m # 0 => f[m] = step[f[m-1]] /\ m - 1 \in 0..N)
    <3> HIDE DEF S, first, step, N
    <3> QED BY <1>3, <1>5 DEF Iterated
  <2> HIDE DEF S, first, N
  <2> QED BY <2>1
<1> HIDE DEF first, step, S, V, N
<1>7. \A m \in 0..N : f[m][Nil] = [arr \in Seq(Int) |-> arr]
  <2>1. f[0][Nil] = [arr \in Seq(Int) |-> arr]
    BY <1>6 DEF first
  <2>2. ASSUME NEW g PROVE Row(t, n, g)[Nil] = [arr \in Seq(Int) |-> arr]
    BY DEF Row
  <2> QED BY <1>6, <2>1, <2>2
<1> DEFINE Same(m) == m < N => \A a \in A : size[a] <= m => f[m][a] = f[m+1][a]
           Done == {m \in Nat : Same(m)}
<1>8. ASSUME NEW m \in Nat, Same(m) PROVE Same(m + 1)
  <2> SUFFICES ASSUME m + 1 < N, NEW a \in A, size[a] <= m + 1 PROVE f[m+1][a] = f[(m+1)+1][a]
    OBVIOUS
  <2> DEFINE l == t.child[a]["left"]
             r == t.child[a]["right"]
             g == f[m]
             h == f[m+1]
  <2>1. /\ m \in 0..N /\ m + 1 \in 0..N /\ (m + 1) + 1 \in 0..N /\ m < N
        /\ (m + 1) - 1 = m /\ ((m + 1) + 1) - 1 = m + 1 /\ m + 1 # 0 /\ (m + 1) + 1 # 0
    BY <1>3
  <2>2. f[m+1] = Row(t, n, g) /\ f[(m+1)+1] = Row(t, n, h)
    BY <1>6, <2>1
  <2>3. a # Nil => g[l] = h[l] /\ g[r] = h[r]
    <3> SUFFICES ASSUME a # Nil PROVE g[l] = h[l] /\ g[r] = h[r]
      OBVIOUS
    <3>1. /\ l \in A /\ r \in A /\ size[l] < size[a] /\ size[r] < size[a]
          /\ size[a] \in Nat /\ size[l] \in Nat /\ size[r] \in Nat
      BY <1>1
    <3> HIDE DEF l, r, size
    <3>2. size[l] <= m /\ size[r] <= m
      BY <3>1
    <3> QED BY <1>8, <2>1, <3>1, <3>2
  <2> HIDE DEF g, h
  <2>4. Row(t, n, g)[a] = Row(t, n, h)[a]
    <3>1. CASE a = Nil
      BY <3>1 DEF Row
    <3>2. CASE a # Nil
      <4>1. g[l] = h[l] /\ g[r] = h[r]
        BY <2>3, <3>2
      <4> QED BY <4>1 DEF Row
    <3> QED BY <3>1, <3>2
  <2> QED BY <2>2, <2>4
<1>9. Same(0)
  <2>1. \A a \in A : size[a] <= 0 => a = Nil
    <3> SUFFICES ASSUME NEW a \in live PROVE ~(size[a] <= 0)
      OBVIOUS
    <3>1. t.child[a]["left"] \in A /\ size[t.child[a]["left"]] < size[a] /\ size \in [A -> Nat] /\ a \in A
      BY <1>1
    <3> HIDE DEF size, A
    <3> QED BY <3>1
  <2>2. 0 \in 0..N /\ 0 + 1 \in 0..N
    BY <1>3
  <2> QED BY <1>7, <2>1, <2>2
<1> HIDE DEF Same, size
<1>10. Nat \subseteq Done
  <2>1. 0 \in Done /\ \A m \in Nat \cap Done : m + 1 \in Done
    BY <1>8, <1>9
  <2> HIDE DEF Done
  <2> QED BY <2>1, Counting
<1> DEFINE g == f[N - 1]
<1>11. N - 1 \in Nat /\ N - 1 < N /\ (N - 1) + 1 = N /\ N \in 0..N /\ N - 1 \in 0..N
  BY <1>3
<1>12. \A a \in A : size[a] <= N - 1
  BY <1>1, <1>3
<1>13. \A a \in A : g[a] = f[N][a]
  BY <1>10, <1>11, <1>12 DEF Same
<1>14. g \in S /\ f[N] \in S /\ f[N] = Row(t, n, g)
  BY <1>3, <1>5, <1>6, <1>11
<1> HIDE DEF g
<1>15. g = f[N]
  BY <1>13, <1>14 DEF S
<1>16. g = Row(t, n, g)
  BY <1>14, <1>15
<1>17. Written(t, n) = Row(t, n, Written(t, n))
  BY <1>16 DEF Written
<1>18. \A w : w = Row(t, n, w) => w \in S
  <2> SUFFICES ASSUME NEW w, w = Row(t, n, w) PROVE w \in S
    OBVIOUS
  <2> DEFINE Good == {a \in live : w[a] \in V}
  <2>1. ASSUME NEW a \in A
        PROVE  w[a] = [arr \in Seq(Int) |-> IF a = Nil \/ Len(arr) >= n THEN arr
                           ELSE w[t.child[a]["right"]][Append(w[t.child[a]["left"]][arr], t.key[a])]]
    <3> DEFINE F(b) == [arr \in Seq(Int) |-> IF b = Nil \/ Len(arr) >= n THEN arr
                           ELSE w[t.child[b]["right"]][Append(w[t.child[b]["left"]][arr], t.key[b])]]
    <3>1. w = [b \in A |-> F(b)]
      BY DEF Row
    <3> HIDE DEF F
    <3>2. w[a] = F(a)
      BY <3>1
    <3> QED BY <3>2 DEF F
  <2>2. w[Nil] \in V
    <3>1. w[Nil] = [arr \in Seq(Int) |-> arr]
      BY <2>1
    <3> QED BY <3>1 DEF V
  <2>3. ASSUME NEW a \in live, \A d \in Side : t.child[a][d] \in Good \cup {Nil} PROVE a \in Good
    <3> DEFINE l == t.child[a]["left"]
               r == t.child[a]["right"]
    <3>1. w[l] \in V /\ w[r] \in V
      BY <2>2, <2>3 DEF Side
    <3>2. t.key[a] \in Int
      BY <1>2
    <3> DEFINE k == t.key[a]
    <3>3. w[a] = [arr \in Seq(Int) |-> IF a = Nil \/ Len(arr) >= n THEN arr ELSE w[r][Append(w[l][arr], k)]]
      BY <2>1
    <3> HIDE DEF l, r, k
    <3>4. \A arr \in Seq(Int) : Append(w[l][arr], k) \in Seq(Int)
      BY <3>1, <3>2 DEF V, k
    <3>5. \A arr \in Seq(Int) : w[r][Append(w[l][arr], k)] \in Seq(Int)
      BY <3>1, <3>4 DEF V
    <3> QED BY <3>3, <3>5 DEF V
  <2>4. live \subseteq Good
    <3> HIDE DEF Good
    <3> QED BY <2>3, BottomUp
  <2>5. \A a \in A : w[a] \in V
    BY <2>2, <2>4
  <2>6. w = [a \in A |-> w[a]]
    <3>1. DOMAIN w = A
      BY DEF Row
    <3>2. \E F : w = [a \in A |-> F[a]]
      <4> DEFINE F == [a \in A |-> [arr \in Seq(Int) |-> IF a = Nil \/ Len(arr) >= n THEN arr
                           ELSE w[t.child[a]["right"]][Append(w[t.child[a]["left"]][arr], t.key[a])]]]
      <4>1. w = F
        BY DEF Row
      <4>2. F = [a \in A |-> F[a]]
        OBVIOUS
      <4> HIDE DEF F
      <4> QED BY <4>1, <4>2
    <3> HIDE DEF A
    <3> QED BY <3>2
  <2> HIDE DEF V
  <2> QED BY <2>5, <2>6 DEF S
<1> QED BY <1>17, <1>18 DEF S, V

Hits(arr, k) == Cardinality({i \in 1..Len(arr) : arr[i] = k})
Rises(arr) == \A i \in 1..Len(arr) : \A j \in 1..i : arr[j] <= arr[i]

\* arr is out with the keys of the nodes in B, in order, behind it.
Extends(t, B, arr, out) ==
  /\ out \in Seq(Int) /\ Len(out) = Len(arr) + Cardinality(B) /\ Rises(out)
  /\ \A i \in 1..Len(out) : (\E j \in 1..Len(arr) : out[i] = arr[j]) \/ (\E b \in B : out[i] = t.key[b])
  /\ \A k \in Int : Hits(out, k) = Hits(arr, k) + Cardinality({b \in B : t.key[b] = k})

LEMMA HitsType == ASSUME NEW arr \in Seq(Int), NEW k PROVE Hits(arr, k) \in Nat
<1>1. {i \in 1..Len(arr) : arr[i] = k} \subseteq 1..Len(arr) /\ IsFiniteSet(1..Len(arr))
  BY FS_Interval
<1>2. IsFiniteSet({i \in 1..Len(arr) : arr[i] = k})
  BY <1>1, FS_Subset
<1> QED BY <1>2, FS_CardinalityType DEF Hits

\* One key more.
LEMMA AppendHits ==
  ASSUME NEW arr \in Seq(Int), NEW v \in Int
  PROVE  \A k \in Int : Hits(Append(arr, v), k) = Hits(arr, k) + IF v = k THEN 1 ELSE 0
<1> SUFFICES ASSUME NEW k \in Int PROVE Hits(Append(arr, v), k) = Hits(arr, k) + IF v = k THEN 1 ELSE 0
  OBVIOUS
<1> DEFINE m == Len(arr) + 1
           S == {i \in 1..Len(arr) : arr[i] = k}
           T == {i \in 1..Len(Append(arr, v)) : Append(arr, v)[i] = k}
<1>1. T = IF v = k THEN S \cup {m} ELSE S
  <2>1. Len(Append(arr, v)) = m /\ \A i \in 1..m : Append(arr, v)[i] = IF i = m THEN v ELSE arr[i]
    OBVIOUS
  <2>2. 1..m = (1..Len(arr)) \cup {m} /\ m \notin 1..Len(arr)
    OBVIOUS
  <2> HIDE DEF m
  <2> QED BY <2>1, <2>2
<1>2. m \notin S
  OBVIOUS
<1>3. IsFiniteSet(S)
  <2>1. S \subseteq 1..Len(arr) /\ IsFiniteSet(1..Len(arr))
    BY FS_Interval
  <2> HIDE DEF S
  <2> QED BY <2>1, FS_Subset
<1>4. Hits(Append(arr, v), k) = Cardinality(T) /\ Hits(arr, k) = Cardinality(S)
  BY DEF Hits
<1>5. Cardinality(S) \in Nat
  <2> HIDE DEF S
  <2> QED BY <1>3, FS_CardinalityType
<1> HIDE DEF S, T, m
<1>6. Cardinality(S \cup {m}) = Cardinality(S) + 1
  BY <1>2, <1>3, FS_AddElement
<1> QED BY <1>1, <1>4, <1>5, <1>6

LEMMA AppendRises ==
  ASSUME NEW arr \in Seq(Int), NEW v \in Int, Rises(arr), \A i \in 1..Len(arr) : arr[i] <= v
  PROVE  Rises(Append(arr, v))
<1> SUFFICES ASSUME NEW i \in 1..Len(arr) + 1, NEW j \in 1..i PROVE Append(arr, v)[j] <= Append(arr, v)[i]
  BY DEF Rises
<1>1. CASE i = Len(arr) + 1
  BY <1>1
<1>2. CASE i # Len(arr) + 1
  BY <1>2 DEF Rises
<1> QED BY <1>1, <1>2

Splits(sub, a, l, r, P) ==
  Cardinality(sub[a] \cap P) = Cardinality(sub[l] \cap P) + (IF a \in P THEN 1 ELSE 0) + Cardinality(sub[r] \cap P)

\* The nodes of a subtree that have a property are the root, or not, and those of both sides.
LEMMA SplitCount ==
  ASSUME NEW t, IsTree(t), NEW sub, Spans(t, live, sub), NEW a \in live, NEW l, NEW r,
         l = t.child[a]["left"], r = t.child[a]["right"]
  PROVE  \A P : Splits(sub, a, l, r, P)
<1> SUFFICES ASSUME NEW P
             PROVE  Cardinality(sub[a] \cap P) =
                      Cardinality(sub[l] \cap P) + (IF a \in P THEN 1 ELSE 0) + Cardinality(sub[r] \cap P)
  BY DEF Splits
<1> DEFINE L == sub[l] \cap P
           R == sub[r] \cap P
<1>1. "left" \in Side /\ "right" \in Side /\ Other("left") = "right" /\ Other("right") = "left"
  BY DEF Side, Other
<1>2. sub[a] \cap P = (IF a \in P THEN (L \cup R) \cup {a} ELSE L \cup R) /\ a \notin L \cup R /\ L \cap R = {}
  BY <1>1 DEF Spans
<1>3. IsFiniteSet(L) /\ IsFiniteSet(R)
  <2>1. L \subseteq live /\ R \subseteq live
    <3>1. t.child[a]["left"] \in live \cup {Nil} /\ t.child[a]["right"] \in live \cup {Nil}
      BY <1>1, ChildOrNil
    <3>2. sub[t.child[a]["left"]] \subseteq live /\ sub[t.child[a]["right"]] \subseteq live
      BY <3>1 DEF Spans
    <3> QED BY <3>2
  <2>2. IsFiniteSet(live)
    BY Sizes
  <2> HIDE DEF L, R
  <2> QED BY <2>1, <2>2, FS_Subset
<1> HIDE DEF L, R
<1>4. Cardinality(L) \in Nat /\ Cardinality(R) \in Nat
  BY <1>3, FS_CardinalityType
<1>5. IsFiniteSet(L \cup R) /\ Cardinality(L \cup R) = Cardinality(L) + Cardinality(R)
  <2>1. Cardinality(L \cap R) = 0
    BY <1>2, FS_EmptySet
  <2>2. IsFiniteSet(L \cup R) /\ Cardinality(L \cup R) = Cardinality(L) + Cardinality(R) - Cardinality(L \cap R)
    BY <1>3, FS_Union, Zenon
  <2> QED BY <1>4, <2>1, <2>2
<1>6. Cardinality((L \cup R) \cup {a}) = Cardinality(L \cup R) + 1
  BY <1>2, <1>5, FS_AddElement
<1> DEFINE p == Cardinality(L)
           q == Cardinality(R)
           x == IF a \in P THEN 1 ELSE 0
           c == Cardinality(sub[a] \cap P)
           both == Cardinality(L \cup R)
<1>7. c = p + q + x
  <2>1. both = p + q
    BY <1>5
  <2>2. CASE a \in P
    <3>1. c = both + 1
      <4>1. sub[a] \cap P = (L \cup R) \cup {a}
        BY <1>2, <2>2
      <4> QED BY <1>6, <4>1
    <3>2. x = 1
      BY <2>2
    <3> HIDE DEF c, both, p, q, x
    <3> QED BY <2>1, <3>1, <3>2
  <2>3. CASE a \notin P
    <3>1. c = both
      <4>1. sub[a] \cap P = L \cup R
        BY <1>2, <2>3
      <4> QED BY <4>1
    <3>2. x = 0
      BY <2>3
    <3>3. p \in Nat /\ q \in Nat
      BY <1>4
    <3> HIDE DEF c, both, p, q, x
    <3> QED BY <2>1, <3>1, <3>2, <3>3
  <2> QED BY <2>2, <2>3
<1>8. p \in Nat /\ q \in Nat /\ x \in Nat
  BY <1>4
<1>9. c = p + x + q
  <2> HIDE DEF p, q, x, c
  <2> QED BY <1>7, <1>8
<1> QED BY <1>9 DEF L, R

\* arr has room below n for the keys of the nodes in B, which come behind what it holds.
Room(t, B, arr, n) ==
  /\ Rises(arr) /\ Len(arr) + Cardinality(B) <= n
  /\ \A i \in 1..Len(arr) : \A b \in B : arr[i] <= t.key[b]

Fills(t, B, arr, n, out) == Room(t, B, arr, n) => Extends(t, B, arr, out)

\* The keys of the left side, of the node, and of the right side.
LEMMA ThreeParts ==
  ASSUME NEW t, IsTree(t), NEW sub, Spans(t, live, sub), Ordered(t, live, sub), NEW a \in live, NEW n \in Nat,
         NEW arr \in Seq(Int), Room(t, sub[a], arr, n), NEW left, NEW mid, NEW out, NEW k, NEW l, NEW r,
         k = t.key[a], l = t.child[a]["left"], r = t.child[a]["right"], mid = Append(left, k),
         Fills(t, sub[l], arr, n, left), Fills(t, sub[r], mid, n, out)
  PROVE  Len(arr) < n /\ Extends(t, sub[a], arr, out)
<1> DEFINE L == sub[l]
           R == sub[r]
<1>1. /\ sub[a] = {a} \cup L \cup R /\ L \subseteq live /\ R \subseteq live /\ sub[a] \subseteq live
      /\ \A b \in L : t.key[b] <= k
      /\ \A b \in R : k <= t.key[b]
  <2>1. "left" \in Side /\ "right" \in Side /\ Other("left") = "right"
    BY DEF Side, Other
  <2>2. sub[a] = {a} \cup L \cup R
    BY <2>1 DEF Spans
  <2>3. (\A b \in L : Beside("left", t.key[b], k)) /\ (\A b \in R : Beside("right", t.key[b], k))
    BY <2>1 DEF Ordered
  <2>4. sub[a] \subseteq live
    BY DEF Spans
  <2> QED BY <2>2, <2>3, <2>4 DEF Beside
<1>2. \A b \in live : t.key[b] \in Int
  BY NodesAssumption DEF IsTree, Fields, Addr
<1>0. \A P : Splits(sub, a, l, r, P)
  BY SplitCount
<1>3. /\ Cardinality(sub[a]) = Cardinality(L) + 1 + Cardinality(R)
      /\ Cardinality(L) \in Nat /\ Cardinality(R) \in Nat
  <2>1. Cardinality(sub[a] \cap live) = Cardinality(L \cap live) + 1 + Cardinality(R \cap live)
    BY <1>0 DEF Splits
  <2>2. sub[a] \cap live = sub[a] /\ L \cap live = L /\ R \cap live = R
    BY <1>1
  <2>3. IsFiniteSet(live)
    BY Sizes
  <2> HIDE DEF L, R
  <2> QED BY <1>1, <2>1, <2>2, <2>3, FS_Subset, FS_CardinalityType
<1>4. ASSUME NEW v
      PROVE  Cardinality({b \in sub[a] : t.key[b] = v}) = Cardinality({b \in L : t.key[b] = v}) + (IF k = v THEN 1 ELSE 0)
                                                          + Cardinality({b \in R : t.key[b] = v})
  <2> DEFINE P == {b \in live : t.key[b] = v}
  <2>1. Cardinality(sub[a] \cap P) = Cardinality(L \cap P) + (IF a \in P THEN 1 ELSE 0) + Cardinality(R \cap P)
    <3> HIDE DEF P
    <3> QED BY <1>0 DEF Splits
  <2>2. /\ sub[a] \cap P = {b \in sub[a] : t.key[b] = v} /\ L \cap P = {b \in L : t.key[b] = v}
        /\ R \cap P = {b \in R : t.key[b] = v} /\ (a \in P <=> k = v)
    BY <1>1
  <2> HIDE DEF P, L, R
  <2> QED BY <2>1, <2>2
<1>5. ASSUME NEW v PROVE /\ Cardinality({b \in L : t.key[b] = v}) \in Nat /\ Cardinality({b \in R : t.key[b] = v}) \in Nat
  <2>1. IsFiniteSet(live)
    BY Sizes
  <2>2. {b \in L : t.key[b] = v} \subseteq live /\ {b \in R : t.key[b] = v} \subseteq live
    BY <1>1
  <2>3. IsFiniteSet({b \in L : t.key[b] = v}) /\ IsFiniteSet({b \in R : t.key[b] = v})
    <3> HIDE DEF L, R
    <3> QED BY <2>1, <2>2, FS_Subset
  <2> HIDE DEF L, R
  <2> QED BY <2>3, FS_CardinalityType
<1>6. k \in Int
  BY <1>2
<1>7. Room(t, L, arr, n) => Extends(t, L, arr, left)
  BY DEF Fills
<1>8. Room(t, R, mid, n) => Extends(t, R, mid, out)
  BY DEF Fills
<1> DEFINE c == Cardinality(L)
           d == Cardinality(R)
           x == Len(arr)
<1>9. c \in Nat /\ d \in Nat /\ x \in Nat /\ Cardinality(sub[a]) = c + 1 + d
  BY <1>3
<1> HIDE DEF L, R, c, d, x
<1>10. x + (c + 1 + d) <= n
  BY <1>9 DEF Room, x
<1>11. Extends(t, L, arr, left)
  <2>1. x + c <= n
    BY <1>9, <1>10
  <2>2. L \subseteq sub[a]
    BY <1>1
  <2>3. Rises(arr) /\ \A i \in 1..Len(arr) : \A b \in L : arr[i] <= t.key[b]
    BY <2>2 DEF Room
  <2> QED BY <1>7, <2>1, <2>3 DEF Room, c, x
<1>12. /\ left \in Seq(Int) /\ Len(left) = x + c /\ Rises(left)
       /\ \A i \in 1..Len(left) : (\E j \in 1..Len(arr) : left[i] = arr[j]) \/ (\E b \in L : left[i] = t.key[b])
       /\ \A v \in Int : Hits(left, v) = Hits(arr, v) + Cardinality({b \in L : t.key[b] = v})
  BY <1>11 DEF Extends, c, x
<1>13. \A j \in 1..Len(arr) : arr[j] \in Int /\ arr[j] <= k /\ \A b \in R : arr[j] <= t.key[b]
  BY <1>1 DEF Room
<1>14. \A i \in 1..Len(left) : left[i] \in Int /\ left[i] <= k
  <2> SUFFICES ASSUME NEW i \in 1..Len(left) PROVE left[i] \in Int /\ left[i] <= k
    OBVIOUS
  <2>1. CASE \E j \in 1..Len(arr) : left[i] = arr[j]
    BY <1>13, <2>1
  <2>2. CASE \E b \in L : left[i] = t.key[b]
    BY <1>1, <1>2, <2>2
  <2> QED BY <1>12, <2>1, <2>2
<1>15. /\ mid \in Seq(Int) /\ Len(mid) = Len(left) + 1 /\ \A i \in 1..Len(left) : mid[i] = left[i]
       /\ mid[Len(left) + 1] = k /\ Rises(mid) /\ \A i \in 1..Len(mid) : mid[i] \in Int /\ mid[i] <= k
  <2>1. mid \in Seq(Int) /\ Len(mid) = Len(left) + 1 /\ \A i \in 1..Len(left) : mid[i] = left[i]
    BY <1>6, <1>12
  <2>2. mid[Len(left) + 1] = k
    BY <1>6, <1>12
  <2>3. Rises(mid)
    BY <1>6, <1>12, <1>14, AppendRises
  <2>4. ASSUME NEW i \in 1..Len(mid) PROVE mid[i] \in Int /\ mid[i] <= k
    <3>1. i \in 1..Len(left) \/ i = Len(left) + 1
      BY <1>12, <2>1
    <3>2. CASE i = Len(left) + 1
      BY <1>6, <2>2, <3>2
    <3>3. CASE i \in 1..Len(left)
      BY <1>14, <2>1, <3>3
    <3> QED BY <3>1, <3>2, <3>3
  <2> QED BY <2>1, <2>2, <2>3, <2>4
<1>16. \A v \in Int : Hits(mid, v) = Hits(left, v) + IF k = v THEN 1 ELSE 0
  BY <1>6, <1>12, AppendHits
<1>17. Extends(t, R, mid, out)
  <2>1. Len(mid) + d <= n
    BY <1>9, <1>10, <1>12, <1>15
  <2>2. \A i \in 1..Len(mid) : \A b \in R : mid[i] <= t.key[b]
    <3> SUFFICES ASSUME NEW i \in 1..Len(mid), NEW b \in R PROVE mid[i] <= t.key[b]
      OBVIOUS
    <3>1. mid[i] \in Int /\ mid[i] <= k /\ k <= t.key[b] /\ t.key[b] \in Int
      BY <1>1, <1>2, <1>15
    <3> QED BY <1>6, <3>1
  <2> QED BY <1>8, <1>15, <2>1, <2>2 DEF Room, d
<1>18. /\ out \in Seq(Int) /\ Len(out) = Len(mid) + d /\ Rises(out)
       /\ \A i \in 1..Len(out) : (\E j \in 1..Len(mid) : out[i] = mid[j]) \/ (\E b \in R : out[i] = t.key[b])
       /\ \A v \in Int : Hits(out, v) = Hits(mid, v) + Cardinality({b \in R : t.key[b] = v})
  BY <1>17 DEF Extends, d
<1>19. Len(out) = Len(arr) + Cardinality(sub[a])
  BY <1>9, <1>12, <1>15, <1>18 DEF x
<1>20. ASSUME NEW i \in 1..Len(out)
       PROVE  (\E j \in 1..Len(arr) : out[i] = arr[j]) \/ (\E b \in sub[a] : out[i] = t.key[b])
  <2>1. CASE \E b \in R : out[i] = t.key[b]
    BY <1>1, <2>1
  <2>2. CASE \E j \in 1..Len(mid) : out[i] = mid[j]
    <3>1. PICK j \in 1..Len(mid) : out[i] = mid[j]
      BY <2>2
    <3>2. CASE j = Len(left) + 1
      BY <1>1, <1>15, <3>1, <3>2
    <3>3. CASE j \in 1..Len(left)
      <4>1. out[i] = left[j]
        BY <1>15, <3>1, <3>3
      <4>2. (\E m \in 1..Len(arr) : left[j] = arr[m]) \/ (\E b \in L : left[j] = t.key[b])
        BY <1>12, <3>3
      <4> QED BY <1>1, <4>1, <4>2
    <3> QED BY <1>12, <1>15, <3>2, <3>3
  <2> QED BY <1>18, <2>1, <2>2
<1>21. ASSUME NEW v \in Int PROVE Hits(out, v) = Hits(arr, v) + Cardinality({b \in sub[a] : t.key[b] = v})
  <2> DEFINE p == Cardinality({b \in L : t.key[b] = v})
             q == Cardinality({b \in R : t.key[b] = v})
             y == IF k = v THEN 1 ELSE 0
             h == Hits(arr, v)
  <2>1. Hits(out, v) = Hits(mid, v) + q /\ Hits(mid, v) = Hits(left, v) + y /\ Hits(left, v) = h + p
    BY <1>12, <1>16, <1>18
  <2>2. Cardinality({b \in sub[a] : t.key[b] = v}) = p + y + q
    BY <1>4 DEF L, R
  <2>3. p \in Nat /\ q \in Nat /\ y \in Nat /\ h \in Nat
    BY <1>5, HitsType
  <2> HIDE DEF p, q, y, h
  <2>4. Hits(out, v) = h + (p + y + q)
    BY <2>1, <2>3
  <2> QED BY <2>2, <2>4 DEF h
<1>22. Len(arr) < n
  BY <1>9, <1>10 DEF x
<1> QED BY <1>18, <1>19, <1>20, <1>21, <1>22 DEF Extends

\* inorder_arr writes the keys of a subtree, in order, behind what the array holds.
LEMMA SubtreeWritten ==
  ASSUME NEW t, IsTree(t), NEW sub, Spans(t, live, sub), Ordered(t, live, sub), NEW n \in Nat
  PROVE  \A a \in live \cup {Nil} : \A arr \in Seq(Int) : Fills(t, sub[a], arr, n, Written(t, n)[a][arr])
<1> DEFINE w == Written(t, n)
           Good(a) == \A arr \in Seq(Int) : Fills(t, sub[a], arr, n, w[a][arr])
           S == {a \in live : Good(a)}
<1>1. ASSUME NEW a \in live \cup {Nil}, NEW arr \in Seq(Int)
      PROVE  w[a][arr] = IF a = Nil \/ Len(arr) >= n THEN arr
                         ELSE w[t.child[a]["right"]][Append(w[t.child[a]["left"]][arr], t.key[a])]
  <2>1. w = Row(t, n, w)
    BY WrittenExists
  <2> HIDE DEF w
  <2>2. w[a] = Row(t, n, w)[a]
    BY <2>1
  <2> QED BY <2>2 DEF Row
<1>2. w \in [live \cup {Nil} -> [Seq(Int) -> Seq(Int)]]
  BY WrittenExists
<1>3. Nil \notin live /\ \A a \in live : t.key[a] \in Int
  BY NodesAssumption DEF IsTree, Fields, Addr
<1> HIDE DEF w
<1>4. Good(Nil)
  <2> SUFFICES ASSUME NEW arr \in Seq(Int) PROVE Fills(t, sub[Nil], arr, n, w[Nil][arr])
    OBVIOUS
  <2>1. w[Nil][arr] = arr /\ sub[Nil] = {}
    BY <1>1 DEF Spans
  <2>2. Cardinality({}) = 0 /\ \A k : {b \in {} : t.key[b] = k} = {}
    BY FS_EmptySet
  <2>3. \A k \in Int : Hits(arr, k) \in Nat
    BY HitsType
  <2>4. Rises(arr) => Extends(t, {}, arr, arr)
    BY <2>2, <2>3, SMTT(30) DEF Extends
  <2> QED BY <2>1, <2>4 DEF Fills, Room
<1>5. ASSUME NEW a \in live, \A d \in Side : t.child[a][d] \in S \cup {Nil} PROVE a \in S
  <2> SUFFICES ASSUME NEW arr \in Seq(Int), Room(t, sub[a], arr, n)
               PROVE  Extends(t, sub[a], arr, w[a][arr])
    BY DEF Fills
  <2> DEFINE l == t.child[a]["left"]
             r == t.child[a]["right"]
             k == t.key[a]
             left == w[l][arr]
             mid == Append(left, k)
             out == w[r][mid]
  <2>1. Good(l) /\ Good(r) /\ l \in live \cup {Nil} /\ r \in live \cup {Nil}
    BY <1>4, <1>5 DEF Side
  <2>2. k \in Int
    BY <1>3
  <2>3. a # Nil /\ w[a][arr] = IF Len(arr) >= n THEN arr ELSE out
    BY <1>1, <1>3
  <2>4. k = t.key[a] /\ l = t.child[a]["left"] /\ r = t.child[a]["right"]
    OBVIOUS
  <2> HIDE DEF Good, l, r, k
  <2>5. left \in Seq(Int) /\ mid \in Seq(Int)
    <3>1. left \in Seq(Int)
      BY <1>2, <2>1
    <3> HIDE DEF left
    <3> QED BY <2>2, <3>1
  <2>6. mid = Append(left, k)
    OBVIOUS
  <2> HIDE DEF mid, left
  <2>7. Fills(t, sub[l], arr, n, left) /\ Fills(t, sub[r], mid, n, out)
    BY <2>1, <2>5 DEF Good, left
  <2> HIDE DEF out
  <2>8. Len(arr) < n /\ Extends(t, sub[a], arr, out)
    BY <2>4, <2>6, <2>7, ThreeParts
  <2>9. ~(Len(arr) >= n)
    BY <2>8
  <2> QED BY <2>3, <2>8, <2>9
<1>6. live \subseteq S
  <2> HIDE DEF S
  <2> QED BY <1>5, BottomUp
<1> QED BY <1>4, <1>6 DEF w

LEMMA EmptyArray == /\ << >> \in Seq(Int) /\ Len(<< >>) = 0
                    /\ Rises(<< >>) /\ \A k : Hits(<< >>, k) = 0
<1>1. << >> \in Seq(Int) /\ Len(<< >>) = 0
  OBVIOUS
<1>2. 1..0 = {}
  OBVIOUS
<1>3. \A k : {i \in 1..Len(<< >>) : << >>[i] = k} = {}
  BY <1>1, <1>2
<1> QED BY <1>1, <1>2, <1>3, FS_EmptySet DEF Rises, Hits

\* An array as long as the tree gets its sorted contents.
LEMMA ArrayFilled ==
  ASSUME NEW t, IsTree(t), NEW sub, Spans(t, live, sub), Ordered(t, live, sub), NEW arr,
         arr = rbtree_to_array(t, Cardinality(live))
  PROVE  /\ arr \in Seq(Int) /\ Rises(arr)
         /\ \A k \in Int : Hits(arr, k) = Cardinality({a \in live : t.key[a] = k})
<1> DEFINE n == Cardinality(live)
<1>1. n \in Nat
  BY Sizes, FS_CardinalityType
<1>2. arr = Written(t, n)[t.root][<< >>]
  BY DEF rbtree_to_array, Written, Row
<1>3. t.root \in live \cup {Nil} /\ sub[t.root] = live
  BY DEF IsTree, LinkedIn, Spans
<1> HIDE DEF n
<1>4. Fills(t, live, << >>, n, arr)
  BY <1>1, <1>2, <1>3, SubtreeWritten, EmptyArray
<1>5. Room(t, live, << >>, n)
  <2>1. Len(<< >>) + Cardinality(live) <= n
    BY <1>1, EmptyArray DEF n
  <2>2. 1..Len(<< >>) = {}
    BY EmptyArray
  <2> QED BY <2>1, <2>2, EmptyArray DEF Room
<1>6. Extends(t, live, << >>, arr)
  BY <1>4, <1>5 DEF Fills
<1>7. arr \in Seq(Int) /\ Rises(arr)
  BY <1>6 DEF Extends
<1>8. ASSUME NEW k \in Int PROVE Hits(arr, k) = Cardinality({a \in live : t.key[a] = k})
  <2>1. Hits(arr, k) = Hits(<< >>, k) + Cardinality({a \in live : t.key[a] = k})
    BY <1>6 DEF Extends
  <2>2. Cardinality({a \in live : t.key[a] = k}) \in Nat
    <3>1. IsFiniteSet(live) /\ {a \in live : t.key[a] = k} \subseteq live
      BY Sizes
    <3> QED BY <3>1, FS_Subset, FS_CardinalityType
  <2> DEFINE c == Cardinality({a \in live : t.key[a] = k})
  <2> HIDE DEF c
  <2> QED BY <2>1, <2>2, EmptyArray DEF c
<1> QED BY <1>7, <1>8

(***************************************************************************)
(* Between two calls a search finds a node with its key when there is one, *)
(* min and max are the ends of the order, and an array as long as the tree *)
(* is filled with its keys, each as often as it occurs, in order.          *)
(***************************************************************************)
THEOREM QueriesHold == Spec => []Queries
<1>1. TreeInv => Queries
  <2> SUFFICES ASSUME TreeInv PROVE Queries
    OBVIOUS
  <2>1. IsTree(tree) /\ DescentsEnd
    BY InvGivesCalls DEF TreeInv, CheckInv
  <2>2. PICK sub : Spans(tree, live, sub) /\ Ordered(tree, live, sub)
    BY DEF TreeInv, InOrder
  <2>3. ASSUME NEW k \in Keys
        PROVE  IF Count(k) = 0 THEN rbtree_find(tree, k) = Null
               ELSE rbtree_find(tree, k) \in live /\ tree.key[rbtree_find(tree, k)] = k
    <3> DEFINE S == {a \in live : tree.key[a] = k}
    <3>1. k \in Int
      BY KeysAssumption
    <3>2. Count(k) = Cardinality(S) /\ IsFiniteSet(S)
      BY <2>1, CountType DEF Count
    <3>3. Cardinality(S) = 0 <=> S = {}
      <4> HIDE DEF S
      <4> QED BY <3>2, FS_EmptySet
    <3>4. \/ rbtree_find(tree, k) \in live /\ tree.key[rbtree_find(tree, k)] = k
          \/ rbtree_find(tree, k) = Null /\ \A a \in live : tree.key[a] # k
      BY <2>1, <2>2, <3>1, FindFinds
    <3> QED BY <3>2, <3>3, <3>4
  <2>4. /\ live = {} => rbtree_min(tree) = Null /\ rbtree_max(tree) = Null
        /\ \A a \in live : tree.key[rbtree_min(tree)] <= tree.key[a]
                           /\ tree.key[a] <= tree.key[rbtree_max(tree)]
    BY <2>1, <2>2, EndsFound
  <2> DEFINE arr == rbtree_to_array(tree, Cardinality(live))
  <2>5. /\ \A i \in 2..Len(arr) : arr[i-1] <= arr[i]
        /\ \A k \in Keys : Cardinality({i \in DOMAIN arr : arr[i] = k}) = Count(k)
    <3>1. /\ arr \in Seq(Int) /\ Rises(arr)
          /\ \A k \in Int : Hits(arr, k) = Cardinality({a \in live : tree.key[a] = k})
      <4> HIDE DEF arr
      <4>1. arr = rbtree_to_array(tree, Cardinality(live))
        BY DEF arr
      <4> QED BY <2>1, <2>2, <4>1, ArrayFilled
    <3> HIDE DEF arr
    <3>2. DOMAIN arr = 1..Len(arr)
      BY <3>1
    <3>3. \A i \in 2..Len(arr) : i \in 1..Len(arr) /\ i - 1 \in 1..i
      BY <3>1
    <3> QED BY <3>1, <3>2, <3>3, KeysAssumption DEF Rises, Hits, Count
  <2> HIDE DEF DescentsEnd
  <2> QED BY <2>1, <2>3, <2>4, <2>5 DEF Queries
<1> QED BY <1>1, InvHolds, PTL

=============================================================================
