---------------------------- MODULE AvlTreeProofs ----------------------------
(***************************************************************************)
(* Proofs about the tree of AvlTree, for all keys and cells: rotations and *)
(* unlinking keep one tree whose nodes are in order, so the iterators and  *)
(* find are exact and the tree implements the ordered set of OrderedSet.   *)
(* Heights come last: insertions alone keep the tree balanced until a      *)
(* rebalancing ends in _rotate_left.                                       *)
(*                                                                         *)
(* What holds of a tree is stated once for both sides.  bound assigns to   *)
(* each node the two ancestors between whose keys its whole subtree lies.  *)
(***************************************************************************)
EXTENDS AvlTree, FiniteSetTheorems, TLAPS

-----------------------------------------------------------------------------
(* Sides and the order towards them.                                       *)

Sides == {"left_kid", "right_kid"}

Other(side) == IF side = "left_kid" THEN "right_kid" ELSE "left_kid"

(* The key j lies on this side of the key k.                               *)
Toward(side, j, k) == IF side = "left_kid" THEN j < k ELSE k < j

(* Each side has exactly one other side.                                   *)
LEMMA SideFacts ==
  /\ "left_kid" \in Sides /\ "right_kid" \in Sides
  /\ Other("left_kid") = "right_kid" /\ Other("right_kid") = "left_kid"
  /\ \A s \in Sides : Other(s) \in Sides /\ Other(s) # s /\ Other(Other(s)) = s
  /\ \A s, o \in Sides : o = s \/ o = Other(s)
BY DEF Sides, Other

(* The keys are ordered strictly and linearly towards each side.           *)
LEMMA TowardOrder ==
  /\ \A s \in Sides, i \in Int : ~Toward(s, i, i)
  /\ \A s \in Sides, i, j, k \in Int : Toward(s, i, j) /\ Toward(s, j, k) => Toward(s, i, k)
  /\ \A s \in Sides, i, j \in Int : Toward(Other(s), i, j) <=> Toward(s, j, i)
  /\ \A s \in Sides, i, j \in Int : i = j \/ Toward(s, i, j) \/ Toward(s, j, i)
BY DEF Sides, Other, Toward

-----------------------------------------------------------------------------
(* A tree and its fields.                                                  *)

Nodes(t) == DOMAIN t.node
Key(t, n) == t.node[n].key
Parent(t, n) == t.node[n].parent
Kid(t, n, side) == t.node[n][side]

IsTree(t) ==
  /\ t = [alive |-> t.alive, root |-> t.root, tree_size |-> t.tree_size, node |-> t.node]
  /\ t.alive \in BOOLEAN
  /\ DOMAIN t.node \subseteq Cells
  /\ t.node \in [DOMAIN t.node -> NodeType]
  /\ IsFiniteSet(DOMAIN t.node)
  /\ t.tree_size = Cardinality(DOMAIN t.node)

(* Parents and kids agree, and no set of nodes is closed under parents:    *)
(* from each node the parents lead to the root.                            *)
Linked(t) ==
  /\ t.root \in Nodes(t) \cup {NULL}
  /\ \A n \in Nodes(t) : Parent(t, n) \in Nodes(t) \cup {NULL}
  /\ \A n \in Nodes(t) : Parent(t, n) = NULL <=> n = t.root
  /\ \A n \in Nodes(t), s \in Sides :
       Kid(t, n, s) # NULL => /\ Kid(t, n, s) \in Nodes(t)
                              /\ Parent(t, Kid(t, n, s)) = n
                              /\ Kid(t, n, s) # Kid(t, n, Other(s))
  /\ \A n \in Nodes(t) : Parent(t, n) # NULL => \E s \in Sides : Kid(t, Parent(t, n), s) = n
  /\ \A S \in SUBSET Nodes(t) : S # {} => \E n \in S : Parent(t, n) \notin S

(* Two bounds, each an ancestor or NULL, for each node: the kid on a side  *)
(* shares the bound on that side and has its parent as the other one.      *)
Bounds(t, bound) ==
  /\ bound \in [Nodes(t) -> [Sides -> Nodes(t) \cup {NULL}]]
  /\ t.root # NULL => \A s \in Sides : bound[t.root][s] = NULL
  /\ \A n \in Nodes(t), s \in Sides :
       Kid(t, n, s) # NULL => /\ bound[Kid(t, n, s)][s] = bound[n][s]
                              /\ bound[Kid(t, n, s)][Other(s)] = n

(* The key k lies between the bounds of n.                                 *)
Within(t, bound, n, k) ==
  \A s \in Sides : bound[n][s] # NULL => Toward(s, Key(t, bound[n][s]), k)

(* Each node lies between its bounds.                                      *)
InOrder(t, bound) ==
  Bounds(t, bound) /\ \A n \in Nodes(t) : Within(t, bound, n, Key(t, n))

(* The fields of nodes have their types.                                   *)
LEMMA FieldTypes ==
  ASSUME NEW t, IsTree(t), NEW n \in Nodes(t)
  PROVE  /\ n \in Cells /\ n # NULL
         /\ Key(t, n) \in Keys /\ Key(t, n) \in Int
         /\ Parent(t, n) \in Cells \cup {NULL}
         /\ \A s \in Sides : Kid(t, n, s) \in Cells \cup {NULL}
         /\ t.node[n].subtree_height \in Nat \ {0}
         /\ t.node[n].left_kid = Kid(t, n, "left_kid")
         /\ t.node[n].right_kid = Kid(t, n, "right_kid")
         /\ t.node[n].parent = Parent(t, n)
<1>1. t.node[n] \in NodeType /\ n \in Cells
  BY DEF IsTree, Nodes
<1> QED BY <1>1, AvlTreeAssumption DEF NodeType, Key, Parent, Kid, Sides

(* The root of a tree is found in a tree that has nodes.                   *)
LEMMA RootExists ==
  ASSUME NEW t, IsTree(t), Linked(t), Nodes(t) # {}
  PROVE  t.root \in Nodes(t)
<1>1. PICK n \in Nodes(t) : Parent(t, n) \notin Nodes(t)
  BY DEF Linked
<1> QED BY <1>1 DEF Linked

(* Between the bounds of a kid lie the keys between the bounds of its      *)
(* parent that are on its side.                                            *)
LEMMA WithinKid ==
  ASSUME NEW t, IsTree(t), Linked(t), NEW bound, InOrder(t, bound),
         NEW n \in Nodes(t), NEW s \in Sides, Kid(t, n, s) # NULL, NEW k \in Int
  PROVE  Within(t, bound, Kid(t, n, s), k)
           <=> Within(t, bound, n, k) /\ Toward(s, k, Key(t, n))
<1> DEFINE c == Kid(t, n, s)
<1>1. c \in Nodes(t) /\ bound[c][s] = bound[n][s] /\ bound[c][Other(s)] = n /\ n # NULL
  BY FieldTypes DEF Linked, InOrder, Bounds
<1>2. \A o \in Sides : o = s \/ o = Other(s)
  BY SideFacts
<1>3. Other(s) \in Sides /\ s = Other(Other(s))
  BY SideFacts
<1>4. Key(t, n) \in Int /\ (\A o \in Sides : bound[n][o] # NULL => Key(t, bound[n][o]) \in Int)
  BY FieldTypes DEF InOrder, Bounds
<1>5. Toward(s, k, Key(t, n)) <=> Toward(Other(s), Key(t, n), k)
  BY <1>3, <1>4, TowardOrder
<1>6. Within(t, bound, c, k)
        <=> /\ bound[n][s] # NULL => Toward(s, Key(t, bound[n][s]), k)
            /\ Toward(Other(s), Key(t, n), k)
  BY <1>1, <1>2, <1>3 DEF Within
<1>7. ASSUME Toward(Other(s), Key(t, n), k), bound[n][Other(s)] # NULL
      PROVE  Toward(Other(s), Key(t, bound[n][Other(s)]), k)
  <2>1. Toward(Other(s), Key(t, bound[n][Other(s)]), Key(t, n))
    BY <1>3, <1>7 DEF InOrder, Within
  <2> QED BY <2>1, <1>3, <1>4, <1>7, TowardOrder
<1>8. Within(t, bound, n, k)
        <=> /\ bound[n][s] # NULL => Toward(s, Key(t, bound[n][s]), k)
            /\ bound[n][Other(s)] # NULL => Toward(Other(s), Key(t, bound[n][Other(s)]), k)
  BY <1>2, <1>3 DEF Within
<1> HIDE DEF c
<1>9. Within(t, bound, c, k) <=> Within(t, bound, n, k) /\ Toward(s, k, Key(t, n))
  BY <1>5, <1>6, <1>7, <1>8
<1> QED BY <1>9 DEF c

-----------------------------------------------------------------------------
(* Paths from the root.                                                    *)

(* The subtrees of nodes shrink from kid to kid, so a set of nodes has one *)
(* without kids in the set.                                                *)
LEMMA LowestNode ==
  ASSUME NEW t, IsTree(t), Linked(t), NEW bound, InOrder(t, bound),
         NEW D \in SUBSET Nodes(t), D # {}
  PROVE  \E m \in D : \A s \in Sides : Kid(t, m, s) \notin D
<1> DEFINE Sub(m) == {x \in Nodes(t) : Within(t, bound, m, Key(t, x))}
           T == {Sub(m) : m \in D}
           R == StrictSubsetOrdering(Nodes(t))
<1>1. IsWellFoundedOn(R, SUBSET Nodes(t))
  BY FS_StrictSubsetOrderingWellFounded, FS_FiniteSubsetsOfFinite DEF IsTree, Nodes
<1>2. T \subseteq SUBSET Nodes(t) /\ T # {}
  OBVIOUS
<1>3. PICK least \in T : \A y \in T : <<y, least>> \notin R
  <2> HIDE DEF T, R
  <2> QED BY <1>1, <1>2, WFMin
<1>4. PICK m \in D : least = Sub(m)
  OBVIOUS
<1>5. ASSUME NEW s \in Sides, Kid(t, m, s) \in D
      PROVE  FALSE
  <2> DEFINE c == Kid(t, m, s)
  <2>1. c # NULL /\ m \in Nodes(t) /\ c \in Nodes(t)
    BY <1>5, FieldTypes
  <2>2. \A x \in Nodes(t) : Within(t, bound, c, Key(t, x))
           <=> Within(t, bound, m, Key(t, x)) /\ Toward(s, Key(t, x), Key(t, m))
    BY <2>1, WithinKid, FieldTypes
  <2>3. Sub(c) \subseteq Sub(m)
    BY <2>2
  <2>4. m \in Sub(m) /\ m \notin Sub(c)
    BY <2>1, <2>2, TowardOrder, FieldTypes DEF InOrder
  <2>5. <<Sub(c), Sub(m)>> \in R
    BY <2>3, <2>4 DEF StrictSubsetOrdering
  <2>6. Sub(c) \in T
    BY <1>5
  <2> QED BY <1>3, <1>4, <2>5, <2>6
<1> QED BY <1>5

ParentClosed(t, S) == \A m \in S : Parent(t, m) # NULL => Parent(t, m) \in S

(* The node q, its parent, the parent of that one, up to the root.         *)
Ancestors(t, q) ==
  {m \in Nodes(t) : \A S \in SUBSET Nodes(t) : q \in S /\ ParentClosed(t, S) => m \in S}

(* The ancestors of a node form a path from the root to it.                *)
LEMMA AncestorFacts ==
  ASSUME NEW t, IsTree(t), Linked(t), NEW q \in Nodes(t)
  PROVE  /\ q \in Ancestors(t, q) /\ t.root \in Ancestors(t, q)
         /\ ParentClosed(t, Ancestors(t, q))
         /\ \A a \in Ancestors(t, q) \ {q} : \E s \in Sides :
              Kid(t, a, s) # NULL /\ Kid(t, a, s) \in Ancestors(t, q)
<1> DEFINE A == Ancestors(t, q)
<1>1. q \in A /\ A \in SUBSET Nodes(t)
  BY DEF Ancestors
<1>2. ParentClosed(t, A)
  <2> SUFFICES ASSUME NEW m \in A, Parent(t, m) # NULL PROVE Parent(t, m) \in A
    BY DEF ParentClosed
  <2>1. Parent(t, m) \in Nodes(t)
    BY <1>1 DEF Linked
  <2>2. ASSUME NEW S \in SUBSET Nodes(t), q \in S, ParentClosed(t, S)
        PROVE  Parent(t, m) \in S
    BY <2>2 DEF Ancestors, ParentClosed
  <2> QED BY <2>1, <2>2 DEF Ancestors
<1>3. t.root \in A
  <2>1. PICK m \in A : Parent(t, m) \notin A
    BY <1>1 DEF Linked
  <2>2. Parent(t, m) = NULL /\ m \in Nodes(t)
    BY <1>1, <1>2, <2>1 DEF ParentClosed
  <2> QED BY <2>2 DEF Linked
<1>4. ASSUME NEW a \in A \ {q}
      PROVE  \E s \in Sides : Kid(t, a, s) # NULL /\ Kid(t, a, s) \in A
  <2>1. A \ {a} \in SUBSET Nodes(t) /\ q \in A \ {a} /\ a \notin A \ {a}
    BY <1>1
  <2>2. ~ParentClosed(t, A \ {a})
    BY <2>1 DEF Ancestors
  <2>3. PICK m \in A \ {a} : Parent(t, m) # NULL /\ Parent(t, m) \notin A \ {a}
    BY <2>2 DEF ParentClosed
  <2>4. Parent(t, m) = a
    BY <1>2, <2>3 DEF ParentClosed
  <2>5. PICK s \in Sides : Kid(t, a, s) = m
    BY <1>1, <2>3, <2>4 DEF Linked
  <2>6. m # NULL
    BY <1>1, FieldTypes
  <2> QED BY <2>5, <2>6
<1> QED BY <1>1, <1>2, <1>3, <1>4

(* A kid comes with the side on which its parent has it.                   *)
LEMMA KidOfParent ==
  ASSUME NEW t, IsTree(t), Linked(t), NEW n \in Nodes(t), Parent(t, n) # NULL
  PROVE  /\ Parent(t, n) \in Nodes(t)
         /\ \E s \in Sides : Kid(t, Parent(t, n), s) = n
BY DEF Linked

(* The nodes between whose bounds a stored key lies are the ancestors of   *)
(* the node that stores it.                                                *)
LEMMA WithinAreAncestors ==
  ASSUME NEW t, IsTree(t), Linked(t), NEW bound, InOrder(t, bound),
         NEW q \in Nodes(t), NEW n \in Nodes(t)
  PROVE  n \in Ancestors(t, q) <=> Within(t, bound, n, Key(t, q))
<1> DEFINE A == Ancestors(t, q)
           W == {m \in Nodes(t) : Within(t, bound, m, Key(t, q))}
<1>0. Key(t, q) \in Int
  BY FieldTypes
<1>1. \A m \in Nodes(t), s \in Sides : Kid(t, m, s) # NULL =>
        (Kid(t, m, s) \in W <=> m \in W /\ Toward(s, Key(t, q), Key(t, m)))
  BY <1>0, WithinKid DEF Linked
<1>2. A \subseteq W
  <2>1. q \in W
    BY DEF InOrder
  <2>2. ASSUME NEW m \in W, Parent(t, m) # NULL PROVE Parent(t, m) \in W
    <3>1. m # NULL
      BY FieldTypes
    <3>2. PICK s \in Sides : Kid(t, Parent(t, m), s) = m
      BY <2>2, KidOfParent
    <3>3. Parent(t, m) \in Nodes(t)
      BY <2>2, KidOfParent
    <3> HIDE DEF W
    <3> QED BY <1>1, <3>1, <3>2, <3>3
  <2>3. ParentClosed(t, W)
    BY <2>2 DEF ParentClosed
  <2>4. W \in SUBSET Nodes(t)
    OBVIOUS
  <2> HIDE DEF W
  <2> QED BY <2>1, <2>3, <2>4 DEF Ancestors
<1> HIDE DEF W
<1>3. W \subseteq A
  <2> SUFFICES ASSUME W \ A # {} PROVE FALSE
    OBVIOUS
  <2>1. W \ A \in SUBSET Nodes(t)
    BY DEF W
  <2>2. PICK m \in W \ A : Parent(t, m) \notin W \ A
    BY <2>1 DEF Linked
  <2>3. Parent(t, m) # NULL
    BY <2>1, <2>2, AncestorFacts DEF Linked
  <2> DEFINE p == Parent(t, m)
  <2>4. p \in Nodes(t) /\ m # NULL
    BY <2>1, <2>3, KidOfParent, FieldTypes
  <2>5. PICK s \in Sides : Kid(t, p, s) = m
    BY <2>1, <2>3, KidOfParent
  <2>6. p \in W /\ Toward(s, Key(t, q), Key(t, p))
    BY <1>1, <2>4, <2>5
  <2>7. p # q
    BY <1>0, <2>6, TowardOrder
  <2>8. PICK o \in Sides : Kid(t, p, o) # NULL /\ Kid(t, p, o) \in A
    BY <2>2, <2>6, <2>7, AncestorFacts
  <2>9. Toward(o, Key(t, q), Key(t, p))
    BY <1>1, <1>2, <2>4, <2>8
  <2>10. o = s
    <3>1. o = s \/ o = Other(s)
      BY SideFacts
    <3>2. Key(t, p) \in Int
      BY <2>4, FieldTypes
    <3>3. ~(Toward(s, Key(t, q), Key(t, p)) /\ Toward(Other(s), Key(t, q), Key(t, p)))
      BY <1>0, <3>2, TowardOrder
    <3> QED BY <2>6, <2>9, <3>1, <3>3
  <2> QED BY <2>2, <2>5, <2>8, <2>10
<1> QED BY <1>2, <1>3 DEF W

(* On the way down to a stored key there is a kid until its node is        *)
(* reached.                                                                *)
LEMMA PathGoesOn ==
  ASSUME NEW t, IsTree(t), Linked(t), NEW bound, InOrder(t, bound),
         NEW q \in Nodes(t), NEW n \in Nodes(t), Within(t, bound, n, Key(t, q)), n # q
  PROVE  \E s \in Sides : /\ Kid(t, n, s) \in Nodes(t)
                          /\ Within(t, bound, Kid(t, n, s), Key(t, q))
                          /\ Toward(s, Key(t, q), Key(t, n))
<1>1. PICK s \in Sides : Kid(t, n, s) # NULL /\ Kid(t, n, s) \in Ancestors(t, q)
  BY WithinAreAncestors, AncestorFacts
<1>2. Kid(t, n, s) \in Nodes(t)
  BY <1>1 DEF Linked
<1>3. Within(t, bound, Kid(t, n, s), Key(t, q))
  BY <1>1, <1>2, WithinAreAncestors
<1>4. Toward(s, Key(t, q), Key(t, n))
  BY <1>1, <1>3, WithinKid, FieldTypes
<1> QED BY <1>2, <1>3, <1>4

(* No key is stored twice.                                                 *)
LEMMA UniqueKeys ==
  ASSUME NEW t, IsTree(t), Linked(t), NEW bound, InOrder(t, bound),
         NEW q \in Nodes(t), NEW n \in Nodes(t), Key(t, n) = Key(t, q)
  PROVE  n = q
<1> SUFFICES ASSUME n # q PROVE FALSE
  OBVIOUS
<1>1. Within(t, bound, n, Key(t, q))
  BY DEF InOrder
<1>2. PICK s \in Sides : Toward(s, Key(t, q), Key(t, n))
  BY <1>1, PathGoesOn
<1> QED BY <1>2, FieldTypes, TowardOrder

(* A stored key between the bounds of a node has a kid of the node on its  *)
(* side.                                                                   *)
LEMMA KidTowardsKey ==
  ASSUME NEW t, IsTree(t), Linked(t), NEW bound, InOrder(t, bound),
         NEW q \in Nodes(t), NEW n \in Nodes(t), NEW s \in Sides,
         Within(t, bound, n, Key(t, q)), Toward(s, Key(t, q), Key(t, n))
  PROVE  Kid(t, n, s) # NULL
<1>1. Key(t, q) \in Int /\ Key(t, n) \in Int
  BY FieldTypes
<1>2. n # q
  BY <1>1, TowardOrder
<1>3. PICK o \in Sides : Kid(t, n, o) \in Nodes(t) /\ Toward(o, Key(t, q), Key(t, n))
  BY <1>2, PathGoesOn
<1>4. o = s \/ o = Other(s)
  BY SideFacts
<1>5. o = s
  BY <1>1, <1>3, <1>4, TowardOrder
<1> QED BY <1>3, <1>5, FieldTypes

-----------------------------------------------------------------------------
(* Loops: the recursive functions of AvlTree exist.                        *)

(* The states that a loop with the condition go and the step nx reaches    *)
(* from x.                                                                 *)
Reach(L, go, nx, x) ==
  {y \in L : \A S \in SUBSET L : x \in S /\ (\A z \in S : go[z] => nx[z] \in S) => y \in S}

(* Stepping once does not change where a loop may end.                     *)
LEMMA ReachSteps ==
  ASSUME NEW L, NEW go, NEW nx, \A x \in L : go[x] => nx[x] \in L, NEW x \in L
  PROVE  /\ go[x] => {y \in Reach(L, go, nx, x) : ~go[y]} = {y \in Reach(L, go, nx, nx[x]) : ~go[y]}
         /\ ~go[x] => {y \in Reach(L, go, nx, x) : ~go[y]} = {x}
<1> DEFINE R(y) == Reach(L, go, nx, y)
           Closed(S) == \A z \in S : go[z] => nx[z] \in S
<1>1. \A y \in L : y \in R(y) /\ Closed(R(y)) /\ R(y) \in SUBSET L
  BY DEF Reach
<1>2. \A y \in L, S \in SUBSET L : y \in S /\ Closed(S) => R(y) \subseteq S
  BY DEF Reach
<1> HIDE DEF R
<1>3. CASE go[x]
  <2>1. R(nx[x]) \subseteq R(x)
    BY <1>1, <1>2, <1>3
  <2>2. R(x) \subseteq {x} \cup R(nx[x])
    <3> DEFINE S == {x} \cup R(nx[x])
    <3>1. S \in SUBSET L /\ x \in S /\ Closed(S)
      BY <1>1, <1>3
    <3> HIDE DEF S
    <3>2. R(x) \subseteq S
      BY <1>2, <3>1
    <3> QED BY <3>2 DEF S
  <2> QED BY <1>3, <2>1, <2>2 DEF R
<1>4. CASE ~go[x]
  <2> DEFINE S == {x}
  <2>1. S \in SUBSET L /\ x \in S /\ Closed(S)
    BY <1>4
  <2> HIDE DEF S
  <2>2. R(x) \subseteq S
    BY <1>2, <2>1
  <2> QED BY <1>1, <1>4, <2>2 DEF R, S
<1> QED BY <1>3, <1>4

(* f assigns to each state of a loop the result val of the last one.       *)
IsLoop(f, L, go, nx, val) == f = [x \in L |-> IF go[x] THEN f[nx[x]] ELSE val[x]]

(* There is a function from the states of a loop to its result.            *)
LEMMA LoopFunction ==
  ASSUME NEW L, NEW go, NEW nx, NEW val, \A x \in L : go[x] => nx[x] \in L
  PROVE  \E f : IsLoop(f, L, go, nx, val)
<1> DEFINE Stops(x) == {y \in Reach(L, go, nx, x) : ~go[y]}
           f == [x \in L |-> val[CHOOSE y : y \in Stops(x)]]
<1>1. ASSUME NEW x \in L
      PROVE  f[x] = IF go[x] THEN f[nx[x]] ELSE val[x]
  <2>1. CASE go[x]
    <3>1. nx[x] \in L /\ Stops(x) = Stops(nx[x])
      BY <2>1, ReachSteps
    <3> HIDE DEF Stops
    <3>2. f[x] = f[nx[x]]
      BY <3>1
    <3> QED BY <2>1, <3>2
  <2>2. CASE ~go[x]
    <3>1. Stops(x) = {x}
      BY <2>2, ReachSteps
    <3>2. (CHOOSE y : y \in Stops(x)) = x
      BY <3>1
    <3>3. f[x] = val[x]
      BY <3>2
    <3> HIDE DEF f
    <3> QED BY <2>2, <3>3
  <2> QED BY <2>1, <2>2
<1>2. f = [x \in L |-> IF go[x] THEN f[nx[x]] ELSE val[x]]
  <2> HIDE DEF Stops
  <2> DEFINE g == [x \in L |-> IF go[x] THEN f[nx[x]] ELSE val[x]]
  <2>1. \A x \in L : f[x] = g[x]
    BY <1>1
  <2>2. f = g
    BY <2>1
  <2> QED BY <2>2
<1> QED BY <1>2 DEF IsLoop

(* Loops over the nodes of a tree that end with the node itself: the       *)
(* function down of outermost.                                             *)
LEMMA OutermostStep ==
  ASSUME NEW t, IsTree(t), Linked(t), NEW side \in Sides
  PROVE  \A n \in Nodes(t) :
           outermost(t, n, side) = IF Kid(t, n, side) = NULL THEN n
                                   ELSE outermost(t, Kid(t, n, side), side)
<1> DEFINE Eq(f) == f = [m \in DOMAIN t.node |->
                           IF t.node[m][side] = NULL THEN m ELSE f[t.node[m][side]]]
           down == CHOOSE f : Eq(f)
<1>1. \E f : Eq(f)
  <2> DEFINE go == [m \in DOMAIN t.node |-> t.node[m][side] # NULL]
             nx == [m \in DOMAIN t.node |-> t.node[m][side]]
             val == [m \in DOMAIN t.node |-> m]
  <2>1. \A m \in DOMAIN t.node : go[m] => nx[m] \in DOMAIN t.node
    BY DEF Linked, Kid, Nodes
  <2>2. PICK f : IsLoop(f, DOMAIN t.node, go, nx, val)
    <3> HIDE DEF go, nx, val
    <3> QED BY <2>1, LoopFunction
  <2>3. Eq(f)
    BY <2>2 DEF IsLoop
  <2> QED BY <2>3
<1>2. Eq(down)
  <2> HIDE DEF Eq
  <2> QED BY <1>1
<1>3. \A n : outermost(t, n, side) = down[n]
  BY DEF outermost
<1>4. \A n \in Nodes(t) : down[n] = IF t.node[n][side] = NULL THEN n ELSE down[t.node[n][side]]
  <2> HIDE DEF down
  <2> QED BY <1>2 DEF Nodes
<1> HIDE DEF down, Eq
<1> QED BY <1>3, <1>4 DEF Kid

(* The chain of kids on one side ends at the outermost node of the         *)
(* subtree: it has no kid there, and only the bound on that side.          *)
LEMMA OutermostFacts ==
  ASSUME NEW t, IsTree(t), Linked(t), NEW bound, InOrder(t, bound),
         NEW side \in Sides, NEW n \in Nodes(t)
  PROVE  LET o == outermost(t, n, side)
         IN  /\ o \in Nodes(t) /\ Kid(t, o, side) = NULL
             /\ bound[o][side] = bound[n][side]
             /\ Within(t, bound, n, Key(t, o))
<1> DEFINE out(m) == outermost(t, m, side)
           Good(m) == /\ out(m) \in Nodes(t) /\ Kid(t, out(m), side) = NULL
                      /\ bound[out(m)][side] = bound[m][side]
                      /\ Within(t, bound, m, Key(t, out(m)))
           D == {m \in Nodes(t) : ~Good(m)}
<1>1. SUFFICES ASSUME D # {} PROVE FALSE
  OBVIOUS
<1>2. PICK m \in D : \A s \in Sides : Kid(t, m, s) \notin D
  <2> HIDE DEF D
  <2>1. D \in SUBSET Nodes(t)
    BY DEF D
  <2> QED BY <1>1, <2>1, LowestNode
<1>3. m \in Nodes(t)
  OBVIOUS
<1>4. out(m) = IF Kid(t, m, side) = NULL THEN m ELSE out(Kid(t, m, side))
  BY <1>3, OutermostStep
<1>5. CASE Kid(t, m, side) = NULL
  BY <1>3, <1>4, <1>5 DEF InOrder
<1>6. CASE Kid(t, m, side) # NULL
  <2> DEFINE c == Kid(t, m, side)
  <2>1. c \in Nodes(t) /\ Good(c)
    BY <1>2, <1>3, <1>6 DEF Linked
  <2>2. bound[c][side] = bound[m][side]
    BY <1>3, <1>6 DEF InOrder, Bounds
  <2>3. Within(t, bound, m, Key(t, out(c)))
    <3>1. Key(t, out(c)) \in Int
      BY <2>1, FieldTypes
    <3> HIDE DEF out
    <3> QED BY <1>3, <1>6, <2>1, <3>1, WithinKid
  <2>4. out(m) = out(c)
    BY <1>4, <1>6
  <2> QED BY <2>1, <2>2, <2>3, <2>4
<1> QED BY <1>5, <1>6

(* The function up of iterator_step.                                       *)
UpFrom(t, side) ==
  CHOOSE up : up = [m \in DOMAIN t.node |->
    IF t.node[m].parent # NULL /\ t.node[t.node[m].parent][side] = m
    THEN up[t.node[m].parent] ELSE t.node[m].parent]

(* The loop of iterator_step, iteration by iteration.                      *)
LEMMA UpFromStep ==
  ASSUME NEW t, IsTree(t), Linked(t), NEW side \in Sides
  PROVE  \A n \in Nodes(t) :
           UpFrom(t, side)[n] =
             IF Parent(t, n) # NULL /\ Kid(t, Parent(t, n), side) = n
             THEN UpFrom(t, side)[Parent(t, n)] ELSE Parent(t, n)
<1> DEFINE Eq(f) == f = [m \in DOMAIN t.node |->
                           IF t.node[m].parent # NULL /\ t.node[t.node[m].parent][side] = m
                           THEN f[t.node[m].parent] ELSE t.node[m].parent]
<1>1. \E f : Eq(f)
  <2> DEFINE go == [m \in DOMAIN t.node |->
                      t.node[m].parent # NULL /\ t.node[t.node[m].parent][side] = m]
             nx == [m \in DOMAIN t.node |-> t.node[m].parent]
  <2>1. \A m \in DOMAIN t.node : go[m] => nx[m] \in DOMAIN t.node
    BY DEF Linked, Parent, Nodes
  <2>2. PICK f : IsLoop(f, DOMAIN t.node, go, nx, nx)
    <3> HIDE DEF go, nx
    <3> QED BY <2>1, LoopFunction
  <2>3. Eq(f)
    BY <2>2 DEF IsLoop
  <2> QED BY <2>3
<1>2. Eq(UpFrom(t, side))
  <2>1. UpFrom(t, side) = CHOOSE f : Eq(f)
    BY DEF UpFrom
  <2> HIDE DEF Eq
  <2> QED BY <1>1, <2>1
<1> QED BY <1>2 DEF Parent, Kid, Nodes

(* Climbing from a node while it is the kid on one side ends at its bound  *)
(* on that side.                                                           *)
LEMMA UpFromIsBound ==
  ASSUME NEW t, IsTree(t), Linked(t), NEW bound, InOrder(t, bound), NEW side \in Sides
  PROVE  \A n \in Nodes(t) : UpFrom(t, side)[n] = bound[n][side]
<1> DEFINE D == {n \in Nodes(t) : UpFrom(t, side)[n] # bound[n][side]}
<1>1. SUFFICES ASSUME D # {} PROVE FALSE
  OBVIOUS
<1>2. PICK n \in D : Parent(t, n) \notin D
  BY <1>1 DEF Linked
<1>3. n \in Nodes(t) /\ n # NULL
  BY FieldTypes
<1>4. UpFrom(t, side)[n] = IF Parent(t, n) # NULL /\ Kid(t, Parent(t, n), side) = n
                           THEN UpFrom(t, side)[Parent(t, n)] ELSE Parent(t, n)
  BY <1>3, UpFromStep
<1>5. CASE Parent(t, n) = NULL
  BY <1>3, <1>4, <1>5 DEF Linked, InOrder, Bounds
<1>6. CASE Parent(t, n) # NULL
  <2>1. PICK s \in Sides : Kid(t, Parent(t, n), s) = n
    BY <1>3, <1>6, KidOfParent
  <2>2. Parent(t, n) \in Nodes(t)
    BY <1>3, <1>6, KidOfParent
  <2>3. bound[n][s] = bound[Parent(t, n)][s] /\ bound[n][Other(s)] = Parent(t, n)
    BY <1>3, <2>1, <2>2 DEF InOrder, Bounds
  <2>4. CASE s = side
    BY <1>2, <1>4, <1>6, <2>1, <2>2, <2>3, <2>4
  <2>5. CASE s = Other(side)
    <3>1. Kid(t, Parent(t, n), side) # n
      BY <1>3, <2>1, <2>2, <2>5, SideFacts DEF Linked
    <3>2. Other(s) = side
      BY <2>5, SideFacts
    <3> QED BY <1>4, <1>6, <2>3, <3>1, <3>2
  <2> QED BY <2>4, <2>5, SideFacts
<1> QED BY <1>5, <1>6

(* A step of an iterator towards a side ends at the node whose key comes   *)
(* next on that side, and at NULL when there is none: between the two keys *)
(* nothing is stored.                                                      *)
LEMMA IteratorStepExact ==
  ASSUME NEW t, IsTree(t), Linked(t), NEW bound, InOrder(t, bound),
         NEW side \in Sides, NEW n \in Nodes(t)
  PROVE  LET o == iterator_step(t, n, side, Other(side))
             beyond(k) == Toward(side, k, Key(t, n))
         IN  /\ o \in Nodes(t) \cup {NULL}
             /\ o = NULL => \A m \in Nodes(t) : ~beyond(Key(t, m))
             /\ o # NULL => /\ beyond(Key(t, o))
                            /\ \A m \in Nodes(t) : beyond(Key(t, m)) /\ m # o =>
                                 Toward(side, Key(t, m), Key(t, o))
             /\ Kid(t, n, side) # NULL => o # NULL /\ Kid(t, o, Other(side)) = NULL
<1> DEFINE o == iterator_step(t, n, side, Other(side))
           c == Kid(t, n, side)
<1>0. Other(side) \in Sides /\ Other(Other(side)) = side
  BY SideFacts
<1>1. o = IF c # NULL THEN outermost(t, c, Other(side)) ELSE UpFrom(t, side)[n]
  BY DEF iterator_step, UpFrom, Kid
<1> HIDE DEF o
<1>2. \A m \in Nodes(t) : Key(t, m) \in Int /\ m # NULL
  BY FieldTypes
<1>3. CASE c # NULL
  <2>1. c \in Nodes(t) /\ bound[c][Other(side)] = n
    BY <1>3 DEF Linked, InOrder, Bounds
  <2>2. /\ o \in Nodes(t) /\ Kid(t, o, Other(side)) = NULL
        /\ bound[o][Other(side)] = n /\ Within(t, bound, c, Key(t, o))
    BY <1>0, <1>1, <1>3, <2>1, OutermostFacts
  <2>3. Toward(side, Key(t, o), Key(t, n))
    BY <1>2, <1>3, <2>2, WithinKid
  <2>4. ASSUME NEW m \in Nodes(t), Toward(side, Key(t, m), Key(t, n)), m # o,
               ~Toward(side, Key(t, m), Key(t, o))
        PROVE  FALSE
    <3>1. Key(t, m) # Key(t, o)
      BY <2>2, <2>4, UniqueKeys
    <3>2. Toward(side, Key(t, o), Key(t, m))
      BY <1>2, <2>2, <2>4, <3>1, TowardOrder
    <3>3. Within(t, bound, o, Key(t, m))
      <4>1. Within(t, bound, o, Key(t, o))
        BY <2>2 DEF InOrder
      <4>2. bound[o][side] \in Nodes(t) \cup {NULL}
        BY <2>2 DEF InOrder, Bounds
      <4>3. bound[o][side] # NULL => Toward(side, Key(t, bound[o][side]), Key(t, m))
        BY <1>2, <2>2, <3>2, <4>1, <4>2, TowardOrder DEF Within
      <4>4. Toward(Other(side), Key(t, n), Key(t, m))
        BY <1>2, <2>4, TowardOrder
      <4>5. \A s \in Sides : s = side \/ s = Other(side)
        BY SideFacts
      <4> QED BY <2>2, <4>3, <4>4, <4>5 DEF Within
    <3>4. Toward(Other(side), Key(t, m), Key(t, o))
      BY <1>2, <2>2, <3>2, TowardOrder
    <3> QED BY <1>0, <2>2, <3>3, <3>4, KidTowardsKey
  <2>5. o # NULL
    BY <1>2, <2>2
  <2> HIDE DEF c
  <2> QED BY <1>3, <2>2, <2>3, <2>4, <2>5 DEF o
<1>4. CASE c = NULL
  <2>1. o = bound[n][side] /\ o \in Nodes(t) \cup {NULL}
    BY <1>1, <1>4, UpFromIsBound DEF InOrder, Bounds
  <2>2. o # NULL => Toward(side, Key(t, o), Key(t, n))
    BY <2>1 DEF InOrder, Within
  <2>3. ASSUME NEW m \in Nodes(t), Toward(side, Key(t, m), Key(t, n)),
               o # NULL => Toward(side, Key(t, o), Key(t, m))
        PROVE  FALSE
    <3>1. Within(t, bound, n, Key(t, n))
      BY DEF InOrder
    <3>2. bound[n][Other(side)] \in Nodes(t) \cup {NULL}
      BY <1>0 DEF InOrder, Bounds
    <3>3. Toward(Other(side), Key(t, n), Key(t, m))
      BY <1>2, <2>3, TowardOrder
    <3>4. bound[n][Other(side)] # NULL =>
            Toward(Other(side), Key(t, bound[n][Other(side)]), Key(t, m))
      BY <1>0, <1>2, <3>1, <3>2, <3>3, TowardOrder DEF Within
    <3>5. \A s \in Sides : s = side \/ s = Other(side)
      BY SideFacts
    <3>6. Within(t, bound, n, Key(t, m))
      BY <2>1, <2>3, <3>4, <3>5 DEF Within
    <3> QED BY <1>4, <2>3, <3>6, KidTowardsKey
  <2>4. \A m \in Nodes(t) : o # NULL /\ m # o => Key(t, m) # Key(t, o)
    BY <2>1, UniqueKeys
  <2>5. \A m \in Nodes(t) : o # NULL /\ m # o =>
          Toward(side, Key(t, m), Key(t, o)) \/ Toward(side, Key(t, o), Key(t, m))
    BY <1>2, <2>1, <2>4, TowardOrder
  <2> HIDE DEF c
  <2> QED BY <1>4, <2>1, <2>2, <2>3, <2>5 DEF o, c
<1> QED BY <1>3, <1>4

-----------------------------------------------------------------------------
(* Links and the search for a key.                                         *)

(* In a linked tree a pointer to a node is stored in exactly one place,    *)
(* which get_node_ptr computes.                                            *)
LEMMA LinkFacts ==
  ASSUME NEW t, IsTree(t), Linked(t)
  PROVE  /\ RootLink \in Links(t) /\ Deref(t, RootLink) = t.root
         /\ \A n \in Nodes(t), s \in Sides :
              <<n, s>> \in Links(t) /\ <<n, s>> # RootLink /\ Deref(t, <<n, s>>) = Kid(t, n, s)
         /\ \A link \in Links(t) : Deref(t, link) \in Nodes(t) \cup {NULL}
         /\ \A n \in Nodes(t) :
              /\ get_node_ptr(t, n) \in Links(t) /\ Deref(t, get_node_ptr(t, n)) = n
              /\ \A link \in Links(t) : Deref(t, link) = n => link = get_node_ptr(t, n)
<1>1. RootLink \in Links(t) /\ Deref(t, RootLink) = t.root
  BY DEF Links, Deref
<1>2. \A n \in Nodes(t), s \in Sides :
        <<n, s>> \in Links(t) /\ <<n, s>> # RootLink /\ Deref(t, <<n, s>>) = Kid(t, n, s)
  BY FieldTypes DEF Links, Deref, RootLink, Kid, Sides, Nodes
<1>3. \A link \in Links(t) :
        link = RootLink \/ \E n \in Nodes(t), s \in Sides : link = <<n, s>>
  BY DEF Links, Sides, Nodes
<1>4. \A link \in Links(t) : Deref(t, link) \in Nodes(t) \cup {NULL}
  BY <1>1, <1>2, <1>3 DEF Linked
<1>5. ASSUME NEW n \in Nodes(t)
      PROVE  /\ get_node_ptr(t, n) \in Links(t) /\ Deref(t, get_node_ptr(t, n)) = n
             /\ \A link \in Links(t) : Deref(t, link) = n => link = get_node_ptr(t, n)
  <2>0. n # NULL /\ t.node[n].parent = Parent(t, n)
    BY FieldTypes
  <2>1. CASE Parent(t, n) = NULL
    <3>1. n = t.root /\ get_node_ptr(t, n) = RootLink
      BY <2>0, <2>1 DEF Linked, get_node_ptr
    <3>2. \A m \in Nodes(t), s \in Sides : Kid(t, m, s) # n
      BY <2>0, <2>1, FieldTypes DEF Linked
    <3> QED BY <1>1, <1>2, <1>3, <3>1, <3>2
  <2>2. CASE Parent(t, n) # NULL
    <3> DEFINE p == Parent(t, n)
    <3>1. p \in Nodes(t) /\ n # t.root
      BY <2>2 DEF Linked
    <3>2. PICK s \in Sides : Kid(t, p, s) = n
      BY <2>2, KidOfParent
    <3>3. get_node_ptr(t, n) = IF Kid(t, p, "left_kid") = n THEN <<p, "left_kid">>
                               ELSE <<p, "right_kid">>
      BY <2>0, <2>2 DEF get_node_ptr, Kid
    <3>4. Kid(t, p, Other(s)) # n
      BY <2>0, <3>1, <3>2 DEF Linked
    <3>5. get_node_ptr(t, n) = <<p, s>>
      BY <3>2, <3>3, <3>4 DEF Sides, Other
    <3>6. \A m \in Nodes(t), o \in Sides : Kid(t, m, o) = n => m = p /\ o = s
      BY <2>0, <3>2, <3>4, SideFacts DEF Linked
    <3> HIDE DEF p
    <3> QED BY <1>1, <1>2, <1>3, <3>1, <3>2, <3>5, <3>6
  <2> QED BY <2>1, <2>2
<1> QED BY <1>1, <1>2, <1>4, <1>5

(* The link to a kid.                                                      *)
LEMMA KidLink ==
  ASSUME NEW t, IsTree(t), Linked(t), NEW n \in Nodes(t), NEW s \in Sides
  PROVE  <<n, s>> \in Links(t) /\ <<n, s>> # RootLink /\ Deref(t, <<n, s>>) = Kid(t, n, s)
BY LinkFacts

(* The link to a node is unique.                                           *)
LEMMA NodeLink ==
  ASSUME NEW t, IsTree(t), Linked(t), NEW link \in Links(t), Deref(t, link) # NULL
  PROVE  Deref(t, link) \in Nodes(t) /\ link = get_node_ptr(t, Deref(t, link))
BY LinkFacts

(* The function down of internal_find.                                     *)
FindFrom(t, key) ==
  CHOOSE down : down = [link \in Links(t) |->
    IF Deref(t, link) = NULL \/ t.node[Deref(t, link)].key = key THEN link
    ELSE down[kid_ptr(t, Deref(t, link), key)]]

(* The loop of internal_find, iteration by iteration.                      *)
LEMMA FindFromStep ==
  ASSUME NEW t, IsTree(t), Linked(t), NEW key \in Int, NEW link \in Links(t)
  PROVE  LET n == Deref(t, link)
         IN  /\ n = NULL => FindFrom(t, key)[link] = link
             /\ n # NULL /\ key = Key(t, n) => FindFrom(t, key)[link] = link
             /\ \A s \in Sides : n # NULL /\ Toward(s, key, Key(t, n)) =>
                  FindFrom(t, key)[link] = FindFrom(t, key)[<<n, s>>]
<1> DEFINE stops(l) == Deref(t, l) = NULL \/ t.node[Deref(t, l)].key = key
           nx == [l \in Links(t) |-> kid_ptr(t, Deref(t, l), key)]
           Eq(f) == f = [l \in Links(t) |->
                           IF stops(l) THEN l ELSE f[kid_ptr(t, Deref(t, l), key)]]
<1>1. \A l \in Links(t) : Deref(t, l) # NULL =>
        /\ Deref(t, l) \in Nodes(t) /\ Key(t, Deref(t, l)) \in Int
        /\ t.node[Deref(t, l)].key = Key(t, Deref(t, l))
        /\ <<Deref(t, l), "left_kid">> \in Links(t) /\ <<Deref(t, l), "right_kid">> \in Links(t)
  BY LinkFacts, FieldTypes, SideFacts DEF Key
<1>2. \E f : Eq(f)
  <2> DEFINE go == [l \in Links(t) |-> ~stops(l)]
             val == [l \in Links(t) |-> l]
  <2>1. \A l \in Links(t) : go[l] => nx[l] \in Links(t)
    BY <1>1 DEF kid_ptr
  <2>2. PICK f : IsLoop(f, Links(t), go, nx, val)
    <3> HIDE DEF go, nx, val
    <3> QED BY <2>1, LoopFunction
  <2>3. Eq(f)
    BY <2>2 DEF IsLoop
  <2> QED BY <2>3
<1>3. Eq(FindFrom(t, key))
  <2>1. FindFrom(t, key) = CHOOSE f : Eq(f)
    BY DEF FindFrom
  <2> HIDE DEF Eq
  <2> QED BY <1>2, <2>1
<1>4. FindFrom(t, key)[link] =
        IF stops(link) THEN link ELSE FindFrom(t, key)[kid_ptr(t, Deref(t, link), key)]
  BY <1>3
<1>5. \A s \in Sides : Deref(t, link) # NULL /\ Toward(s, key, Key(t, Deref(t, link))) =>
        ~stops(link) /\ kid_ptr(t, Deref(t, link), key) = <<Deref(t, link), s>>
  BY <1>1 DEF kid_ptr, Toward, Sides
<1> QED BY <1>1, <1>4, <1>5

(* The search for a stored key ends at the link to its node.               *)
LEMMA FindStored ==
  ASSUME NEW t, IsTree(t), Linked(t), NEW bound, InOrder(t, bound), NEW q \in Nodes(t)
  PROVE  internal_find(t, Key(t, q)) = get_node_ptr(t, q) /\ find(t, Key(t, q)) = q
<1> DEFINE key == Key(t, q)
           f == FindFrom(t, key)
           D == {a \in Nodes(t) : Within(t, bound, a, key) /\ f[get_node_ptr(t, a)] # f[RootLink]}
<1>0. key \in Int
  BY FieldTypes
<1>1. internal_find(t, key) = f[RootLink]
  BY DEF internal_find, FindFrom
<1>2. D = {}
  <2> SUFFICES ASSUME D # {} PROVE FALSE
    OBVIOUS
  <2>1. PICK a \in D : Parent(t, a) \notin D
    BY DEF Linked
  <2>2. a \in Nodes(t) /\ a # NULL
    BY FieldTypes
  <2>3. CASE Parent(t, a) = NULL
    <3>1. a = t.root
      BY <2>2, <2>3 DEF Linked
    <3>2. get_node_ptr(t, a) = RootLink
      BY <2>2, <3>1, LinkFacts
    <3> QED BY <3>2
  <2>4. CASE Parent(t, a) # NULL
    <3> DEFINE p == Parent(t, a)
    <3>1. p \in Nodes(t) /\ p # NULL
      BY <2>2, <2>4, KidOfParent, FieldTypes
    <3>2. PICK s \in Sides : Kid(t, p, s) = a
      BY <2>2, <2>4, KidOfParent
    <3>3. get_node_ptr(t, a) = <<p, s>>
      <4> HIDE DEF p, D
      <4> QED BY <2>2, <3>1, <3>2, LinkFacts
    <3>4. Within(t, bound, p, key) /\ Toward(s, key, Key(t, p))
      <4>1. Within(t, bound, a, key)
        OBVIOUS
      <4> HIDE DEF key, D
      <4> QED BY <1>0, <2>2, <3>1, <3>2, <4>1, WithinKid
    <3>5. f[get_node_ptr(t, p)] = f[<<p, s>>]
      BY <1>0, <3>1, <3>4, LinkFacts, FindFromStep
    <3> QED BY <2>1, <3>1, <3>3, <3>4, <3>5
  <2> QED BY <2>3, <2>4
<1>3. f[get_node_ptr(t, q)] = f[RootLink]
  BY <1>2 DEF InOrder
<1>4. f[get_node_ptr(t, q)] = get_node_ptr(t, q)
  BY <1>0, LinkFacts, FindFromStep, FieldTypes
<1> QED BY <1>1, <1>3, <1>4, LinkFacts DEF find

(* A link that is NULL, and where a node with the key would be in order.   *)
PlaceFor(t, bound, key, link) ==
  \/ link = RootLink /\ t.root = NULL
  \/ \E p \in Nodes(t), s \in Sides :
       /\ link = <<p, s>> /\ Kid(t, p, s) = NULL
       /\ Within(t, bound, p, key) /\ Toward(s, key, Key(t, p))

(* The search for a key that is not stored ends where it would be in order.*)
LEMMA FindMissing ==
  ASSUME NEW t, IsTree(t), Linked(t), NEW bound, InOrder(t, bound),
         NEW key \in Int, \A q \in Nodes(t) : Key(t, q) # key
  PROVE  PlaceFor(t, bound, key, internal_find(t, key)) /\ find(t, key) = NULL
<1> DEFINE f == FindFrom(t, key)
           Good(l) == PlaceFor(t, bound, key, f[l])
           D == {m \in Nodes(t) : Within(t, bound, m, key) /\ ~Good(get_node_ptr(t, m))}
<1>1. internal_find(t, key) = f[RootLink]
  BY DEF internal_find, FindFrom
<1>2. D = {}
  <2> SUFFICES ASSUME D # {} PROVE FALSE
    OBVIOUS
  <2>1. PICK m \in D : \A s \in Sides : Kid(t, m, s) \notin D
    <3>1. D \in SUBSET Nodes(t)
      OBVIOUS
    <3> HIDE DEF D
    <3> QED BY <3>1, LowestNode
  <2>2. m \in Nodes(t) /\ Key(t, m) \in Int /\ m # NULL /\ Within(t, bound, m, key)
    BY FieldTypes
  <2>3. PICK s \in Sides : Toward(s, key, Key(t, m))
    BY <2>2 DEF Toward, Sides
  <2>4. f[get_node_ptr(t, m)] = f[<<m, s>>]
    BY <2>2, <2>3, LinkFacts, FindFromStep
  <2>5. CASE Kid(t, m, s) = NULL
    <3>1. f[<<m, s>>] = <<m, s>>
      BY <2>2, <2>5, LinkFacts, FindFromStep
    <3>2. Good(get_node_ptr(t, m))
      BY <2>2, <2>3, <2>4, <2>5, <3>1 DEF PlaceFor
    <3> QED BY <3>2
  <2>6. CASE Kid(t, m, s) # NULL
    <3> DEFINE c == Kid(t, m, s)
    <3>1. c \in Nodes(t) /\ c \notin D
      BY <2>1, <2>2, <2>6 DEF Linked
    <3>2. Within(t, bound, c, key)
      BY <2>2, <2>3, <2>6, WithinKid
    <3>3. get_node_ptr(t, c) = <<m, s>>
      <4>1. <<m, s>> \in Links(t) /\ Deref(t, <<m, s>>) = c
        BY <2>2, LinkFacts
      <4> HIDE DEF c, D
      <4> QED BY <3>1, <4>1, LinkFacts
    <3>4. Good(get_node_ptr(t, m))
      BY <2>4, <3>1, <3>2, <3>3
    <3> QED BY <3>4
  <2> QED BY <2>5, <2>6
<1>3. PlaceFor(t, bound, key, f[RootLink])
  <2>1. CASE t.root = NULL
    <3>1. f[RootLink] = RootLink
      BY <2>1, LinkFacts, FindFromStep
    <3> QED BY <2>1, <3>1 DEF PlaceFor
  <2>2. CASE t.root # NULL
    <3>1. t.root \in Nodes(t) /\ Within(t, bound, t.root, key)
      BY <2>2 DEF Linked, InOrder, Bounds, Within
    <3>2. get_node_ptr(t, t.root) = RootLink
      BY <3>1, LinkFacts
    <3> QED BY <1>2, <3>1, <3>2
  <2> QED BY <2>1, <2>2
<1>4. \A link : PlaceFor(t, bound, key, link) => Deref(t, link) = NULL
  BY LinkFacts DEF PlaceFor
<1>5. find(t, key) = NULL
  BY <1>1, <1>3, <1>4 DEF find
<1> QED BY <1>1, <1>3, <1>5

-----------------------------------------------------------------------------
(* Rotations.                                                              *)

(* In a rotation top, its kid on the side up and the kid of that one on    *)
(* the other side are different nodes, and all differ from the parent.     *)
LEMMA RotationNodes ==
  ASSUME NEW t, IsTree(t), Linked(t), NEW top \in Nodes(t), NEW up \in Sides,
         NEW kid, kid = Kid(t, top, up), kid # NULL,
         NEW T2, T2 = Kid(t, kid, Other(up))
  PROVE  /\ kid \in Nodes(t) /\ Parent(t, kid) = top /\ T2 \in Nodes(t) \cup {NULL}
         /\ T2 # NULL => Parent(t, T2) = kid
         /\ kid # top /\ T2 # top /\ T2 # kid
         /\ Parent(t, top) \in Nodes(t) \cup {NULL}
         /\ Parent(t, top) # NULL => Parent(t, top) \notin {top, kid, T2}
<1>1. kid \in Nodes(t) /\ Parent(t, kid) = top /\ top # NULL
  BY FieldTypes DEF Linked
<1>2. T2 \in Nodes(t) \cup {NULL} /\ (T2 # NULL => Parent(t, T2) = kid)
  BY <1>1, SideFacts DEF Linked
<1>3. Parent(t, top) \notin ({top, kid, T2} \ {NULL})
  <2> SUFFICES ASSUME Parent(t, top) \in {top, kid, T2} \ {NULL} PROVE FALSE
    OBVIOUS
  <2> DEFINE S == {top, kid, T2} \ {NULL}
  <2>1. S \in SUBSET Nodes(t) /\ top \in S
    BY <1>1, <1>2
  <2>2. \A n \in S : Parent(t, n) \in S
    BY <1>1, <1>2
  <2> HIDE DEF S
  <2> QED BY <2>1, <2>2 DEF Linked
<1>4. Parent(t, top) \in Nodes(t) \cup {NULL}
  BY DEF Linked
<1>5. kid # top /\ T2 # top /\ (T2 # NULL => T2 # kid)
  BY <1>1, <1>2, <1>3
<1>6. kid # NULL
  BY <1>1
<1> QED BY <1>1, <1>2, <1>3, <1>4, <1>5, <1>6

(* In the tree u the kid of top on the side up has taken the place of top  *)
(* in t: nothing else changes but the heights.                             *)
Rotation(t, u, top, kid, T2, up) ==
  /\ Nodes(u) = Nodes(t) /\ u.alive = t.alive /\ u.tree_size = t.tree_size
  /\ u.root = IF t.root = top THEN kid ELSE t.root
  /\ \A n \in Nodes(t) :
       /\ Key(u, n) = Key(t, n)
       /\ Parent(u, n) = IF n = kid THEN Parent(t, top)
                         ELSE IF n = top THEN kid
                         ELSE IF n = T2 THEN top ELSE Parent(t, n)
       /\ \A s \in Sides :
            Kid(u, n, s) = IF n = kid /\ s = Other(up) THEN top
                           ELSE IF n = top /\ s = up THEN T2
                           ELSE IF Kid(t, n, s) = top THEN kid ELSE Kid(t, n, s)

(* Updates of a node record.                                               *)
WithKid(r, side, c) == [r EXCEPT ![side] = c]
WithParent(r, p) == [r EXCEPT !.parent = p]
WithHeight(r, h) == [r EXCEPT !.subtree_height = h]
WithLinks(r, side, c, p, h) == [r EXCEPT ![side] = c, !.parent = p, !.subtree_height = h]

(* A kid, the parent and the height change.                                *)
LEMMA WithLinksFields ==
  ASSUME NEW r \in NodeType, NEW side \in Sides, NEW c \in Cells \cup {NULL},
         NEW p \in Cells \cup {NULL}, NEW h \in Nat \ {0}
  PROVE  /\ WithLinks(r, side, c, p, h) \in NodeType
         /\ WithLinks(r, side, c, p, h).key = r.key /\ WithLinks(r, side, c, p, h).parent = p
         /\ WithLinks(r, side, c, p, h)[side] = c /\ WithLinks(r, side, c, p, h)[Other(side)] = r[Other(side)]
         /\ WithLinks(r, side, c, p, h).subtree_height = h
<1>1. CASE side = "left_kid"
  BY <1>1 DEF NodeType, Sides, WithLinks, Other
<1>2. CASE side = "right_kid"
  BY <1>2 DEF NodeType, Sides, WithLinks, Other
<1> QED BY <1>1, <1>2 DEF Sides

(* A kid changes.                                                          *)
LEMMA WithKidFields ==
  ASSUME NEW r \in NodeType, NEW side \in Sides, NEW c \in Cells \cup {NULL}
  PROVE  /\ WithKid(r, side, c) \in NodeType
         /\ WithKid(r, side, c).key = r.key /\ WithKid(r, side, c).parent = r.parent
         /\ WithKid(r, side, c)[side] = c /\ WithKid(r, side, c)[Other(side)] = r[Other(side)]
         /\ WithKid(r, side, c).subtree_height = r.subtree_height
BY DEF NodeType, Sides, WithKid, Other

(* The parent changes.                                                     *)
LEMMA WithParentFields ==
  ASSUME NEW r \in NodeType, NEW p \in Cells \cup {NULL}
  PROVE  /\ WithParent(r, p) \in NodeType
         /\ WithParent(r, p).key = r.key /\ WithParent(r, p).parent = p
         /\ WithParent(r, p)["left_kid"] = r["left_kid"] /\ WithParent(r, p)["right_kid"] = r["right_kid"]
         /\ WithParent(r, p).subtree_height = r.subtree_height
BY DEF NodeType, WithParent

(* The height changes.                                                     *)
LEMMA WithHeightFields ==
  ASSUME NEW r \in NodeType, NEW h \in Nat \ {0}
  PROVE  /\ WithHeight(r, h) \in NodeType
         /\ WithHeight(r, h).key = r.key /\ WithHeight(r, h).parent = r.parent
         /\ WithHeight(r, h)["left_kid"] = r["left_kid"] /\ WithHeight(r, h)["right_kid"] = r["right_kid"]
         /\ WithHeight(r, h).subtree_height = h
BY DEF NodeType, WithHeight

(* What relink stores.                                                     *)
LEMMA RelinkRotates ==
  ASSUME NEW t, IsTree(t), Linked(t), NEW top_ptr \in Links(t), NEW up \in Sides,
         NEW top, top = Deref(t, top_ptr), top # NULL,
         NEW kid, kid = Kid(t, top, up), kid # NULL,
         NEW T2, T2 = Kid(t, kid, Other(up)),
         NEW th \in Nat \ {0}, NEW kh \in Nat \ {0}
  PROVE  LET u == relink(t, top_ptr, up, Other(up), th, kh)
         IN  /\ IsTree(u) /\ Rotation(t, u, top, kid, T2, up) /\ Deref(u, top_ptr) = kid
             /\ \A m \in Nodes(t) :
                  u.node[m].subtree_height =
                    IF m = kid THEN kh ELSE IF m = top THEN th ELSE t.node[m].subtree_height
<1>0. \A m \in Nodes(t), s \in Sides : <<m, s>> \in Links(t) /\ Deref(t, <<m, s>>) = Kid(t, m, s)
  BY KidLink
<1> DEFINE down == Other(up)
           record(m) == CASE m = kid -> [t.node[m] EXCEPT ![down] = top, !.parent = t.node[top].parent,
                                                          !.subtree_height = kh]
                          [] m = top -> [t.node[m] EXCEPT ![up] = T2, !.parent = kid,
                                                          !.subtree_height = th]
                          [] m = T2  -> [t.node[m] EXCEPT !.parent = top]
                          [] OTHER   -> t.node[m]
           nodes == [m \in DOMAIN t.node |-> record(m)]
           v == [t EXCEPT !.node = nodes]
           u == Store(v, top_ptr, kid)
<1>1. top \in Nodes(t) /\ top_ptr = get_node_ptr(t, top)
  BY LinkFacts
<1>2. /\ kid \in Nodes(t) /\ Parent(t, kid) = top /\ T2 \in Nodes(t) \cup {NULL}
      /\ T2 # NULL => Parent(t, T2) = kid
      /\ kid # top /\ T2 # top /\ T2 # kid
      /\ Parent(t, top) \in Nodes(t) \cup {NULL}
      /\ Parent(t, top) # NULL => Parent(t, top) \notin {top, kid, T2}
  BY <1>1, RotationNodes
<1>3. down \in Sides /\ up # down /\ \A s \in Sides : s = up \/ s = down
  BY SideFacts
<1>4. relink(t, top_ptr, up, Other(up), th, kh) = u
  BY DEF relink, Kid
<1>5. Nodes(t) \subseteq Cells /\ t.node[top].parent = Parent(t, top)
  BY DEF IsTree, Nodes, Parent
<1>6. \A m \in Nodes(t) : t.node[m] \in NodeType
  BY DEF IsTree, Nodes
<1>61. \A m \in Nodes(t) : Key(t, m) = t.node[m].key /\ Parent(t, m) = t.node[m].parent
                            /\ \A s \in Sides : Kid(t, m, s) = t.node[m][s]
  BY DEF Key, Parent, Kid
<1>62. /\ top \in Cells /\ kid \in Cells /\ T2 \in Cells \cup {NULL}
       /\ Parent(t, top) \in Cells \cup {NULL} /\ NULL \notin Nodes(t)
  BY <1>1, <1>2, <1>5, AvlTreeAssumption
<1>7. record(kid) = WithLinks(t.node[kid], down, top, Parent(t, top), kh)
  BY <1>2, <1>5 DEF WithLinks
<1>8. record(top) = WithLinks(t.node[top], up, T2, kid, th)
  BY <1>2 DEF WithLinks
<1>9. T2 # NULL => record(T2) = WithParent(t.node[T2], top)
  BY <1>2 DEF WithParent
<1>10. \A m \in Nodes(t) \ {kid, top, T2} : record(m) = t.node[m]
  OBVIOUS
<1> HIDE DEF record, down
<1>11. ASSUME NEW m \in Nodes(t)
       PROVE  /\ record(m) \in NodeType /\ record(m).key = Key(t, m)
              /\ record(m).parent = IF m = kid THEN Parent(t, top)
                                    ELSE IF m = top THEN kid
                                    ELSE IF m = T2 THEN top ELSE Parent(t, m)
              /\ \A s \in Sides :
                   record(m)[s] = IF m = kid /\ s = down THEN top
                                  ELSE IF m = top /\ s = up THEN T2 ELSE Kid(t, m, s)
              /\ record(m).subtree_height =
                   IF m = kid THEN kh ELSE IF m = top THEN th ELSE t.node[m].subtree_height
  <2>1. CASE m = kid
    <3> DEFINE w == WithLinks(t.node[kid], down, top, Parent(t, top), kh)
    <3>0. t.node[kid] \in NodeType /\ down \in Sides /\ top \in Cells \cup {NULL}
          /\ Parent(t, top) \in Cells \cup {NULL}
      BY <1>2, <1>3, <1>6, <1>62
    <3>1. w \in NodeType /\ w.key = t.node[kid].key /\ w.parent = Parent(t, top)
          /\ w[down] = top /\ w[Other(down)] = t.node[kid][Other(down)]
          /\ w.subtree_height = kh
      BY <3>0, WithLinksFields
    <3> HIDE DEF w
    <3>2. record(m) = w /\ Other(down) = up
      BY <1>7, <2>1, SideFacts DEF w, down
    <3> QED BY <1>2, <1>3, <1>61, <2>1, <3>1, <3>2
  <2>2. CASE m = top
    <3> DEFINE w == WithLinks(t.node[top], up, T2, kid, th)
    <3>0. t.node[top] \in NodeType /\ T2 \in Cells \cup {NULL} /\ kid \in Cells \cup {NULL}
      BY <1>1, <1>6, <1>62
    <3>1. w \in NodeType /\ w.key = t.node[top].key /\ w.parent = kid
          /\ w[up] = T2 /\ w[Other(up)] = t.node[top][Other(up)]
          /\ w.subtree_height = th
      BY <3>0, WithLinksFields
    <3> HIDE DEF w
    <3>2. record(m) = w /\ Other(up) = down
      BY <1>8, <2>2 DEF w, down
    <3>3. /\ t.node[top].key = Key(t, top)
          /\ \A s \in Sides : t.node[top][s] = Kid(t, top, s)
      BY <1>1, <1>61
    <3>4. \A s \in Sides : w[s] = IF s = up THEN T2 ELSE Kid(t, top, s)
      BY <1>3, <3>1, <3>2, <3>3
    <3> QED BY <1>2, <2>2, <3>1, <3>2, <3>3, <3>4
  <2>3. CASE m = T2
    <3> DEFINE w == WithParent(t.node[T2], top)
    <3>0. T2 \in Nodes(t) /\ T2 # NULL /\ t.node[T2] \in NodeType /\ top \in Cells \cup {NULL}
      BY <1>6, <1>62, <2>3
    <3>1. w \in NodeType /\ w.key = t.node[T2].key /\ w.parent = top
          /\ w["left_kid"] = t.node[T2]["left_kid"] /\ w["right_kid"] = t.node[T2]["right_kid"]
          /\ w.subtree_height = t.node[T2].subtree_height
      BY <3>0, WithParentFields
    <3> HIDE DEF w
    <3>2. record(m) = w
      BY <1>9, <2>3, <3>0 DEF w
    <3>3. \A s \in Sides : w[s] = t.node[T2][s]
      BY <3>1 DEF Sides
    <3> QED BY <1>2, <1>61, <2>3, <3>0, <3>1, <3>2, <3>3
  <2>4. CASE m \notin {kid, top, T2}
    BY <1>6, <1>10, <2>4 DEF Key, Parent, Kid
  <2> QED BY <2>1, <2>2, <2>3, <2>4
<1>12. /\ v.root = t.root /\ v.alive = t.alive /\ v.tree_size = t.tree_size /\ v.node = nodes
       /\ v = [alive |-> v.alive, root |-> v.root, tree_size |-> v.tree_size, node |-> v.node]
  BY DEF IsTree
<1> HIDE DEF v
<1>13. /\ u.alive = t.alive /\ u.tree_size = t.tree_size
       /\ u = [alive |-> u.alive, root |-> u.root, tree_size |-> u.tree_size, node |-> u.node]
       /\ u.root = IF t.root = top THEN kid ELSE t.root
       /\ Nodes(u) = Nodes(t)
       /\ \A m \in Nodes(t) :
            /\ u.node[m] \in NodeType /\ u.node[m].key = record(m).key
            /\ u.node[m].parent = record(m).parent
            /\ u.node[m].subtree_height = record(m).subtree_height
            /\ \A s \in Sides : u.node[m][s] = IF <<m, s>> = top_ptr THEN kid ELSE record(m)[s]
       /\ Deref(u, top_ptr) = kid
  <2>1. CASE top_ptr = RootLink
    <3>1. t.root = top
      BY <2>1, LinkFacts
    <3>2. u = [v EXCEPT !.root = kid]
      BY <2>1 DEF Store
    <3>3. \A m \in Nodes(t), s \in Sides : <<m, s>> # top_ptr
      BY <2>1, LinkFacts
    <3>4. u.root = kid /\ u.alive = v.alive /\ u.tree_size = v.tree_size /\ u.node = nodes
          /\ u = [alive |-> u.alive, root |-> u.root, tree_size |-> u.tree_size, node |-> u.node]
      BY <1>12, <3>2
    <3> HIDE DEF u
    <3> QED BY <1>11, <1>12, <2>1, <3>1, <3>3, <3>4 DEF Nodes, Deref
  <2>2. CASE top_ptr # RootLink
    <3>1. PICK p \in Nodes(t), o \in Sides : top_ptr = <<p, o>>
      BY <2>2 DEF Links, Nodes, Sides
    <3>2. t.root # top
      BY <1>1, <2>2, LinkFacts
    <3>3. u = [v EXCEPT !.node[p][o] = kid]
      BY <2>2, <3>1 DEF Store
    <3>4. u.root = v.root /\ u.alive = v.alive /\ u.tree_size = v.tree_size
          /\ u.node = [nodes EXCEPT ![p] = [nodes[p] EXCEPT ![o] = kid]]
          /\ u = [alive |-> u.alive, root |-> u.root, tree_size |-> u.tree_size, node |-> u.node]
      BY <1>12, <3>3
    <3>5. \A m \in Nodes(t) : u.node[m] = IF m = p THEN [record(p) EXCEPT ![o] = kid] ELSE record(m)
      BY <3>4 DEF Nodes
    <3>6. \A m \in Nodes(t), s \in Sides : <<m, s>> = top_ptr <=> m = p /\ s = o
      BY <3>1
    <3>7. kid \in Cells /\ record(p) \in NodeType
      BY <1>2, <1>5, <1>11
    <3> DEFINE w == [record(p) EXCEPT ![o] = kid]
    <3>8. /\ w \in NodeType /\ w.key = record(p).key /\ w.parent = record(p).parent
          /\ w.subtree_height = record(p).subtree_height
          /\ \A s \in Sides : w[s] = IF s = o THEN kid ELSE record(p)[s]
      <4>1. w = WithKid(record(p), o, kid)
        BY DEF WithKid
      <4> HIDE DEF w
      <4>2. /\ w \in NodeType /\ w.key = record(p).key /\ w.parent = record(p).parent
            /\ w[o] = kid /\ w[Other(o)] = record(p)[Other(o)]
            /\ w.subtree_height = record(p).subtree_height
        BY <3>7, <4>1, WithKidFields
      <4>3. \A s \in Sides : s = o \/ s = Other(o)
        BY SideFacts
      <4>4. Other(o) # o
        BY SideFacts
      <4> QED BY <4>2, <4>3, <4>4
    <3>9. DOMAIN u.node = DOMAIN t.node
      BY <3>4
    <3> HIDE DEF u
    <3>10. Deref(u, top_ptr) = kid
      BY <2>2, <3>1, <3>5, <3>8 DEF Deref
    <3> QED BY <1>11, <1>12, <3>2, <3>4, <3>5, <3>6, <3>8, <3>9, <3>10 DEF Nodes
  <2> QED BY <2>1, <2>2
<1> HIDE DEF u
<1>14. IsTree(u)
  <2>1. u.node \in [DOMAIN u.node -> NodeType]
    <3>1. u.node = [m \in DOMAIN u.node |-> u.node[m]]
      <4>1. CASE top_ptr = RootLink
        <5>1. u.node = nodes
          BY <1>12, <4>1 DEF u, Store, IsTree
        <5> QED BY <5>1
      <4>2. CASE top_ptr # RootLink
        <5>1. u.node = [nodes EXCEPT ![top_ptr[1]] = [nodes[top_ptr[1]] EXCEPT ![top_ptr[2]] = kid]]
          BY <1>12, <4>2 DEF u, Store
        <5> QED BY <5>1
      <4> QED BY <4>1, <4>2
    <3> QED BY <1>13, <3>1 DEF Nodes
  <2> QED BY <1>13, <2>1 DEF IsTree, Nodes
<1>15. \A m \in Nodes(t), s \in Sides : <<m, s>> = top_ptr <=> Kid(t, m, s) = top
  <2>2. \A link \in Links(t) : Deref(t, link) = top => link = top_ptr
    BY <1>1, LinkFacts
  <2> HIDE DEF nodes
  <2> QED BY <1>0, <2>2
<1>16. Rotation(t, u, top, kid, T2, up)
  <2>1. \A n \in Nodes(t) : Key(u, n) = Key(t, n)
                            /\ Parent(u, n) = IF n = kid THEN Parent(t, top)
                                              ELSE IF n = top THEN kid
                                              ELSE IF n = T2 THEN top ELSE Parent(t, n)
    BY <1>11, <1>13 DEF Key, Parent
  <2>2. \A n \in Nodes(t), s \in Sides :
          Kid(u, n, s) = IF n = kid /\ s = Other(up) THEN top
                         ELSE IF n = top /\ s = up THEN T2
                         ELSE IF Kid(t, n, s) = top THEN kid ELSE Kid(t, n, s)
    <3>1. Kid(t, kid, down) # top /\ Kid(t, top, up) # top
      BY <1>2 DEF down
    <3> SUFFICES ASSUME NEW n \in Nodes(t), NEW s \in Sides
                 PROVE  Kid(u, n, s) = IF n = kid /\ s = Other(up) THEN top
                         ELSE IF n = top /\ s = up THEN T2
                         ELSE IF Kid(t, n, s) = top THEN kid ELSE Kid(t, n, s)
      OBVIOUS
    <3>2. Kid(u, n, s) = IF Kid(t, n, s) = top THEN kid ELSE record(n)[s]
      BY <1>13, <1>15 DEF Kid
    <3> QED BY <1>11, <3>1, <3>2 DEF down
  <2> QED BY <1>13, <2>1, <2>2 DEF Rotation
<1>17. \A m \in Nodes(t) :
         u.node[m].subtree_height =
           IF m = kid THEN kh ELSE IF m = top THEN th ELSE t.node[m].subtree_height
  BY <1>11, <1>13
<1> QED BY <1>4, <1>13, <1>14, <1>16, <1>17

(* A rotation keeps the tree linked.                                       *)
LEMMA RotationKeepsLinked ==
  ASSUME NEW t, IsTree(t), Linked(t), NEW top \in Nodes(t), NEW up \in Sides,
         NEW kid, kid = Kid(t, top, up), kid # NULL, NEW T2, T2 = Kid(t, kid, Other(up)),
         NEW u, Rotation(t, u, top, kid, T2, up)
  PROVE  Linked(u)
<1> DEFINE down == Other(up)
           N == Nodes(t)
<1>1. /\ top \in N /\ kid \in N /\ Parent(t, kid) = top /\ T2 \in N \cup {NULL}
      /\ T2 # NULL => Parent(t, T2) = kid
      /\ kid # top /\ T2 # top /\ T2 # kid
      /\ Parent(t, top) \in N \cup {NULL}
      /\ Parent(t, top) # NULL => Parent(t, top) \notin {top, kid, T2}
  BY RotationNodes
<1>2. down \in Sides /\ up # down /\ \A s \in Sides : s = up \/ s = down
  BY SideFacts
<1>3. Other(up) = down /\ Other(down) = up
  BY SideFacts
<1>4. \A n \in N : n # NULL
  BY FieldTypes
<1>5. Nodes(u) = N /\ u.root = IF t.root = top THEN kid ELSE t.root
  BY DEF Rotation
<1>6. \A n \in N :
        /\ Parent(u, n) = IF n = kid THEN Parent(t, top)
                          ELSE IF n = top THEN kid
                          ELSE IF n = T2 THEN top ELSE Parent(t, n)
        /\ \A s \in Sides : Kid(u, n, s) = IF n = kid /\ s = down THEN top
                                           ELSE IF n = top /\ s = up THEN T2
                                           ELSE IF Kid(t, n, s) = top THEN kid ELSE Kid(t, n, s)
  BY DEF Rotation
<1>7. \A n \in N, s \in Sides :
        Kid(t, n, s) # NULL => Kid(t, n, s) \in N /\ Parent(t, Kid(t, n, s)) = n
  BY DEF Linked
<1>8. \A n \in N : Kid(t, n, up) # NULL => Kid(t, n, up) # Kid(t, n, down)
  BY <1>3 DEF Linked
<1>9. \A n \in N : Kid(t, n, down) # NULL => Kid(t, n, up) # Kid(t, n, down)
  BY <1>2, <1>3 DEF Linked
<1>10. \A n \in N : Parent(t, n) = NULL <=> n = t.root
  BY DEF Linked
<1>11. T2 = Kid(t, kid, down) /\ kid = Kid(t, top, up)
  OBVIOUS
<1> HIDE DEF down, N
<1>18. kid # NULL /\ top # NULL
  BY <1>1, <1>4
<1>19. \A s \in Sides : Kid(t, kid, s) # top /\ Kid(t, top, s) # top
  BY <1>1, <1>7, <1>18
<1>12. u.root \in N \cup {NULL} /\ \A n \in N : Parent(u, n) \in N \cup {NULL}
  BY <1>1, <1>5, <1>6 DEF Linked, N
<1>13. \A n \in N : Parent(u, n) = NULL <=> n = u.root
  BY <1>1, <1>4, <1>5, <1>6, <1>10
<1>14. ASSUME NEW n \in N, NEW s \in Sides, Kid(u, n, s) # NULL
       PROVE  /\ Kid(u, n, s) \in N /\ Parent(u, Kid(u, n, s)) = n
              /\ Kid(u, n, s) # Kid(u, n, Other(s))
  <2>1. CASE n = kid
    <3>1. Kid(u, n, down) = top /\ Kid(u, n, up) = Kid(t, kid, up)
      BY <1>1, <1>2, <1>6, <1>18, <1>19, <2>1
    <3>2. Kid(t, kid, up) # NULL => Kid(t, kid, up) \notin {top, kid, T2}
      BY <1>1, <1>7, <1>8, <1>11, <1>18, <1>19
    <3> QED BY <1>1, <1>2, <1>3, <1>6, <1>7, <1>14, <2>1, <3>1, <3>2
  <2>2. CASE n = top
    <3>1. Kid(u, n, up) = T2 /\ Kid(u, n, down) = Kid(t, top, down)
      BY <1>1, <1>2, <1>6, <1>18, <1>19, <2>2
    <3>2. Kid(t, top, down) # NULL => Kid(t, top, down) \notin {top, kid, T2}
      <4>1. Kid(t, top, down) # NULL => Kid(t, top, down) # kid /\ Parent(t, Kid(t, top, down)) = top
        BY <1>1, <1>2, <1>7, <1>9, <1>11
      <4> QED BY <1>1, <1>2, <1>18, <1>19, <4>1
    <3> QED BY <1>1, <1>2, <1>3, <1>6, <1>7, <1>14, <2>2, <3>1, <3>2
  <2>3. CASE n # kid /\ n # top
    <3>1. \A o \in Sides : Kid(u, n, o) = IF Kid(t, n, o) = top THEN kid ELSE Kid(t, n, o)
      BY <1>6, <2>3
    <3>2. \A o \in Sides : Kid(t, n, o) # NULL /\ Kid(t, n, o) # top =>
            Kid(t, n, o) \notin {kid, T2}
      BY <1>1, <1>7, <2>3
    <3>3. Kid(t, n, s) # NULL /\ Other(s) \in Sides
      BY <1>1, <1>4, <1>14, <3>1, SideFacts
    <3>4. Kid(t, n, s) # Kid(t, n, Other(s))
      BY <3>3 DEF Linked, N
    <3> QED BY <1>1, <1>6, <1>7, <1>14, <2>3, <3>1, <3>2, <3>3, <3>4
  <2> QED BY <2>1, <2>2, <2>3
<1>15. ASSUME NEW n \in N, Parent(u, n) # NULL
       PROVE  \E s \in Sides : Kid(u, Parent(u, n), s) = n
  <2>1. CASE n = kid
    <3>1. PICK s \in Sides : Kid(t, Parent(t, top), s) = top
      BY <1>6, <1>15, <2>1 DEF Linked, N
    <3> QED BY <1>1, <1>6, <1>15, <2>1, <3>1
  <2>2. CASE n = top
    BY <1>1, <1>2, <1>6, <2>2
  <2>3. CASE n = T2
    BY <1>1, <1>6, <2>3
  <2>4. CASE n \notin {kid, top, T2}
    <3>1. PICK s \in Sides : Kid(t, Parent(t, n), s) = n
      BY <1>6, <1>15, <2>4 DEF Linked, N
    <3>2. Parent(t, n) \in N /\ Parent(u, n) = Parent(t, n)
      BY <1>6, <1>15, <2>4 DEF Linked, N
    <3>3. ~(Parent(t, n) = kid /\ s = down) /\ ~(Parent(t, n) = top /\ s = up)
      BY <1>11, <2>4, <3>1
    <3> QED BY <1>6, <2>4, <3>1, <3>2, <3>3
  <2> QED BY <2>1, <2>2, <2>3, <2>4
<1>16. ASSUME NEW S \in SUBSET N, S # {}, \A n \in S : Parent(u, n) \in S
       PROVE  FALSE
  <2>1. CASE kid \in S
    <3>1. S \cup {top} \in SUBSET N /\ S \cup {top} # {}
      BY DEF N
    <3>2. Parent(t, top) \in S
      BY <1>1, <1>6, <1>16, <2>1
    <3>3. \A n \in S \cup {top} : Parent(t, n) \in S \cup {top}
      <4>1. \A n \in S : n \notin {kid, top, T2} => Parent(t, n) \in S
        BY <1>6, <1>16
      <4>2. T2 \in N => Parent(t, T2) \in S
        BY <1>1, <1>4, <2>1
      <4>3. Parent(t, kid) \in S \cup {top}
        BY <1>1
      <4> QED BY <3>2, <4>1, <4>2, <4>3
    <3> QED BY <3>1, <3>3 DEF Linked, N
  <2>2. CASE kid \notin S
    <3>1. top \notin S /\ T2 \notin S
      BY <1>1, <1>6, <1>16, <2>2
    <3>2. \A n \in S : Parent(t, n) \in S
      BY <1>6, <1>16, <2>2, <3>1
    <3> QED BY <1>16, <3>2 DEF Linked, N
  <2> QED BY <2>1, <2>2
<1>17. \A S \in SUBSET N : S # {} => \E n \in S : Parent(u, n) \notin S
  BY <1>16
<1> QED BY <1>5, <1>12, <1>13, <1>14, <1>15, <1>17 DEF Linked

(* A rotation keeps the keys in order: kid takes over the bounds of top,   *)
(* which gets kid as its new bound.                                        *)
LEMMA RotationKeepsOrder ==
  ASSUME NEW t, IsTree(t), Linked(t), NEW top \in Nodes(t), NEW up \in Sides,
         NEW kid, kid = Kid(t, top, up), kid # NULL, NEW T2, T2 = Kid(t, kid, Other(up)),
         NEW u, Rotation(t, u, top, kid, T2, up), NEW bound, InOrder(t, bound)
  PROVE  \E b : InOrder(u, b)
<1> DEFINE down == Other(up)
           N == Nodes(t)
           b == [n \in N |-> [s \in Sides |->
                   IF n = kid /\ s = down THEN bound[top][down]
                   ELSE IF n = top /\ s = up THEN kid ELSE bound[n][s]]]
<1>1. /\ top \in N /\ kid \in N /\ Parent(t, kid) = top /\ T2 \in N \cup {NULL}
      /\ T2 # NULL => Parent(t, T2) = kid
      /\ kid # top /\ T2 # top /\ T2 # kid
      /\ Parent(t, top) # NULL => Parent(t, top) \notin {top, kid, T2}
  BY RotationNodes
<1>2. down \in Sides /\ up # down /\ \A s \in Sides : s = up \/ s = down
  BY SideFacts
<1>3. Other(up) = down /\ Other(down) = up
  BY SideFacts
<1>4. \A n \in N : n # NULL /\ Key(t, n) \in Int
  BY FieldTypes
<1>5. Nodes(u) = N /\ u.root = IF t.root = top THEN kid ELSE t.root
  BY DEF Rotation
<1>6. \A n \in N :
        /\ Key(u, n) = Key(t, n)
        /\ \A s \in Sides : Kid(u, n, s) = IF n = kid /\ s = down THEN top
                                           ELSE IF n = top /\ s = up THEN T2
                                           ELSE IF Kid(t, n, s) = top THEN kid ELSE Kid(t, n, s)
  BY DEF Rotation
<1>7. \A n \in N, s \in Sides :
        Kid(t, n, s) # NULL => /\ Kid(t, n, s) \in N /\ Parent(t, Kid(t, n, s)) = n
                               /\ bound[Kid(t, n, s)][s] = bound[n][s]
                               /\ bound[Kid(t, n, s)][Other(s)] = n
  BY DEF Linked, InOrder, Bounds
<1>8. bound \in [N -> [Sides -> N \cup {NULL}]]
  BY DEF InOrder, Bounds
<1>9. \A n \in N, s \in Sides : b[n][s] = IF n = kid /\ s = down THEN bound[top][down]
                                          ELSE IF n = top /\ s = up THEN kid ELSE bound[n][s]
  OBVIOUS
<1>10. bound[kid][up] = bound[top][up] /\ bound[kid][down] = top
  BY <1>7
<1>11. T2 = Kid(t, kid, down) /\ kid = Kid(t, top, up)
  OBVIOUS
<1>12. b \in [N -> [Sides -> N \cup {NULL}]]
  BY <1>1, <1>8
<1> HIDE DEF down, N, b
<1>13. ASSUME u.root # NULL, NEW s \in Sides PROVE b[u.root][s] = NULL
  <2>1. t.root # NULL => t.root \in N /\ \A o \in Sides : bound[t.root][o] = NULL
    BY DEF InOrder, Bounds, Linked, N
  <2>2. CASE t.root = top
    BY <1>1, <1>2, <1>4, <1>5, <1>9, <1>10, <2>1, <2>2 DEF N
  <2>3. CASE t.root # top
    <3>1. t.root # kid
      <4>1. Parent(t, kid) # NULL
        BY <1>1, <1>4 DEF N
      <4> QED BY <1>1, <4>1 DEF Linked, N
    <3> QED BY <1>5, <1>9, <1>13, <2>1, <2>3, <3>1
  <2> QED BY <2>2, <2>3
<1>14. ASSUME NEW n \in N, NEW s \in Sides, Kid(u, n, s) # NULL
       PROVE  b[Kid(u, n, s)][s] = b[n][s] /\ b[Kid(u, n, s)][Other(s)] = n
  <2>1. CASE n = kid /\ s = down
    <3>1. Kid(u, n, s) = top
      BY <1>6, <2>1
    <3> QED BY <1>1, <1>2, <1>3, <1>9, <2>1, <3>1
  <2>2. CASE n = kid /\ s = up
    <3> DEFINE c == Kid(t, kid, up)
    <3>1. c # top
      <4>1. Kid(t, kid, up) = top => top \in N /\ top # NULL /\ Parent(t, top) = kid /\ bound[top][down] = kid
        BY <1>1, <1>3, <1>4, <1>7, <1>2
      <4>2. bound[top][down] = kid => Toward(down, Key(t, kid), Key(t, top))
        BY <1>1, <1>2, <1>4 DEF InOrder, Within, N
      <4>3. Toward(down, Key(t, top), Key(t, kid))
        BY <1>1, <1>2, <1>4, <1>10 DEF InOrder, Within, N
      <4>4. ~(Toward(down, Key(t, top), Key(t, kid)) /\ Toward(down, Key(t, kid), Key(t, top)))
        BY <1>1, <1>2, <1>4, TowardOrder DEF N
      <4> QED BY <4>1, <4>2, <4>3, <4>4
    <3>2. Kid(u, n, s) = c /\ c # NULL
      <4>1. Kid(u, kid, up) = IF Kid(t, kid, up) = top THEN kid ELSE Kid(t, kid, up)
        BY <1>1, <1>2, <1>6
      <4> QED BY <1>14, <2>2, <3>1, <4>1
    <3>3. c # kid
      BY <1>1, <1>7, <3>2
    <3> QED BY <1>1, <1>2, <1>3, <1>7, <1>9, <1>10, <2>2, <3>1, <3>2, <3>3
  <2>3. CASE n = top /\ s = up
    <3>1. Kid(u, n, s) = T2 /\ T2 # NULL
      BY <1>1, <1>6, <1>14, <2>3
    <3>2. bound[T2][down] = bound[kid][down] /\ bound[T2][up] = kid
      BY <1>1, <1>2, <1>3, <1>7, <1>11, <3>1
    <3> QED BY <1>1, <1>2, <1>3, <1>9, <1>10, <2>3, <3>1, <3>2
  <2>4. CASE n = top /\ s = down
    <3> DEFINE c == Kid(t, top, down)
    <3>1. c # NULL => c \in N /\ Parent(t, c) = top
      BY <1>2, <1>7 DEF N
    <3>2. c # top
      <4>1. Parent(t, top) # top
        BY <1>1, <1>4
      <4> QED BY <1>4, <3>1, <4>1 DEF N
    <3>3. Kid(u, n, s) = c /\ c # NULL
      BY <1>1, <1>2, <1>6, <1>14, <2>4, <3>2
    <3>4. c # kid
      BY <1>2, <1>3, <1>11, <3>3 DEF Linked, N
    <3>5. bound[c][down] = bound[top][down] /\ bound[c][up] = top
      BY <1>2, <1>3, <1>7, <3>3 DEF N
    <3> QED BY <1>1, <1>2, <1>3, <1>9, <2>4, <3>1, <3>2, <3>3, <3>4, <3>5
  <2>5. CASE n # kid /\ n # top
    <3>1. Kid(u, n, s) = IF Kid(t, n, s) = top THEN kid ELSE Kid(t, n, s)
      BY <1>6, <2>5
    <3>2. Other(s) \in Sides
      BY SideFacts
    <3>3. CASE Kid(t, n, s) = top
      <4>1. bound[top][s] = bound[n][s] /\ bound[top][Other(s)] = n
        BY <1>4, <1>7, <3>3 DEF N
      <4> QED BY <1>1, <1>2, <1>3, <1>9, <1>10, <2>5, <3>1, <3>2, <3>3, <4>1
    <3>4. CASE Kid(t, n, s) # top
      <4>1. Kid(t, n, s) \notin {kid, top}
        BY <1>1, <1>7, <1>14, <2>5, <3>1, <3>4
      <4>2. Kid(t, n, s) \in N
        BY <1>7, <1>14, <3>1, <3>4
      <4> QED BY <1>7, <1>9, <1>14, <2>5, <3>1, <3>2, <3>4, <4>1, <4>2
    <3> QED BY <3>3, <3>4
  <2> QED BY <1>2, <2>1, <2>2, <2>3, <2>4, <2>5
<1>15. ASSUME NEW n \in N PROVE Within(u, b, n, Key(u, n))
  <2> SUFFICES ASSUME NEW s \in Sides, b[n][s] # NULL
               PROVE  Toward(s, Key(u, b[n][s]), Key(u, n))
    BY DEF Within
  <2>0. b[n][s] \in N
    BY <1>12
  <2>1. \A m \in N, o \in Sides : bound[m][o] # NULL => Toward(o, Key(t, bound[m][o]), Key(t, m))
    BY DEF InOrder, Within, N
  <2>2. SUFFICES Toward(s, Key(t, b[n][s]), Key(t, n))
    BY <1>6, <2>0
  <2>3. Toward(down, Key(t, top), Key(t, kid))
    BY <1>1, <1>2, <1>4, <1>10, <2>1 DEF N
  <2>4. CASE n = kid /\ s = down
    <3>1. b[n][s] = bound[top][down]
      BY <1>9, <2>4
    <3>2. Toward(down, Key(t, b[n][s]), Key(t, top))
      BY <1>2, <2>1, <3>1 DEF N
    <3> QED BY <1>1, <1>2, <1>4, <2>0, <2>3, <2>4, <3>2, TowardOrder DEF N
  <2>5. CASE n = top /\ s = up
    <3>1. b[n][s] = kid
      BY <1>1, <1>9, <2>5
    <3>2. Toward(up, Key(t, kid), Key(t, top))
      BY <1>1, <1>4, <2>3, TowardOrder DEF N, down
    <3> QED BY <2>5, <3>1, <3>2
  <2>6. CASE ~(n = kid /\ s = down) /\ ~(n = top /\ s = up)
    BY <1>9, <2>1, <2>6
  <2> QED BY <2>4, <2>5, <2>6
<1>16. InOrder(u, b)
  BY <1>5, <1>12, <1>13, <1>14, <1>15 DEF InOrder, Bounds
<1> QED BY <1>16

-----------------------------------------------------------------------------
(* Steps that change no link.                                              *)

SameShape(t, u) ==
  /\ Nodes(u) = Nodes(t) /\ u.root = t.root
  /\ \A n \in Nodes(t) :
       /\ Key(u, n) = Key(t, n) /\ Parent(u, n) = Parent(t, n)
       /\ \A s \in Sides : Kid(u, n, s) = Kid(t, n, s)

(* Shape and order depend on the links and keys only.                      *)
LEMMA SameShapeKeeps ==
  ASSUME NEW t, IsTree(t), NEW u, IsTree(u), SameShape(t, u)
  PROVE  /\ Linked(t) => Linked(u)
         /\ \A bound : Linked(t) /\ InOrder(t, bound) => InOrder(u, bound)
         /\ Links(u) = Links(t)
         /\ Linked(t) => /\ \A link \in Links(t) : Deref(u, link) = Deref(t, link)
                         /\ \A n \in Nodes(t) : get_node_ptr(u, n) = get_node_ptr(t, n)
<1>1. Linked(t) => Linked(u)
  <2> SUFFICES ASSUME Linked(t) PROVE Linked(u)
    OBVIOUS
  <2>1. u.root \in Nodes(u) \cup {NULL} /\ \A n \in Nodes(u) : Parent(u, n) \in Nodes(u) \cup {NULL}
    BY DEF SameShape, Linked
  <2>2. \A n \in Nodes(u) : Parent(u, n) = NULL <=> n = u.root
    BY DEF SameShape, Linked
  <2>3. \A n \in Nodes(u), s \in Sides :
          Kid(u, n, s) # NULL => /\ Kid(u, n, s) \in Nodes(u)
                                 /\ Parent(u, Kid(u, n, s)) = n
                                 /\ Kid(u, n, s) # Kid(u, n, Other(s))
    BY SideFacts DEF SameShape, Linked
  <2>4. \A n \in Nodes(u) : Parent(u, n) # NULL => \E s \in Sides : Kid(u, Parent(u, n), s) = n
    BY DEF SameShape, Linked
  <2>5. \A S \in SUBSET Nodes(u) : S # {} => \E n \in S : Parent(u, n) \notin S
    BY DEF SameShape, Linked
  <2> QED BY <2>1, <2>2, <2>3, <2>4, <2>5 DEF Linked
<1>2. ASSUME NEW bound, Linked(t), InOrder(t, bound) PROVE InOrder(u, bound)
  <2>1. Bounds(u, bound)
    BY <1>2 DEF SameShape, InOrder, Bounds
  <2>2. ASSUME NEW n \in Nodes(u), NEW s \in Sides, bound[n][s] # NULL
        PROVE  Toward(s, Key(u, bound[n][s]), Key(u, n))
    <3>1. bound[n][s] \in Nodes(t) /\ n \in Nodes(t)
      BY <1>2, <2>2 DEF SameShape, InOrder, Bounds
    <3>2. Toward(s, Key(t, bound[n][s]), Key(t, n))
      BY <1>2, <2>2, <3>1 DEF InOrder, Within
    <3> QED BY <3>1, <3>2 DEF SameShape
  <2> QED BY <2>1, <2>2 DEF InOrder, Within
<1>3. Links(u) = Links(t)
  BY DEF SameShape, Links, Nodes
<1>4. ASSUME Linked(t), NEW link \in Links(t) PROVE Deref(u, link) = Deref(t, link)
  <2>1. CASE link = RootLink
    BY <2>1 DEF SameShape, Deref
  <2>2. CASE link # RootLink
    <3>1. PICK n \in Nodes(t), s \in Sides : link = <<n, s>>
      BY <2>2 DEF Links, Nodes, Sides
    <3>2. Kid(u, n, s) = Kid(t, n, s)
      BY DEF SameShape
    <3> QED BY <2>2, <3>1, <3>2 DEF Deref, Kid
  <2> QED BY <2>1, <2>2
<1>5. ASSUME Linked(t), NEW n \in Nodes(t) PROVE get_node_ptr(u, n) = get_node_ptr(t, n)
  <2>1. get_node_ptr(t, n) \in Links(t) /\ Deref(t, get_node_ptr(t, n)) = n /\ n # NULL
    BY <1>5, LinkFacts, FieldTypes
  <2>2. Deref(u, get_node_ptr(t, n)) = n
    BY <1>4, <1>5, <2>1
  <2>3. Linked(u) /\ get_node_ptr(t, n) \in Links(u)
    BY <1>1, <1>3, <1>5, <2>1
  <2> QED BY <2>1, <2>2, <2>3, NodeLink
<1> QED BY <1>1, <1>2, <1>3, <1>4, <1>5

(* The stored heights of NULL and of nodes.                                *)
LEMMA HeightTypes ==
  ASSUME NEW t, IsTree(t), NEW a \in Nodes(t) \cup {NULL}, NEW b \in Nodes(t) \cup {NULL}
  PROVE  /\ get_height(t, a) \in Nat /\ kids_height(t, a, b) \in Nat \ {0}
         /\ get_height(t, a) > 0 => a # NULL
<1>1. \A n \in Nodes(t) : t.node[n].subtree_height \in Nat \ {0}
  BY FieldTypes
<1>2. \A n \in Nodes(t) \cup {NULL} : get_height(t, n) \in Nat /\ (get_height(t, n) > 0 => n # NULL)
  BY <1>1 DEF get_height
<1>3. \A i, j \in Nat : MAX(i, j) + 1 \in Nat \ {0}
  BY DEF MAX
<1>4. kids_height(t, a, b) \in Nat \ {0}
  BY <1>2, <1>3 DEF kids_height
<1> QED BY <1>2, <1>4

(* update_height changes no link.                                          *)
LEMMA UpdateHeightKeepsShape ==
  ASSUME NEW t, IsTree(t), Linked(t), NEW n \in Nodes(t)
  PROVE  /\ IsTree(update_height(t, n)) /\ SameShape(t, update_height(t, n))
         /\ update_height(t, n).alive = t.alive /\ update_height(t, n).tree_size = t.tree_size
         /\ \A m \in Nodes(t) :
              update_height(t, n).node[m].subtree_height =
                IF m = n THEN kids_height(t, t.node[n].left_kid, t.node[n].right_kid)
                ELSE t.node[m].subtree_height
<1> DEFINE h == kids_height(t, t.node[n].left_kid, t.node[n].right_kid)
           u == [t EXCEPT !.node[n].subtree_height = h]
<1>1. h \in Nat \ {0}
  <2>1. t.node[n].left_kid \in Nodes(t) \cup {NULL} /\ t.node[n].right_kid \in Nodes(t) \cup {NULL}
    BY FieldTypes, SideFacts DEF Linked
  <2> QED BY <2>1, HeightTypes
<1> HIDE DEF h
<1>2. u.node = [t.node EXCEPT ![n] = WithHeight(t.node[n], h)]
      /\ u.root = t.root /\ u.alive = t.alive /\ u.tree_size = t.tree_size
      /\ u = [alive |-> u.alive, root |-> u.root, tree_size |-> u.tree_size, node |-> u.node]
  BY DEF IsTree, WithHeight
<1> HIDE DEF u
<1>3. \A m \in Nodes(t) : t.node[m] \in NodeType
  BY DEF IsTree, Nodes
<1>4. /\ WithHeight(t.node[n], h) \in NodeType
      /\ WithHeight(t.node[n], h).key = t.node[n].key
      /\ WithHeight(t.node[n], h).parent = t.node[n].parent
      /\ WithHeight(t.node[n], h)["left_kid"] = t.node[n]["left_kid"]
      /\ WithHeight(t.node[n], h)["right_kid"] = t.node[n]["right_kid"]
      /\ WithHeight(t.node[n], h).subtree_height = h
  BY <1>1, <1>3, WithHeightFields
<1>5. DOMAIN u.node = DOMAIN t.node /\ u.node \in [DOMAIN u.node -> NodeType]
  BY <1>2, <1>3, <1>4 DEF Nodes
<1>6. IsTree(u)
  BY <1>2, <1>5 DEF IsTree
<1>7. ASSUME NEW m \in Nodes(t)
      PROVE  /\ Key(u, m) = Key(t, m) /\ Parent(u, m) = Parent(t, m)
             /\ \A s \in Sides : Kid(u, m, s) = Kid(t, m, s)
  BY <1>2, <1>4 DEF Nodes, Key, Parent, Kid, Sides
<1>8. SameShape(t, u)
  BY <1>2, <1>5, <1>7 DEF SameShape, Nodes
<1>9. update_height(t, n) = u
  BY DEF update_height, u, h
<1>10. \A m \in Nodes(t) : u.node[m].subtree_height = IF m = n THEN h ELSE t.node[m].subtree_height
  BY <1>2, <1>4 DEF Nodes
<1> QED BY <1>2, <1>6, <1>8, <1>9, <1>10 DEF h

-----------------------------------------------------------------------------
(* Rebalancing.                                                            *)

(* The tree u has the nodes and keys of t, and is linked and in order.     *)
Rearranged(t, u) ==
  /\ IsTree(u) /\ Linked(u) /\ \E b : InOrder(u, b)
  /\ Nodes(u) = Nodes(t) /\ u.alive = t.alive
  /\ \A n \in Nodes(t) : Key(u, n) = Key(t, n)

(* A rotation that lifts a kid rearranges the tree.                        *)
LEMMA RotationRearranges ==
  ASSUME NEW t, IsTree(t), Linked(t), NEW bound, InOrder(t, bound),
         NEW link \in Links(t), NEW up \in Sides,
         NEW top, top = Deref(t, link), top # NULL,
         NEW kid, kid = Kid(t, top, up), kid # NULL,
         NEW th \in Nat \ {0}, NEW kh \in Nat \ {0}
  PROVE  LET u == relink(t, link, up, Other(up), th, kh)
         IN  /\ Rearranged(t, u) /\ Deref(u, link) = kid
             /\ Rotation(t, u, top, kid, Kid(t, kid, Other(up)), up)
             /\ \A m \in Nodes(t) :
                  u.node[m].subtree_height =
                    IF m = kid THEN kh ELSE IF m = top THEN th ELSE t.node[m].subtree_height
<1> DEFINE u == relink(t, link, up, Other(up), th, kh)
           T2 == Kid(t, kid, Other(up))
<1>1. /\ IsTree(u) /\ Rotation(t, u, top, kid, T2, up) /\ Deref(u, link) = kid
      /\ \A m \in Nodes(t) :
           u.node[m].subtree_height =
             IF m = kid THEN kh ELSE IF m = top THEN th ELSE t.node[m].subtree_height
  BY RelinkRotates
<1>2. top \in Nodes(t)
  BY NodeLink
<1> HIDE DEF u, T2
<1>3. Linked(u)
  BY <1>1, <1>2, RotationKeepsLinked DEF T2
<1>4. \E b : InOrder(u, b)
  BY <1>1, <1>2, RotationKeepsOrder DEF T2
<1>5. Rearranged(t, u)
  BY <1>1, <1>3, <1>4 DEF Rearranged, Rotation
<1> QED BY <1>1, <1>5 DEF u, T2

(* rotate_right lifts a left kid.                                          *)
LEMMA RotateRightRearranges ==
  ASSUME NEW t, IsTree(t), Linked(t), NEW bound, InOrder(t, bound),
         NEW link \in Links(t), Deref(t, link) # NULL,
         Kid(t, Deref(t, link), "left_kid") # NULL
  PROVE  LET u == rotate_right(t, link)
             top == Deref(t, link)
             kid == Kid(t, top, "left_kid")
         IN  /\ Rearranged(t, u) /\ Deref(u, link) = kid
             /\ Rotation(t, u, top, kid, Kid(t, kid, "right_kid"), "left_kid")
             /\ LET low == MAX(get_height(t, Kid(t, kid, "right_kid")), get_height(t, Kid(t, top, "right_kid"))) + 1
                IN  \A m \in Nodes(t) :
                      u.node[m].subtree_height =
                        IF m = kid THEN MAX(get_height(t, Kid(t, kid, "left_kid")), low) + 1
                        ELSE IF m = top THEN low ELSE t.node[m].subtree_height
<1> DEFINE y == Deref(t, link)
           x == t.node[y].left_kid
           yh == kids_height(t, t.node[x].right_kid, t.node[y].right_kid)
           xh == MAX(get_height(t, t.node[x].left_kid), yh) + 1
<1>1. y \in Nodes(t) /\ x = Kid(t, y, "left_kid")
  BY NodeLink, FieldTypes
<1>2. x \in Nodes(t)
  BY <1>1, SideFacts DEF Linked
<1>3. \A m \in Nodes(t) : /\ t.node[m].left_kid \in Nodes(t) \cup {NULL}
                          /\ t.node[m].right_kid \in Nodes(t) \cup {NULL}
  BY FieldTypes, SideFacts DEF Linked
<1> HIDE DEF x, y
<1>4. yh \in Nat \ {0} /\ get_height(t, t.node[x].left_kid) \in Nat
  BY <1>1, <1>2, <1>3, HeightTypes
<1> HIDE DEF yh
<1>5. xh \in Nat \ {0}
  BY <1>4 DEF MAX
<1>6. rotate_right(t, link) = relink(t, link, "left_kid", "right_kid", yh, xh)
  BY DEF rotate_right, yh, x, y
<1> HIDE DEF xh
<1>7. LET u == relink(t, link, "left_kid", Other("left_kid"), yh, xh)
      IN  /\ Rearranged(t, u) /\ Deref(u, link) = x
          /\ Rotation(t, u, y, x, Kid(t, x, Other("left_kid")), "left_kid")
          /\ \A m \in Nodes(t) :
               u.node[m].subtree_height =
                 IF m = x THEN xh ELSE IF m = y THEN yh ELSE t.node[m].subtree_height
  BY <1>1, <1>4, <1>5, RotationRearranges, SideFacts DEF y
<1>8. /\ yh = MAX(get_height(t, Kid(t, x, "right_kid")), get_height(t, Kid(t, y, "right_kid"))) + 1
      /\ xh = MAX(get_height(t, Kid(t, x, "left_kid")), yh) + 1
  BY <1>1, <1>2, FieldTypes DEF yh, xh, kids_height
<1> HIDE DEF y
<1>9. LET u == rotate_right(t, link)
      IN  /\ Rearranged(t, u) /\ Deref(u, link) = x
          /\ Rotation(t, u, y, x, Kid(t, x, "right_kid"), "left_kid")
          /\ \A m \in Nodes(t) :
               u.node[m].subtree_height =
                 IF m = x THEN xh ELSE IF m = y THEN yh ELSE t.node[m].subtree_height
  BY <1>6, <1>7, SideFacts
<1> QED BY <1>1, <1>8, <1>9 DEF y

(* rotate_left lifts a right kid.                                          *)
LEMMA RotateLeftRearranges ==
  ASSUME NEW t, IsTree(t), Linked(t), NEW bound, InOrder(t, bound),
         NEW link \in Links(t), Deref(t, link) # NULL,
         Kid(t, Deref(t, link), "right_kid") # NULL
  PROVE  LET u == rotate_left(t, link)
             top == Deref(t, link)
             kid == Kid(t, top, "right_kid")
         IN  /\ Rearranged(t, u) /\ Deref(u, link) = kid
             /\ Rotation(t, u, top, kid, Kid(t, kid, "left_kid"), "right_kid")
             /\ LET low == MAX(get_height(t, Kid(t, top, "left_kid")), get_height(t, Kid(t, kid, "left_kid"))) + 1
                IN  \A m \in Nodes(t) \ {kid} :
                      u.node[m].subtree_height = IF m = top THEN low ELSE t.node[m].subtree_height
<1> DEFINE x == Deref(t, link)
           y == t.node[x].right_kid
           yh == kids_height(t, x, t.node[y].right_kid)
           xh == kids_height(t, t.node[x].left_kid, t.node[y].left_kid)
<1>1. x \in Nodes(t) /\ y = Kid(t, x, "right_kid")
  BY NodeLink, FieldTypes
<1>2. y \in Nodes(t)
  BY <1>1, SideFacts DEF Linked
<1>3. \A m \in Nodes(t) : /\ t.node[m].left_kid \in Nodes(t) \cup {NULL}
                          /\ t.node[m].right_kid \in Nodes(t) \cup {NULL}
  BY FieldTypes, SideFacts DEF Linked
<1> HIDE DEF x, y
<1>4. yh \in Nat \ {0} /\ xh \in Nat \ {0}
  BY <1>1, <1>2, <1>3, HeightTypes
<1>6. rotate_left(t, link) = relink(t, link, "right_kid", "left_kid", xh, yh)
  BY DEF rotate_left, x, y
<1> HIDE DEF xh, yh
<1>7. LET u == relink(t, link, "right_kid", Other("right_kid"), xh, yh)
      IN  /\ Rearranged(t, u) /\ Deref(u, link) = y
          /\ Rotation(t, u, x, y, Kid(t, y, Other("right_kid")), "right_kid")
          /\ \A m \in Nodes(t) :
               u.node[m].subtree_height =
                 IF m = y THEN yh ELSE IF m = x THEN xh ELSE t.node[m].subtree_height
  BY <1>1, <1>4, RotationRearranges, SideFacts DEF x
<1>8. xh = MAX(get_height(t, Kid(t, x, "left_kid")), get_height(t, Kid(t, y, "left_kid"))) + 1
  BY <1>1, <1>2, FieldTypes DEF xh, kids_height
<1> HIDE DEF x
<1>9. LET u == rotate_left(t, link)
      IN  /\ Rearranged(t, u) /\ Deref(u, link) = y
          /\ Rotation(t, u, x, y, Kid(t, y, "left_kid"), "right_kid")
          /\ \A m \in Nodes(t) :
               u.node[m].subtree_height =
                 IF m = y THEN yh ELSE IF m = x THEN xh ELSE t.node[m].subtree_height
  BY <1>6, <1>7, SideFacts
<1> QED BY <1>1, <1>8, <1>9 DEF x

(* A rotation below n leaves the link to n alone, and lifts a grandkid of  *)
(* n to the kid that the outer rotation of a double rotation lifts.        *)
LEMMA InnerRotation ==
  ASSUME NEW t, IsTree(t), Linked(t), NEW n \in Nodes(t), NEW a \in Sides,
         NEW kid, kid = Kid(t, n, a), kid # NULL,
         NEW grandkid, grandkid = Kid(t, kid, Other(a)), grandkid # NULL,
         NEW u, IsTree(u), Linked(u), NEW T2, Rotation(t, u, kid, grandkid, T2, Other(a))
  PROVE  /\ get_node_ptr(t, n) \in Links(u) /\ Deref(u, get_node_ptr(t, n)) = n
         /\ Kid(u, n, a) = grandkid
<1> DEFINE ptr == get_node_ptr(t, n)
<1>1. /\ kid \in Nodes(t) /\ kid # n /\ grandkid # n /\ grandkid # kid
      /\ Parent(t, n) # NULL => Parent(t, n) \notin {n, kid, grandkid}
  BY RotationNodes
<1>2. ptr \in Links(t) /\ Deref(t, ptr) = n /\ n # NULL
  BY LinkFacts, FieldTypes
<1>3. Links(u) = Links(t)
  BY DEF Links, Rotation, Nodes
<1>4. Kid(u, n, a) = grandkid
  BY <1>1 DEF Rotation
<1>5. Deref(u, ptr) = n
  <2>1. CASE ptr = RootLink
    <3>1. t.root = n
      BY <1>2, <2>1 DEF Deref
    <3>2. u.root = n
      BY <1>1, <3>1 DEF Rotation
    <3> QED BY <2>1, <3>2 DEF Deref
  <2>2. CASE ptr # RootLink
    <3>1. PICK p \in Nodes(t), s \in Sides : ptr = <<p, s>>
      BY <1>2, <2>2 DEF Links, Nodes, Sides
    <3>2. Kid(t, p, s) = n
      BY <1>2, <3>1, KidLink
    <3>3. p = Parent(t, n) /\ p # NULL
      BY <1>2, <3>2, FieldTypes DEF Linked
    <3>4. p # kid /\ p # grandkid
      BY <1>1, <3>3
    <3>5. Kid(u, p, s) = n
      BY <1>1, <3>2, <3>4 DEF Rotation
    <3>6. p \in Nodes(u)
      BY DEF Rotation
    <3> HIDE DEF ptr
    <3> QED BY <3>1, <3>5, <3>6, KidLink
  <2> QED BY <2>1, <2>2
<1> QED BY <1>2, <1>3, <1>4, <1>5

(* Rearranging twice is rearranging.                                       *)
LEMMA RearrangedTwice ==
  ASSUME NEW t, NEW u, NEW v, Rearranged(t, u), Rearranged(u, v)
  PROVE  Rearranged(t, v)
BY DEF Rearranged

(* A rebalancing that does not lift NULL rearranges the tree.              *)
LEMMA RebalanceRearranges ==
  ASSUME NEW t, IsTree(t), Linked(t), NEW bound, InOrder(t, bound),
         NEW n \in Nodes(t), NEW key,
         NEW which, which = RebalanceCase(t, n, key), ~rotates_null(t, n, which)
  PROVE  LET u == rebalance(t, get_node_ptr(t, n), which)
         IN  Rearranged(t, u) /\ Deref(u, get_node_ptr(t, n)) \in Nodes(t)
<1> DEFINE ptr == get_node_ptr(t, n)
           L == Kid(t, n, "left_kid")
           R == Kid(t, n, "right_kid")
<1>1. ptr \in Links(t) /\ Deref(t, ptr) = n /\ n # NULL
  BY LinkFacts, FieldTypes
<1>2. t.node[n].left_kid = L /\ t.node[n].right_kid = R
  BY FieldTypes
<1>3. L \in Nodes(t) \cup {NULL} /\ R \in Nodes(t) \cup {NULL}
  BY SideFacts DEF Linked
<1>4. get_balance(t, n) > 1 => L # NULL
  <2> HIDE DEF L, R
  <2>1. get_height(t, L) \in Nat /\ get_height(t, R) \in Nat
        /\ (get_height(t, L) > 0 => L # NULL)
    BY <1>3, HeightTypes
  <2>2. get_balance(t, n) = get_height(t, L) - get_height(t, R)
    BY <1>2 DEF get_balance
  <2> QED BY <2>1, <2>2
<1>5. get_balance(t, n) < -1 => R # NULL
  <2> HIDE DEF L, R
  <2>1. get_height(t, L) \in Nat /\ get_height(t, R) \in Nat
        /\ (get_height(t, R) > 0 => R # NULL)
    BY <1>3, HeightTypes
  <2>2. get_balance(t, n) = get_height(t, L) - get_height(t, R)
    BY <1>2 DEF get_balance
  <2> QED BY <2>1, <2>2
<1>6. /\ which \in {"left-left", "left-right", "right-right", "right-left", "balanced"}
      /\ which \in {"left-left", "left-right"} => get_balance(t, n) > 1
      /\ which \in {"right-right", "right-left"} => get_balance(t, n) < -1
  BY DEF RebalanceCase
<1>7. CASE which = "left-left"
  <2>1. rebalance(t, ptr, which) = rotate_right(t, ptr)
    BY <1>7 DEF rebalance
  <2>2. L # NULL
    BY <1>4, <1>6, <1>7
  <2> HIDE DEF ptr
  <2>3. Rearranged(t, rotate_right(t, ptr)) /\ Deref(rotate_right(t, ptr), ptr) = L
    BY <1>1, <2>2, RotateRightRearranges
  <2> QED BY <1>3, <2>1, <2>2, <2>3 DEF ptr
<1>8. CASE which = "right-right"
  <2>1. rebalance(t, ptr, which) = rotate_left(t, ptr)
    BY <1>8 DEF rebalance
  <2>2. R # NULL
    BY <1>5, <1>6, <1>8
  <2> HIDE DEF ptr
  <2>3. Rearranged(t, rotate_left(t, ptr)) /\ Deref(rotate_left(t, ptr), ptr) = R
    BY <1>1, <2>2, RotateLeftRearranges
  <2> QED BY <1>3, <2>1, <2>2, <2>3 DEF ptr
<1>9. CASE which = "left-right"
  <2> DEFINE u == rotate_left(t, <<n, "left_kid">>)
             G == Kid(t, L, "right_kid")
  <2>1. rebalance(t, ptr, which) = rotate_right(u, ptr)
    BY <1>1, <1>9 DEF rebalance
  <2>2. L # NULL /\ L \in Nodes(t)
    BY <1>3, <1>4, <1>6, <1>9
  <2>3. G # NULL
    BY <1>2, <1>9, <2>2, FieldTypes DEF rotates_null
  <2>4. <<n, "left_kid">> \in Links(t) /\ Deref(t, <<n, "left_kid">>) = L
    BY KidLink, SideFacts
  <2>5. /\ Rearranged(t, u) /\ Rotation(t, u, L, G, Kid(t, G, "left_kid"), "right_kid")
    BY <2>2, <2>3, <2>4, RotateLeftRearranges
  <2> HIDE DEF u
  <2>6. ptr \in Links(u) /\ Deref(u, ptr) = n /\ Kid(u, n, "left_kid") = G
    BY <2>2, <2>3, <2>5, InnerRotation, SideFacts DEF Rearranged
  <2> HIDE DEF ptr, G
  <2>7. PICK b : InOrder(u, b)
    BY <2>5 DEF Rearranged
  <2>8. Rearranged(u, rotate_right(u, ptr)) /\ Deref(rotate_right(u, ptr), ptr) = G
    BY <1>1, <2>3, <2>5, <2>6, <2>7, RotateRightRearranges DEF Rearranged
  <2>9. G \in Nodes(t)
    BY <2>2, <2>3, SideFacts DEF Linked, G
  <2>10. Rearranged(t, rotate_right(u, ptr))
    BY <2>5, <2>8, RearrangedTwice
  <2> QED BY <2>1, <2>8, <2>9, <2>10 DEF ptr
<1>10. CASE which = "right-left"
  <2> DEFINE u == rotate_right(t, <<n, "right_kid">>)
             G == Kid(t, R, "left_kid")
  <2>1. rebalance(t, ptr, which) = rotate_left(u, ptr)
    BY <1>1, <1>10 DEF rebalance
  <2>2. R # NULL /\ R \in Nodes(t)
    BY <1>3, <1>5, <1>6, <1>10
  <2>3. G # NULL
    BY <1>2, <1>10, <2>2, FieldTypes DEF rotates_null
  <2>4. <<n, "right_kid">> \in Links(t) /\ Deref(t, <<n, "right_kid">>) = R
    BY KidLink, SideFacts
  <2>5. /\ Rearranged(t, u) /\ Rotation(t, u, R, G, Kid(t, G, "right_kid"), "left_kid")
    BY <2>2, <2>3, <2>4, RotateRightRearranges
  <2> HIDE DEF u
  <2>6. ptr \in Links(u) /\ Deref(u, ptr) = n /\ Kid(u, n, "right_kid") = G
    BY <2>2, <2>3, <2>5, InnerRotation, SideFacts DEF Rearranged
  <2> HIDE DEF ptr, G
  <2>7. PICK b : InOrder(u, b)
    BY <2>5 DEF Rearranged
  <2>8. Rearranged(u, rotate_left(u, ptr)) /\ Deref(rotate_left(u, ptr), ptr) = G
    BY <1>1, <2>3, <2>5, <2>6, <2>7, RotateLeftRearranges DEF Rearranged
  <2>9. G \in Nodes(t)
    BY <2>2, <2>3, SideFacts DEF Linked, G
  <2>10. Rearranged(t, rotate_left(u, ptr))
    BY <2>5, <2>8, RearrangedTwice
  <2> QED BY <2>1, <2>8, <2>9, <2>10 DEF ptr
<1>11. CASE which = "balanced"
  <2>1. rebalance(t, ptr, which) = t
    BY <1>11 DEF rebalance
  <2> QED BY <1>1, <2>1 DEF Rearranged
<1> QED BY <1>6, <1>7, <1>8, <1>9, <1>10, <1>11

-----------------------------------------------------------------------------
(* Stores.                                                                 *)

IsTreeRecord(v) ==
  /\ v = [alive |-> v.alive, root |-> v.root, tree_size |-> v.tree_size, node |-> v.node]
  /\ v.node \in [DOMAIN v.node -> NodeType]

(* A store through a link changes the link only.                           *)
LEMMA StoreFields ==
  ASSUME NEW v, IsTreeRecord(v), NEW link \in Links(v), NEW c \in Cells \cup {NULL}
  PROVE  LET u == Store(v, link, c)
         IN  /\ IsTreeRecord(u)
             /\ u.alive = v.alive /\ u.tree_size = v.tree_size /\ Nodes(u) = Nodes(v)
             /\ u.root = IF link = RootLink THEN c ELSE v.root
             /\ \A m \in Nodes(v) : Key(u, m) = Key(v, m) /\ Parent(u, m) = Parent(v, m)
             /\ \A m \in Nodes(v), s \in Sides :
                  Kid(u, m, s) = IF <<m, s>> = link THEN c ELSE Kid(v, m, s)
             /\ \A m \in Nodes(v) : u.node[m].subtree_height = v.node[m].subtree_height
<1> DEFINE u == Store(v, link, c)
<1>1. CASE link = RootLink
  <2>1. u = [v EXCEPT !.root = c]
    BY <1>1 DEF Store
  <2>2. u.root = c /\ u.alive = v.alive /\ u.tree_size = v.tree_size /\ u.node = v.node
        /\ u = [alive |-> u.alive, root |-> u.root, tree_size |-> u.tree_size, node |-> u.node]
    BY <2>1 DEF IsTreeRecord
  <2>3. \A m \in Nodes(v), s \in Sides : <<m, s>> # link
    BY <1>1 DEF RootLink, Sides
  <2> HIDE DEF u
  <2>4. IsTreeRecord(u)
    BY <2>2 DEF IsTreeRecord
  <2>5. \A m \in Nodes(v) : Key(u, m) = Key(v, m) /\ Parent(u, m) = Parent(v, m)
    BY <2>2 DEF Key, Parent
  <2>6. \A m \in Nodes(v), s \in Sides : Kid(u, m, s) = IF <<m, s>> = link THEN c ELSE Kid(v, m, s)
    BY <2>2, <2>3 DEF Kid
  <2> QED BY <1>1, <2>2, <2>4, <2>5, <2>6 DEF Nodes, u
<1>2. CASE link # RootLink
  <2>1. PICK p \in Nodes(v), o \in Sides : link = <<p, o>>
    BY <1>2 DEF Links, Nodes, Sides
  <2>2. u = [v EXCEPT !.node[p][o] = c]
    BY <1>2, <2>1 DEF Store
  <2> DEFINE w == WithKid(v.node[p], o, c)
  <2>3. u.root = v.root /\ u.alive = v.alive /\ u.tree_size = v.tree_size
        /\ u.node = [v.node EXCEPT ![p] = w]
        /\ u = [alive |-> u.alive, root |-> u.root, tree_size |-> u.tree_size, node |-> u.node]
    BY <2>2 DEF IsTreeRecord, WithKid
  <2>4. /\ w \in NodeType /\ w.key = v.node[p].key /\ w.parent = v.node[p].parent
        /\ w[o] = c /\ w[Other(o)] = v.node[p][Other(o)]
        /\ w.subtree_height = v.node[p].subtree_height
    <3>1. v.node[p] \in NodeType
      BY DEF IsTreeRecord, Nodes
    <3> QED BY <3>1, WithKidFields
  <2> HIDE DEF u, w
  <2>5. DOMAIN u.node = DOMAIN v.node /\ u.node \in [DOMAIN u.node -> NodeType]
    BY <2>3, <2>4 DEF IsTreeRecord
  <2>6. \A m \in Nodes(v) : u.node[m] = IF m = p THEN w ELSE v.node[m]
    BY <2>3 DEF Nodes
  <2>7. \A m \in Nodes(v) : Key(u, m) = Key(v, m) /\ Parent(u, m) = Parent(v, m)
    BY <2>4, <2>6 DEF Key, Parent
  <2>8. \A m \in Nodes(v), s \in Sides : <<m, s>> = link <=> m = p /\ s = o
    BY <2>1
  <2>9. \A m \in Nodes(v), s \in Sides : Kid(u, m, s) = IF m = p /\ s = o THEN c ELSE Kid(v, m, s)
    <3>1. \A s \in Sides : s = o \/ s = Other(o)
      BY SideFacts
    <3>2. Other(o) # o
      BY SideFacts
    <3> QED BY <2>4, <2>6, <3>1, <3>2 DEF Kid
  <2>10. \A m \in Nodes(v) : u.node[m].subtree_height = v.node[m].subtree_height
    BY <2>4, <2>6
  <2> QED BY <1>2, <2>3, <2>5, <2>7, <2>8, <2>9, <2>10 DEF IsTreeRecord, Nodes, u
<1> QED BY <1>1, <1>2

-----------------------------------------------------------------------------
(* Insertion.                                                              *)

(* In the tree u the node n with the key has been added to t at a link.    *)
Insertion(t, u, link, n, key) ==
  /\ Nodes(u) = Nodes(t) \cup {n} /\ u.alive = t.alive
  /\ u.root = IF link = RootLink THEN n ELSE t.root
  /\ Key(u, n) = key /\ Parent(u, n) = link[1]
  /\ \A s \in Sides : Kid(u, n, s) = NULL
  /\ \A m \in Nodes(t) :
       /\ Key(u, m) = Key(t, m) /\ Parent(u, m) = Parent(t, m)
       /\ \A s \in Sides : Kid(u, m, s) = IF <<m, s>> = link THEN n ELSE Kid(t, m, s)

(* What insert stores.                                                     *)
WithNewNode(t, link, n, key) ==
  LET cells == [m \in DOMAIN t.node \cup {n} |->
                  IF m = n THEN new_node(link[1], key) ELSE t.node[m]]
  IN  Store([t EXCEPT !.node = cells, !.tree_size = @ + 1], link, n)

(* The new node is a leaf, and nothing else changes but the link to it.    *)
LEMMA InsertStores ==
  ASSUME NEW t, IsTree(t), Linked(t), NEW link \in Links(t),
         NEW n \in Cells \ Nodes(t), NEW key \in Keys
  PROVE  LET u == WithNewNode(t, link, n, key)
         IN  /\ IsTree(u) /\ Insertion(t, u, link, n, key)
             /\ u.node[n].subtree_height = 1
             /\ \A m \in Nodes(t) : u.node[m].subtree_height = t.node[m].subtree_height
<1> DEFINE cells == [m \in DOMAIN t.node \cup {n} |->
                       IF m = n THEN new_node(link[1], key) ELSE t.node[m]]
           v == [t EXCEPT !.node = cells, !.tree_size = @ + 1]
           u == Store(v, link, n)
           r == new_node(link[1], key)
<1>0. WithNewNode(t, link, n, key) = u
  BY DEF WithNewNode
<1>1. link[1] \in Nodes(t) \cup {NULL}
  BY DEF Links, RootLink, Nodes
<1>2. /\ r \in NodeType /\ r.key = key /\ r.parent = link[1]
      /\ r["left_kid"] = NULL /\ r["right_kid"] = NULL /\ r.subtree_height = 1
  BY <1>1 DEF new_node, NodeType, IsTree, Nodes
<1> HIDE DEF r, cells
<1>3. v.alive = t.alive /\ v.root = t.root /\ v.tree_size = t.tree_size + 1 /\ v.node = cells
      /\ v = [alive |-> v.alive, root |-> v.root, tree_size |-> v.tree_size, node |-> v.node]
  <2>1. t = [alive |-> t.alive, root |-> t.root, tree_size |-> t.tree_size, node |-> t.node]
    BY DEF IsTree
  <2> DEFINE w == [t EXCEPT !.node = cells]
             size == t.tree_size + 1
  <2>2. w = [alive |-> t.alive, root |-> t.root, tree_size |-> t.tree_size, node |-> cells]
    BY <2>1
  <2>3. v = [w EXCEPT !.tree_size = size]
    BY <2>1
  <2> HIDE DEF v, w, size
  <2>4. v = [alive |-> t.alive, root |-> t.root, tree_size |-> size, node |-> cells]
    BY <2>2, <2>3
  <2> QED BY <2>4 DEF size
<1> HIDE DEF v
<1>4. /\ DOMAIN cells = Nodes(t) \cup {n} /\ cells[n] = r
      /\ \A m \in Nodes(t) : cells[m] = t.node[m]
      /\ cells \in [Nodes(t) \cup {n} -> NodeType]
  BY <1>2 DEF Nodes, IsTree, cells, r
<1>5. IsTreeRecord(v) /\ Nodes(v) = Nodes(t) \cup {n}
  BY <1>3, <1>4 DEF IsTreeRecord, Nodes
<1>6. link \in Links(v)
  BY <1>5 DEF Links, Nodes
<1>7. \A m \in Nodes(t) : Key(v, m) = Key(t, m) /\ Parent(v, m) = Parent(t, m)
                          /\ \A s \in Sides : Kid(v, m, s) = Kid(t, m, s)
  BY <1>3, <1>4 DEF Key, Parent, Kid
<1>8. Key(v, n) = key /\ Parent(v, n) = link[1] /\ \A s \in Sides : Kid(v, n, s) = NULL
  BY <1>2, <1>3, <1>4 DEF Key, Parent, Kid, Sides
<1>9. /\ IsTreeRecord(u)
      /\ u.alive = v.alive /\ u.tree_size = v.tree_size /\ Nodes(u) = Nodes(v)
      /\ u.root = IF link = RootLink THEN n ELSE v.root
      /\ \A m \in Nodes(v) : Key(u, m) = Key(v, m) /\ Parent(u, m) = Parent(v, m)
      /\ \A m \in Nodes(v), s \in Sides :
           Kid(u, m, s) = IF <<m, s>> = link THEN n ELSE Kid(v, m, s)
      /\ \A m \in Nodes(v) : u.node[m].subtree_height = v.node[m].subtree_height
  BY <1>5, <1>6, StoreFields
<1> HIDE DEF u
<1>10. \A s \in Sides : <<n, s>> # link
  BY DEF Links, RootLink, Nodes, Sides
<1>11. Insertion(t, u, link, n, key)
  BY <1>3, <1>5, <1>7, <1>8, <1>9, <1>10 DEF Insertion
<1>12. IsFiniteSet(Nodes(u)) /\ u.tree_size = Cardinality(Nodes(u))
  <2>1. IsFiniteSet(Nodes(t)) /\ t.tree_size = Cardinality(Nodes(t))
    BY DEF IsTree, Nodes
  <2>2. IsFiniteSet(Nodes(t) \cup {n}) /\ Cardinality(Nodes(t) \cup {n}) = Cardinality(Nodes(t)) + 1
    BY <2>1, FS_AddElement
  <2> QED BY <1>3, <1>5, <1>9, <2>1, <2>2
<1>13. IsTree(u)
  BY <1>3, <1>5, <1>9, <1>12 DEF IsTree, IsTreeRecord, Nodes
<1>14. /\ u.node[n].subtree_height = 1
       /\ \A m \in Nodes(t) : u.node[m].subtree_height = t.node[m].subtree_height
  BY <1>2, <1>3, <1>4, <1>5, <1>9
<1> HIDE DEF r, cells, v
<1> QED BY <1>0, <1>11, <1>13, <1>14

(* A node added where its key would be in order keeps the tree linked and  *)
(* in order.                                                               *)
LEMMA InsertionKeeps ==
  ASSUME NEW t, IsTree(t), Linked(t), NEW bound, InOrder(t, bound), NEW key \in Int,
         NEW link, PlaceFor(t, bound, key, link), NEW n \in Cells \ Nodes(t),
         NEW u, Insertion(t, u, link, n, key)
  PROVE  Linked(u) /\ \E b : InOrder(u, b)
<1> DEFINE N == Nodes(t)
           p == link[1]
           b == [m \in N \cup {n} |-> [s \in Sides |->
                   IF m # n THEN bound[m][s]
                   ELSE IF link = RootLink THEN NULL
                   ELSE IF link = <<p, s>> THEN bound[p][s] ELSE p]]
<1>1. /\ Nodes(u) = N \cup {n} /\ u.root = IF link = RootLink THEN n ELSE t.root
      /\ Key(u, n) = key /\ Parent(u, n) = p /\ \A s \in Sides : Kid(u, n, s) = NULL
      /\ \A m \in N : /\ Key(u, m) = Key(t, m) /\ Parent(u, m) = Parent(t, m)
                      /\ \A s \in Sides : Kid(u, m, s) = IF <<m, s>> = link THEN n ELSE Kid(t, m, s)
  BY DEF Insertion
<1>2. \A m \in N : m # NULL /\ m # n /\ Key(t, m) \in Int
  BY FieldTypes
<1>3. n # NULL /\ n \notin N
  BY AvlTreeAssumption
<1>4. /\ t.root \in N \cup {NULL}
      /\ \A m \in N : Parent(t, m) \in N \cup {NULL}
      /\ \A m \in N : Parent(t, m) = NULL <=> m = t.root
  BY DEF Linked
<1>5. \A m \in N, s \in Sides :
        Kid(t, m, s) # NULL => /\ Kid(t, m, s) \in N
                               /\ Parent(t, Kid(t, m, s)) = m
                               /\ Kid(t, m, s) # Kid(t, m, Other(s))
                               /\ bound[Kid(t, m, s)][s] = bound[m][s]
                               /\ bound[Kid(t, m, s)][Other(s)] = m
  BY DEF Linked, InOrder, Bounds
<1>6. \A m \in N : Parent(t, m) # NULL => \E s \in Sides : Kid(t, Parent(t, m), s) = m
  BY DEF Linked
<1>7. \A S \in SUBSET N : S # {} => \E m \in S : Parent(t, m) \notin S
  BY DEF Linked
<1>8. /\ bound \in [N -> [Sides -> N \cup {NULL}]]
      /\ t.root # NULL => \A s \in Sides : bound[t.root][s] = NULL
      /\ \A m \in N, s \in Sides : bound[m][s] # NULL => Toward(s, Key(t, bound[m][s]), Key(t, m))
  BY DEF InOrder, Bounds, Within
<1>9. \A s \in Sides : Other(s) \in Sides /\ Other(s) # s /\ Other(Other(s)) = s
                       /\ \A o \in Sides : o = s \/ o = Other(s)
  BY SideFacts
<1>10. /\ \A s \in Sides : b[n][s] = IF link = RootLink THEN NULL
                                     ELSE IF link = <<p, s>> THEN bound[p][s] ELSE p
       /\ \A m \in N, s \in Sides : b[m][s] = bound[m][s]
  BY <1>3
<1>11. CASE link = RootLink /\ t.root = NULL
  <2>1. N = {}
    BY <1>2, <1>11, RootExists
  <2>2. p = NULL
    BY <1>11 DEF RootLink
  <2>3. u.root = n /\ Nodes(u) = {n}
    BY <1>1, <1>11, <2>1
  <2> HIDE DEF p
  <2>4. Linked(u)
    BY <1>1, <1>3, <2>2, <2>3 DEF Linked
  <2>5. b \in [Nodes(u) -> [Sides -> Nodes(u) \cup {NULL}]] /\ \A s \in Sides : b[n][s] = NULL
    BY <1>10, <1>11, <2>1, <2>3
  <2> HIDE DEF b
  <2>6. InOrder(u, b)
    BY <1>1, <2>3, <2>5 DEF InOrder, Bounds, Within
  <2> QED BY <2>4, <2>6
<1>12. CASE \E q \in N, s \in Sides :
              /\ link = <<q, s>> /\ Kid(t, q, s) = NULL
              /\ Within(t, bound, q, key) /\ Toward(s, key, Key(t, q))
  <2>1. PICK side \in Sides : /\ p \in N /\ link = <<p, side>> /\ Kid(t, p, side) = NULL
                              /\ Within(t, bound, p, key) /\ Toward(side, key, Key(t, p))
    BY <1>12
  <2>2. link # RootLink /\ t.root # NULL
    <3>1. link # RootLink
      BY <2>1 DEF RootLink, Sides
    <3> QED BY <2>1, <3>1, RootExists, <1>2
  <2>3. \A m \in N, s \in Sides : Kid(u, m, s) = IF m = p /\ s = side THEN n ELSE Kid(t, m, s)
    BY <1>1, <2>1
  <2>4. b[n][side] = bound[p][side] /\ b[n][Other(side)] = p
    BY <1>9, <1>10, <2>1, <2>2
  <2>5. b \in [N \cup {n} -> [Sides -> N \cup {n, NULL}]]
    BY <1>8, <2>1
  <2> HIDE DEF N, p, b
  <2>6. Linked(u)
    <3>1. u.root \in N /\ \A m \in N \cup {n} : Parent(u, m) \in N \cup {NULL}
      BY <1>1, <1>4, <2>1, <2>2
    <3>2. \A m \in N \cup {n} : Parent(u, m) = NULL <=> m = u.root
      BY <1>1, <1>2, <1>3, <1>4, <2>1, <2>2
    <3>3. \A m \in N \cup {n}, s \in Sides :
            Kid(u, m, s) # NULL => /\ Kid(u, m, s) \in N \cup {n}
                                   /\ Parent(u, Kid(u, m, s)) = m
                                   /\ Kid(u, m, s) # Kid(u, m, Other(s))
      <4> SUFFICES ASSUME NEW m \in N, NEW s \in Sides, Kid(u, m, s) # NULL
                   PROVE  /\ Kid(u, m, s) \in N \cup {n}
                          /\ Parent(u, Kid(u, m, s)) = m
                          /\ Kid(u, m, s) # Kid(u, m, Other(s))
        BY <1>1
      <4>1. \A o \in Sides : Kid(t, m, o) # n
        BY <1>2, <1>3, <1>5
      <4>2. CASE m = p /\ s = side
        <5>1. Kid(u, m, Other(s)) = Kid(t, m, Other(s))
          BY <1>9, <2>3, <4>2
        <5> QED BY <1>1, <1>9, <2>3, <4>1, <4>2, <5>1
      <4>3. CASE ~(m = p /\ s = side)
        <5>1. Kid(u, m, s) = Kid(t, m, s) /\ Kid(t, m, s) # NULL
          BY <2>3, <4>3
        <5>2. Kid(u, m, Other(s)) \in {n, Kid(t, m, Other(s))}
          BY <1>9, <2>3
        <5> QED BY <1>1, <1>5, <4>1, <5>1, <5>2
      <4> QED BY <4>2, <4>3
    <3>4. \A m \in N \cup {n} : Parent(u, m) # NULL => \E s \in Sides : Kid(u, Parent(u, m), s) = m
      <4>1. Kid(u, Parent(u, n), side) = n
        BY <1>1, <2>1, <2>3
      <4>2. ASSUME NEW m \in N, Parent(u, m) # NULL
            PROVE  \E s \in Sides : Kid(u, Parent(u, m), s) = m
        <5>1. Parent(u, m) = Parent(t, m) /\ Parent(t, m) \in N
          BY <1>1, <1>4, <4>2
        <5>2. PICK s \in Sides : Kid(t, Parent(t, m), s) = m
          BY <1>6, <4>2, <5>1
        <5>3. Kid(t, Parent(t, m), s) # NULL
          BY <1>2, <5>2
        <5> QED BY <2>1, <2>3, <5>1, <5>2, <5>3
      <4> QED BY <4>1, <4>2
    <3>5. ASSUME NEW S \in SUBSET (N \cup {n}), S # {}
          PROVE  \E m \in S : Parent(u, m) \notin S
      <4>1. CASE S \ {n} = {}
        BY <1>1, <1>3, <2>1, <3>5, <4>1
      <4>2. CASE S \ {n} # {}
        <5>1. PICK m \in S \ {n} : Parent(t, m) \notin S \ {n}
          BY <1>7, <4>2
        <5>2. m \in N /\ Parent(t, m) # n
          BY <1>3, <1>4, <5>1
        <5> QED BY <1>1, <5>1, <5>2
      <4> QED BY <4>1, <4>2
    <3> QED BY <1>1, <3>1, <3>2, <3>3, <3>4, <3>5 DEF Linked
  <2>7. InOrder(u, b)
    <3>1. \A s \in Sides : b[u.root][s] = NULL
      BY <1>1, <1>4, <1>8, <1>10, <2>2
    <3>2. \A m \in N \cup {n}, s \in Sides :
            Kid(u, m, s) # NULL => b[Kid(u, m, s)][s] = b[m][s] /\ b[Kid(u, m, s)][Other(s)] = m
      <4> SUFFICES ASSUME NEW m \in N, NEW s \in Sides, Kid(u, m, s) # NULL
                   PROVE  b[Kid(u, m, s)][s] = b[m][s] /\ b[Kid(u, m, s)][Other(s)] = m
        BY <1>1
      <4>1. CASE m = p /\ s = side
        BY <1>10, <2>1, <2>3, <2>4, <4>1
      <4>2. CASE ~(m = p /\ s = side)
        <5>1. Kid(u, m, s) = Kid(t, m, s) /\ Kid(t, m, s) # NULL
          BY <2>3, <4>2
        <5> QED BY <1>5, <1>9, <1>10, <5>1
      <4> QED BY <4>1, <4>2
    <3>3. \A m \in N \cup {n} : Within(u, b, m, Key(u, m))
      <4>1. ASSUME NEW m \in N, NEW s \in Sides, b[m][s] # NULL
            PROVE  Toward(s, Key(u, b[m][s]), Key(u, m))
        <5>1. b[m][s] = bound[m][s] /\ bound[m][s] \in N
          BY <1>8, <1>10, <4>1
        <5> QED BY <1>1, <1>8, <4>1, <5>1
      <4>2. ASSUME b[n][side] # NULL PROVE Toward(side, Key(u, b[n][side]), key)
        <5>1. bound[p][side] # NULL /\ bound[p][side] \in N
          BY <1>8, <2>1, <2>4, <4>2
        <5>2. Toward(side, Key(t, bound[p][side]), key)
          BY <2>1, <5>1 DEF Within
        <5> QED BY <1>1, <2>4, <5>1, <5>2
      <4>3. Toward(Other(side), Key(u, b[n][Other(side)]), key)
        <5>1. Toward(Other(side), Key(t, p), key)
          BY <1>2, <2>1, TowardOrder
        <5> QED BY <1>1, <2>1, <2>4, <5>1
      <4> QED BY <1>1, <1>9, <4>1, <4>2, <4>3 DEF Within
    <3> QED BY <1>1, <2>5, <3>1, <3>2, <3>3 DEF InOrder, Bounds
  <2> QED BY <2>6, <2>7
<1> QED BY <1>11, <1>12 DEF PlaceFor

-----------------------------------------------------------------------------
(* Removal.                                                                *)

(* In the tree u the kid has taken the place of the node v of t.           *)
Unlinking(t, u, v, kid) ==
  /\ Nodes(u) = Nodes(t) \ {v} /\ u.alive = t.alive
  /\ u.root = IF t.root = v THEN kid ELSE t.root
  /\ \A m \in Nodes(u) :
       /\ Key(u, m) = Key(t, m)
       /\ Parent(u, m) = IF m = kid THEN Parent(t, v) ELSE Parent(t, m)
       /\ \A s \in Sides : Kid(u, m, s) = IF Kid(t, m, s) = v THEN kid ELSE Kid(t, m, s)

(* The only kid of a node is its kid on some side.                         *)
LEMMA OnlyKid ==
  ASSUME NEW t, IsTree(t), NEW v \in Nodes(t), NEW o \in Sides, Kid(t, v, o) = NULL
  PROVE  \E s \in Sides : Kid(t, v, s) = only_kid(t, v) /\ Kid(t, v, Other(s)) = NULL
<1>1. t.node[v].left_kid = Kid(t, v, "left_kid") /\ t.node[v].right_kid = Kid(t, v, "right_kid")
  BY FieldTypes
<1>2. only_kid(t, v) = IF Kid(t, v, "left_kid") # NULL THEN Kid(t, v, "left_kid") ELSE Kid(t, v, "right_kid")
  BY <1>1 DEF only_kid
<1>3. Other("left_kid") = "right_kid" /\ Other("right_kid") = "left_kid" /\ Sides = {"left_kid", "right_kid"}
  BY DEF Other, Sides
<1>4. CASE o = "left_kid"
  BY <1>2, <1>3, <1>4
<1>5. CASE o = "right_kid"
  BY <1>2, <1>3, <1>5
<1> QED BY <1>3, <1>4, <1>5

(* A kid that takes the place of its parent is neither it nor its parent.  *)
LEMMA OnlyKidFacts ==
  ASSUME NEW t, IsTree(t), Linked(t), NEW v \in Nodes(t), NEW side \in Sides,
         NEW kid, kid = Kid(t, v, side)
  PROVE  /\ v # NULL /\ v \notin {kid, Parent(t, v)} /\ kid \in Nodes(t) \cup {NULL}
         /\ kid # NULL => Parent(t, kid) = v /\ kid # Parent(t, v)
         /\ Parent(t, v) \in Nodes(t) \cup {NULL}
<1>1. v # NULL /\ kid \in Nodes(t) \cup {NULL} /\ (kid # NULL => Parent(t, kid) = v)
      /\ Parent(t, v) \in Nodes(t) \cup {NULL}
  BY FieldTypes DEF Linked
<1>2. Parent(t, v) # v
  <2>1. {v} \in SUBSET Nodes(t) /\ {v} # {}
    OBVIOUS
  <2>2. \E m \in {v} : Parent(t, m) \notin {v}
    BY <2>1 DEF Linked
  <2> QED BY <2>2
<1>3. kid # v
  BY <1>1, <1>2
<1>4. ASSUME kid # NULL, kid = Parent(t, v) PROVE FALSE
  <2>1. {v, kid} \in SUBSET Nodes(t) /\ {v, kid} # {}
    BY <1>1, <1>4
  <2>2. \E m \in {v, kid} : Parent(t, m) \notin {v, kid}
    BY <2>1 DEF Linked
  <2> QED BY <1>1, <1>4, <2>2
<1> QED BY <1>1, <1>2, <1>3, <1>4

(* What unlink stores and frees.                                           *)
LEMMA UnlinkStores ==
  ASSUME NEW t, IsTree(t), Linked(t), NEW v \in Nodes(t), NEW side \in Sides,
         Kid(t, v, side) = only_kid(t, v)
  PROVE  IsTree(unlink(t, v)) /\ Unlinking(t, unlink(t, v), v, only_kid(t, v))
<1> DEFINE kid == only_kid(t, v)
           link == get_node_ptr(t, v)
           t1 == IF kid = NULL THEN t ELSE [t EXCEPT !.node[kid].parent = t.node[v].parent]
           t2 == Store(t1, link, kid)
           u == [t2 EXCEPT !.node = Without(@, v), !.tree_size = @ - 1]
<1>1. unlink(t, v) = u
  BY DEF unlink
<1>2. /\ v # NULL /\ v \notin {kid, Parent(t, v)} /\ kid \in Nodes(t) \cup {NULL}
      /\ kid # NULL => Parent(t, kid) = v /\ kid # Parent(t, v)
      /\ Parent(t, v) \in Nodes(t) \cup {NULL}
  BY OnlyKidFacts
<1>3. link \in Links(t) /\ Deref(t, link) = v /\ \A l \in Links(t) : Deref(t, l) = v => l = link
  BY LinkFacts
<1>4. Nodes(t) \subseteq Cells /\ IsTreeRecord(t)
  BY DEF IsTree, IsTreeRecord, Nodes
<1> HIDE DEF kid, link
<1>5. /\ IsTreeRecord(t1) /\ t1.alive = t.alive /\ t1.tree_size = t.tree_size
      /\ t1.root = t.root /\ Nodes(t1) = Nodes(t)
      /\ \A m \in Nodes(t) :
           /\ Key(t1, m) = Key(t, m)
           /\ Parent(t1, m) = IF m = kid THEN Parent(t, v) ELSE Parent(t, m)
           /\ \A s \in Sides : Kid(t1, m, s) = Kid(t, m, s)
  <2>1. CASE kid = NULL
    BY <1>4, <2>1, FieldTypes
  <2>2. CASE kid # NULL
    <3> DEFINE w == WithParent(t.node[kid], Parent(t, v))
    <3>1. /\ t1.node = [t.node EXCEPT ![kid] = w] /\ t1.root = t.root
          /\ t1.alive = t.alive /\ t1.tree_size = t.tree_size
          /\ t1 = [alive |-> t1.alive, root |-> t1.root, tree_size |-> t1.tree_size, node |-> t1.node]
      BY <1>4, <2>2 DEF IsTreeRecord, WithParent, Parent
    <3>2. /\ w \in NodeType /\ w.key = t.node[kid].key /\ w.parent = Parent(t, v)
          /\ w["left_kid"] = t.node[kid]["left_kid"] /\ w["right_kid"] = t.node[kid]["right_kid"]
      <4>1. t.node[kid] \in NodeType /\ Parent(t, v) \in Cells \cup {NULL}
        BY <1>2, <1>4, <2>2 DEF IsTreeRecord, Nodes
      <4> QED BY <4>1, WithParentFields
    <3> HIDE DEF t1, w
    <3>3. DOMAIN t1.node = DOMAIN t.node /\ t1.node \in [DOMAIN t1.node -> NodeType]
      BY <1>4, <3>1, <3>2 DEF IsTreeRecord
    <3>4. \A m \in Nodes(t) : t1.node[m] = IF m = kid THEN w ELSE t.node[m]
      BY <3>1 DEF Nodes
    <3>5. ASSUME NEW m \in Nodes(t)
          PROVE  /\ Key(t1, m) = Key(t, m)
                 /\ Parent(t1, m) = IF m = kid THEN Parent(t, v) ELSE Parent(t, m)
                 /\ \A s \in Sides : Kid(t1, m, s) = Kid(t, m, s)
      BY <3>2, <3>4 DEF Key, Parent, Kid, Sides
    <3> QED BY <3>1, <3>3, <3>5 DEF IsTreeRecord, Nodes
  <2> QED BY <2>1, <2>2
<1> HIDE DEF t1
<1>6. link \in Links(t1) /\ kid \in Cells \cup {NULL}
  BY <1>2, <1>3, <1>4, <1>5 DEF Links, Nodes
<1>7. /\ IsTreeRecord(t2)
      /\ t2.alive = t1.alive /\ t2.tree_size = t1.tree_size /\ Nodes(t2) = Nodes(t1)
      /\ t2.root = IF link = RootLink THEN kid ELSE t1.root
      /\ \A m \in Nodes(t1) : Key(t2, m) = Key(t1, m) /\ Parent(t2, m) = Parent(t1, m)
      /\ \A m \in Nodes(t1), s \in Sides : Kid(t2, m, s) = IF <<m, s>> = link THEN kid ELSE Kid(t1, m, s)
  BY <1>5, <1>6, StoreFields
<1> HIDE DEF t2
<1>8. link = RootLink <=> t.root = v
  BY <1>3, LinkFacts
<1>9. \A m \in Nodes(t), s \in Sides : <<m, s>> = link <=> Kid(t, m, s) = v
  BY <1>3, KidLink
<1>10. /\ u.alive = t2.alive /\ u.root = t2.root /\ u.tree_size = t2.tree_size - 1
       /\ u.node = Without(t2.node, v)
       /\ u = [alive |-> u.alive, root |-> u.root, tree_size |-> u.tree_size, node |-> u.node]
  <2> DEFINE w == [t2 EXCEPT !.node = Without(@, v)]
             size == t2.tree_size - 1
  <2>1. t2 = [alive |-> t2.alive, root |-> t2.root, tree_size |-> t2.tree_size, node |-> t2.node]
    BY <1>7 DEF IsTreeRecord
  <2>2. w = [alive |-> t2.alive, root |-> t2.root, tree_size |-> t2.tree_size, node |-> Without(t2.node, v)]
    BY <2>1
  <2>3. u = [w EXCEPT !.tree_size = size]
    BY <2>1
  <2> HIDE DEF u, w, size
  <2>4. u = [alive |-> t2.alive, root |-> t2.root, tree_size |-> size, node |-> Without(t2.node, v)]
    BY <2>2, <2>3
  <2> QED BY <2>4 DEF size
<1> HIDE DEF u
<1>11. Nodes(u) = Nodes(t) \ {v} /\ (\A m \in Nodes(u) : u.node[m] = t2.node[m])
       /\ u.node \in [DOMAIN u.node -> NodeType]
  BY <1>5, <1>7, <1>10 DEF Without, Nodes, IsTreeRecord
<1>12. Unlinking(t, u, v, kid)
  <2>1. ASSUME NEW m \in Nodes(u)
        PROVE  /\ Key(u, m) = Key(t, m)
               /\ Parent(u, m) = IF m = kid THEN Parent(t, v) ELSE Parent(t, m)
               /\ \A s \in Sides : Kid(u, m, s) = IF Kid(t, m, s) = v THEN kid ELSE Kid(t, m, s)
    <3>1. m \in Nodes(t) /\ u.node[m] = t2.node[m]
      BY <1>11
    <3>2. Key(u, m) = Key(t2, m) /\ Parent(u, m) = Parent(t2, m) /\ \A s \in Sides : Kid(u, m, s) = Kid(t2, m, s)
      BY <3>1 DEF Key, Parent, Kid
    <3> QED BY <1>5, <1>7, <1>9, <3>1, <3>2
  <2> QED BY <1>5, <1>7, <1>8, <1>10, <1>11, <2>1 DEF Unlinking
<1>13. IsFiniteSet(Nodes(u)) /\ u.tree_size = Cardinality(Nodes(u))
  <2>1. IsFiniteSet(Nodes(t)) /\ t.tree_size = Cardinality(Nodes(t))
    BY DEF IsTree, Nodes
  <2>2. IsFiniteSet(Nodes(t) \ {v}) /\ Cardinality(Nodes(t) \ {v}) = Cardinality(Nodes(t)) - 1
    BY <2>1, FS_RemoveElement
  <2> QED BY <1>5, <1>7, <1>10, <1>11, <2>1, <2>2
<1>14. IsTree(u)
  <2>1. u.alive \in BOOLEAN
    BY <1>5, <1>7, <1>10 DEF IsTree
  <2> QED BY <1>4, <1>10, <1>11, <1>13, <2>1 DEF IsTree, Nodes
<1> QED BY <1>1, <1>12, <1>14 DEF kid

(* Unlinking keeps the tree linked and in order: the nodes below v that    *)
(* had it as a bound get the bound that v has on that side.                *)
LEMMA UnlinkingKeeps ==
  ASSUME NEW t, IsTree(t), Linked(t), NEW bound, InOrder(t, bound), NEW v \in Nodes(t),
         NEW side \in Sides, NEW kid, kid = Kid(t, v, side), Kid(t, v, Other(side)) = NULL,
         NEW u, Unlinking(t, u, v, kid)
  PROVE  Linked(u) /\ \E b : InOrder(u, b)
<1> DEFINE N == Nodes(t)
           M == Nodes(u)
           b == [m \in M |-> [s \in Sides |->
                   IF bound[m][s] = v THEN bound[v][s] ELSE bound[m][s]]]
<1>1. /\ v # NULL /\ v \notin {kid, Parent(t, v)} /\ kid \in N \cup {NULL}
      /\ kid # NULL => Parent(t, kid) = v /\ kid # Parent(t, v)
      /\ Parent(t, v) \in N \cup {NULL}
  BY OnlyKidFacts
<1>2. /\ M = N \ {v} /\ u.root = IF t.root = v THEN kid ELSE t.root
      /\ \A m \in M :
           /\ Key(u, m) = Key(t, m)
           /\ Parent(u, m) = IF m = kid THEN Parent(t, v) ELSE Parent(t, m)
           /\ \A s \in Sides : Kid(u, m, s) = IF Kid(t, m, s) = v THEN kid ELSE Kid(t, m, s)
  BY DEF Unlinking
<1>3. \A m \in N : m # NULL /\ Key(t, m) \in Int
  BY FieldTypes
<1>4. /\ t.root \in N \cup {NULL}
      /\ \A m \in N : Parent(t, m) \in N \cup {NULL}
      /\ \A m \in N : Parent(t, m) = NULL <=> m = t.root
  BY DEF Linked
<1>5. \A m \in N, s \in Sides :
        Kid(t, m, s) # NULL => /\ Kid(t, m, s) \in N
                               /\ Parent(t, Kid(t, m, s)) = m
                               /\ Kid(t, m, s) # Kid(t, m, Other(s))
                               /\ bound[Kid(t, m, s)][s] = bound[m][s]
                               /\ bound[Kid(t, m, s)][Other(s)] = m
  BY DEF Linked, InOrder, Bounds
<1>6. \A m \in N : Parent(t, m) # NULL => \E s \in Sides : Kid(t, Parent(t, m), s) = m
  BY DEF Linked
<1>7. \A S \in SUBSET N : S # {} => \E m \in S : Parent(t, m) \notin S
  BY DEF Linked
<1>8. /\ bound \in [N -> [Sides -> N \cup {NULL}]]
      /\ t.root # NULL => \A s \in Sides : bound[t.root][s] = NULL
      /\ \A m \in N, s \in Sides : bound[m][s] # NULL => Toward(s, Key(t, bound[m][s]), Key(t, m))
  BY DEF InOrder, Bounds, Within
<1>9. \A s \in Sides : Other(s) \in Sides /\ Other(s) # s /\ Other(Other(s)) = s
                       /\ \A o \in Sides : o = s \/ o = Other(s)
  BY SideFacts
<1>10. \A m \in M, s \in Sides : b[m][s] = IF bound[m][s] = v THEN bound[v][s] ELSE bound[m][s]
  OBVIOUS
<1>11. \A m \in N : Parent(t, m) = v => m = kid
  <2> SUFFICES ASSUME NEW m \in N, Parent(t, m) = v PROVE m = kid
    OBVIOUS
  <2>1. PICK s \in Sides : Kid(t, v, s) = m
    BY <1>1, <1>6
  <2> QED BY <1>3, <1>9, <2>1
<1>12. \A m \in N, s \in Sides : bound[m][s] # m
  <2> SUFFICES ASSUME NEW m \in N, NEW s \in Sides, bound[m][s] = m PROVE FALSE
    OBVIOUS
  <2>1. Toward(s, Key(t, m), Key(t, m))
    BY <1>3, <1>8
  <2> QED BY <1>3, <2>1, TowardOrder
<1>13. b \in [M -> [Sides -> M \cup {NULL}]]
  <2>1. ASSUME NEW m \in M, NEW s \in Sides
        PROVE  (IF bound[m][s] = v THEN bound[v][s] ELSE bound[m][s]) \in M \cup {NULL}
    BY <1>2, <1>8, <1>12
  <2> QED BY <2>1
<1> HIDE DEF N, M, b
<1>14. Linked(u)
  <2>1. u.root \in M \cup {NULL} /\ \A m \in M : Parent(u, m) \in M \cup {NULL}
    BY <1>1, <1>2, <1>4, <1>11
  <2>2. \A m \in M : Parent(u, m) = NULL <=> m = u.root
    BY <1>1, <1>2, <1>3, <1>4
  <2>3. ASSUME NEW m \in M, NEW s \in Sides, Kid(u, m, s) # NULL
        PROVE  /\ Kid(u, m, s) \in M /\ Parent(u, Kid(u, m, s)) = m
               /\ Kid(u, m, s) # Kid(u, m, Other(s))
    <3>1. m \in N /\ m # v /\ Other(s) \in Sides
      BY <1>2, <1>9
    <3>2. \A o \in Sides : Kid(t, m, o) = kid => kid = NULL
      BY <1>1, <1>5, <3>1
    <3>3. CASE Kid(t, m, s) = v
      <4>1. kid \in M /\ Parent(t, v) = m /\ Kid(t, m, Other(s)) # v
        BY <1>1, <1>2, <1>5, <2>3, <3>1, <3>3
      <4> QED BY <1>2, <2>3, <3>1, <3>2, <3>3, <4>1
    <3>4. CASE Kid(t, m, s) # v
      <4>1. Kid(u, m, s) = Kid(t, m, s) /\ Kid(t, m, s) \in M /\ Kid(t, m, s) # kid
        BY <1>2, <1>5, <2>3, <3>1, <3>2, <3>4
      <4>2. Parent(u, Kid(u, m, s)) = m
        BY <1>2, <1>3, <1>5, <3>1, <4>1
      <4>3. Kid(t, m, s) # Kid(t, m, Other(s))
        BY <1>2, <1>3, <1>5, <3>1, <4>1
      <4> QED BY <1>2, <3>1, <4>1, <4>2, <4>3
    <3> QED BY <3>3, <3>4
  <2>4. ASSUME NEW m \in M, Parent(u, m) # NULL
        PROVE  \E s \in Sides : Kid(u, Parent(u, m), s) = m
    <3>1. CASE m = kid
      <4>1. PICK s \in Sides : Kid(t, Parent(t, v), s) = v
        BY <1>2, <1>6, <2>4, <3>1 DEF N
      <4>2. Parent(u, m) = Parent(t, v) /\ Parent(t, v) \in M
        BY <1>2, <2>1, <2>4, <3>1
      <4>3. Kid(u, Parent(t, v), s) = kid
        BY <1>2, <4>1, <4>2
      <4> QED BY <3>1, <4>2, <4>3
    <3>2. CASE m # kid
      <4>1. PICK s \in Sides : Kid(t, Parent(t, m), s) = m
        BY <1>2, <1>6, <2>4, <3>2
      <4> QED BY <1>2, <2>1, <2>4, <3>2, <4>1
    <3> QED BY <3>1, <3>2
  <2>5. ASSUME NEW S \in SUBSET M, S # {}, \A m \in S : Parent(u, m) \in S
        PROVE  FALSE
    <3>1. CASE kid \in S
      <4>1. S \cup {v} \in SUBSET N /\ S \cup {v} # {}
        BY <1>2 DEF N
      <4>2. \A m \in S \cup {v} : Parent(t, m) \in S \cup {v}
        BY <1>1, <1>2, <1>3, <2>5, <3>1 DEF N
      <4> QED BY <1>7, <4>1, <4>2
    <3>2. CASE kid \notin S
      <4>1. S \in SUBSET N /\ \A m \in S : Parent(t, m) \in S
        BY <1>2, <2>5, <3>2
      <4> QED BY <1>7, <2>5, <4>1
    <3> QED BY <3>1, <3>2
  <2>6. \A S \in SUBSET M : S # {} => \E m \in S : Parent(u, m) \notin S
    BY <2>5
  <2> QED BY <2>1, <2>2, <2>3, <2>4, <2>6 DEF Linked, M
<1>15. ASSUME kid # NULL, NEW s \in Sides PROVE b[kid][s] = bound[v][s]
  <2>1. kid \in M /\ kid \in N /\ v \in N
    BY <1>1, <1>2, <1>15 DEF N
  <2>2. bound[kid][side] = bound[v][side] /\ bound[kid][Other(side)] = v
    BY <1>5, <1>15, <2>1
  <2>3. s = side \/ s = Other(side)
    BY <1>9
  <2> QED BY <1>10, <2>1, <2>2, <2>3
<1>16. ASSUME u.root # NULL, NEW s \in Sides PROVE b[u.root][s] = NULL
  <2>1. CASE t.root = v
    BY <1>1, <1>2, <1>8, <1>15, <1>16, <2>1
  <2>2. CASE t.root # v
    <3>1. u.root \in M /\ bound[u.root][s] = NULL
      BY <1>2, <1>4, <1>8, <1>16, <2>2
    <3> QED BY <1>1, <1>10, <3>1
  <2> QED BY <2>1, <2>2
<1>17. ASSUME NEW m \in M, NEW s \in Sides, Kid(u, m, s) # NULL
       PROVE  b[Kid(u, m, s)][s] = b[m][s] /\ b[Kid(u, m, s)][Other(s)] = m
  <2>1. m \in N /\ m # v /\ Other(s) \in Sides
    BY <1>2, <1>9
  <2>2. CASE Kid(t, m, s) = v
    <3>1. Kid(u, m, s) = kid /\ kid # NULL
      BY <1>2, <1>17, <2>2
    <3>2. bound[v][s] = bound[m][s] /\ bound[v][Other(s)] = m
      BY <1>1, <1>5, <2>1, <2>2
    <3>3. bound[m][s] # v
      BY <1>12, <3>2 DEF N
    <3> QED BY <1>10, <1>15, <2>1, <3>1, <3>2, <3>3
  <2>3. CASE Kid(t, m, s) # v
    <3>1. Kid(u, m, s) = Kid(t, m, s) /\ Kid(t, m, s) # NULL
      BY <1>2, <1>17, <2>1, <2>3
    <3>2. Kid(t, m, s) \in M /\ bound[Kid(t, m, s)][s] = bound[m][s] /\ bound[Kid(t, m, s)][Other(s)] = m
      BY <1>2, <1>5, <2>1, <2>3, <3>1
    <3> QED BY <1>10, <2>1, <3>1, <3>2
  <2> QED BY <2>2, <2>3
<1>18. ASSUME NEW m \in M, NEW s \in Sides, b[m][s] # NULL
       PROVE  Toward(s, Key(u, b[m][s]), Key(u, m))
  <2>1. m \in N /\ m # v /\ b[m][s] \in M
    BY <1>2, <1>13, <1>18
  <2>2. SUFFICES Toward(s, Key(t, b[m][s]), Key(t, m))
    BY <1>2, <2>1
  <2>3. CASE bound[m][s] = v
    <3>1. b[m][s] = bound[v][s] /\ b[m][s] \in N /\ v \in N
      BY <1>2, <1>10, <2>1, <2>3 DEF N
    <3>2. Toward(s, Key(t, b[m][s]), Key(t, v))
      BY <1>8, <1>18, <3>1
    <3>3. Toward(s, Key(t, v), Key(t, m))
      BY <1>1, <1>8, <2>1, <2>3
    <3>4. Key(t, b[m][s]) \in Int /\ Key(t, v) \in Int /\ Key(t, m) \in Int
      BY <1>3, <2>1, <3>1
    <3> QED BY <3>2, <3>3, <3>4, TowardOrder
  <2>4. CASE bound[m][s] # v
    BY <1>8, <1>10, <1>18, <2>1, <2>4
  <2> QED BY <2>3, <2>4
<1>19. InOrder(u, b)
  BY <1>13, <1>16, <1>17, <1>18 DEF InOrder, Bounds, Within, M
<1> QED BY <1>14, <1>19

(* In the tree u the key of the node n of t has been replaced.             *)
Rekeying(t, u, n, k) ==
  /\ Nodes(u) = Nodes(t) /\ u.root = t.root /\ u.alive = t.alive
  /\ \A m \in Nodes(t) :
       /\ Key(u, m) = IF m = n THEN k ELSE Key(t, m)
       /\ Parent(u, m) = Parent(t, m)
       /\ \A s \in Sides : Kid(u, m, s) = Kid(t, m, s)

(* What erase stores in a node with two kids.                              *)
LEMMA RekeyStores ==
  ASSUME NEW t, IsTree(t), NEW n \in Nodes(t), NEW k \in Keys
  PROVE  LET u == [t EXCEPT !.node[n].key = k]
         IN  IsTree(u) /\ Rekeying(t, u, n, k)
<1> DEFINE u == [t EXCEPT !.node[n].key = k]
           w == [t.node[n] EXCEPT !.key = k]
<1>1. t.node[n] \in NodeType
  BY DEF IsTree, Nodes
<1>2. /\ w \in NodeType /\ w.key = k /\ w.parent = t.node[n].parent
      /\ w["left_kid"] = t.node[n]["left_kid"] /\ w["right_kid"] = t.node[n]["right_kid"]
  BY <1>1 DEF NodeType
<1>3. /\ u.node = [t.node EXCEPT ![n] = w]
      /\ u.root = t.root /\ u.alive = t.alive /\ u.tree_size = t.tree_size
      /\ u = [alive |-> u.alive, root |-> u.root, tree_size |-> u.tree_size, node |-> u.node]
  BY DEF IsTree
<1> HIDE DEF u, w
<1>4. DOMAIN u.node = DOMAIN t.node /\ u.node \in [DOMAIN u.node -> NodeType]
  BY <1>2, <1>3 DEF IsTree
<1>5. IsTree(u)
  BY <1>3, <1>4 DEF IsTree
<1>6. \A m \in Nodes(t) : u.node[m] = IF m = n THEN w ELSE t.node[m]
  BY <1>3 DEF Nodes
<1>7. Rekeying(t, u, n, k)
  BY <1>2, <1>3, <1>4, <1>6 DEF Rekeying, Nodes, Key, Parent, Kid, Sides
<1> QED BY <1>5, <1>7 DEF u

(* A new key that compares like the old one keeps the tree in order.       *)
LEMMA RekeyingKeeps ==
  ASSUME NEW t, IsTree(t), Linked(t), NEW bound, InOrder(t, bound), NEW n \in Nodes(t), NEW k \in Int,
         \A m \in Nodes(t) \ {n}, s \in Sides : Toward(s, Key(t, n), Key(t, m)) <=> Toward(s, k, Key(t, m)),
         NEW u, Rekeying(t, u, n, k)
  PROVE  Linked(u) /\ InOrder(u, bound)
<1>1. /\ Nodes(u) = Nodes(t) /\ u.root = t.root
      /\ \A m \in Nodes(t) : Parent(u, m) = Parent(t, m) /\ \A s \in Sides : Kid(u, m, s) = Kid(t, m, s)
  BY DEF Rekeying
<1>2. Linked(u)
  <2>1. u.root \in Nodes(u) \cup {NULL} /\ \A m \in Nodes(u) : Parent(u, m) \in Nodes(u) \cup {NULL}
    BY <1>1 DEF Linked
  <2>2. \A m \in Nodes(u) : Parent(u, m) = NULL <=> m = u.root
    BY <1>1 DEF Linked
  <2>3. \A m \in Nodes(u), s \in Sides :
          Kid(u, m, s) # NULL => /\ Kid(u, m, s) \in Nodes(u)
                                 /\ Parent(u, Kid(u, m, s)) = m
                                 /\ Kid(u, m, s) # Kid(u, m, Other(s))
    BY <1>1, SideFacts DEF Linked
  <2>4. \A m \in Nodes(u) : Parent(u, m) # NULL => \E s \in Sides : Kid(u, Parent(u, m), s) = m
    BY <1>1 DEF Linked
  <2>5. \A S \in SUBSET Nodes(u) : S # {} => \E m \in S : Parent(u, m) \notin S
    BY <1>1 DEF Linked
  <2> QED BY <2>1, <2>2, <2>3, <2>4, <2>5 DEF Linked
<1>3. Bounds(u, bound)
  BY <1>1 DEF InOrder, Bounds
<1>4. ASSUME NEW m \in Nodes(t), NEW s \in Sides, bound[m][s] # NULL
      PROVE  Toward(s, Key(u, bound[m][s]), Key(u, m))
  <2> DEFINE q == bound[m][s]
  <2>1. q \in Nodes(t) /\ Toward(s, Key(t, q), Key(t, m)) /\ Key(t, q) \in Int /\ Key(t, m) \in Int
    BY <1>4, FieldTypes DEF InOrder, Bounds, Within
  <2>2. Key(u, q) = IF q = n THEN k ELSE Key(t, q)
    BY <2>1 DEF Rekeying
  <2>3. Key(u, m) = IF m = n THEN k ELSE Key(t, m)
    BY DEF Rekeying
  <2>4. Other(s) \in Sides
    BY SideFacts
  <2> HIDE DEF q
  <2>5. CASE m = n
    <3>1. q # n
      BY <2>1, <2>5, TowardOrder
    <3>2. Toward(Other(s), Key(t, n), Key(t, q))
      BY <2>1, <2>5, TowardOrder
    <3>3. Toward(Other(s), k, Key(t, q))
      BY <2>1, <2>4, <3>1, <3>2
    <3>4. Toward(s, Key(t, q), k)
      BY <2>1, <3>3, TowardOrder
    <3>5. Toward(s, Key(u, q), Key(u, m))
      BY <2>2, <2>3, <2>5, <3>1, <3>4
    <3> QED BY <3>5 DEF q
  <2>6. CASE m # n
    <3>1. Toward(s, Key(u, q), Key(u, m))
      BY <2>1, <2>2, <2>3, <2>6
    <3> QED BY <3>1 DEF q
  <2> QED BY <2>5, <2>6
<1> QED BY <1>1, <1>2, <1>3, <1>4 DEF InOrder, Within

-----------------------------------------------------------------------------
(* Erasing.                                                                *)

(* In the tree u the key of the node n of t is gone, and so is the node v, *)
(* which is n itself or holds the next key.                                *)
Erased(t, u, n, v) ==
  /\ v \in Nodes(t) /\ Nodes(u) = Nodes(t) \ {v} /\ u.alive = t.alive
  /\ \A m \in Nodes(u) : Key(u, m) = IF m = n THEN Key(t, v) ELSE Key(t, m)
  /\ v # n => /\ Key(t, n) < Key(t, v)
              /\ \A m \in Nodes(t) : Key(t, n) < Key(t, m) /\ m # v => Key(t, v) < Key(t, m)

(* Erasing a key keeps the tree linked and in order.                       *)
LEMMA EraseKeeps ==
  ASSUME NEW t, IsTree(t), Linked(t), NEW bound, InOrder(t, bound), NEW n \in Nodes(t),
         NEW v, v = IF t.node[n].left_kid # NULL /\ t.node[n].right_kid # NULL
                    THEN iterator_next(t, n) ELSE n
  PROVE  LET t1 == unlink(t, v)
             u == IF v = n THEN t1 ELSE [t1 EXCEPT !.node[n].key = t.node[v].key]
         IN  /\ IsTree(u) /\ Linked(u) /\ \E b : InOrder(u, b)
             /\ Erased(t, u, n, v) /\ only_kid(t, v) \in Nodes(u) \cup {NULL}
<1> DEFINE t1 == unlink(t, v)
           u == IF v = n THEN t1 ELSE [t1 EXCEPT !.node[n].key = t.node[v].key]
           both == Kid(t, n, "left_kid") # NULL /\ Kid(t, n, "right_kid") # NULL
<1>1. \A m \in Nodes(t) : Key(t, m) \in Int /\ Key(t, m) \in Keys /\ m # NULL
  BY FieldTypes
<1>2. v = IF both THEN iterator_next(t, n) ELSE n
  BY FieldTypes
<1>3. both => /\ v \in Nodes(t) /\ Kid(t, v, "left_kid") = NULL
              /\ Toward("right_kid", Key(t, v), Key(t, n))
              /\ \A m \in Nodes(t) : Toward("right_kid", Key(t, m), Key(t, n)) /\ m # v =>
                   Toward("right_kid", Key(t, m), Key(t, v))
  <2> SUFFICES ASSUME both
               PROVE  /\ v \in Nodes(t) /\ Kid(t, v, "left_kid") = NULL
                      /\ Toward("right_kid", Key(t, v), Key(t, n))
                      /\ \A m \in Nodes(t) : Toward("right_kid", Key(t, m), Key(t, n)) /\ m # v =>
                           Toward("right_kid", Key(t, m), Key(t, v))
    OBVIOUS
  <2>1. "right_kid" \in Sides /\ Other("right_kid") = "left_kid"
    BY SideFacts
  <2>2. v = iterator_step(t, n, "right_kid", Other("right_kid"))
    BY <1>2, <2>1 DEF iterator_next
  <2>3. Kid(t, n, "right_kid") # NULL
    OBVIOUS
  <2> HIDE DEF both
  <2> QED BY <2>1, <2>2, <2>3, IteratorStepExact
<1>4. v \in Nodes(t) /\ \E o \in Sides : Kid(t, v, o) = NULL
  <2>1. CASE both
    BY <1>3, <2>1, SideFacts
  <2>2. CASE ~both
    BY <1>2, <2>2, SideFacts
  <2> QED BY <2>1, <2>2
<1>5. PICK side \in Sides : Kid(t, v, side) = only_kid(t, v) /\ Kid(t, v, Other(side)) = NULL
  BY <1>4, OnlyKid
<1>6. IsTree(t1) /\ Unlinking(t, t1, v, only_kid(t, v))
  BY <1>4, <1>5, UnlinkStores
<1> HIDE DEF t1, both
<1>7. Linked(t1) /\ \E b : InOrder(t1, b)
  BY <1>4, <1>5, <1>6, UnlinkingKeeps
<1>8. Nodes(t1) = Nodes(t) \ {v} /\ t1.alive = t.alive /\ \A m \in Nodes(t1) : Key(t1, m) = Key(t, m)
  BY <1>6 DEF Unlinking
<1>9. only_kid(t, v) \in Nodes(t1) \cup {NULL}
  BY <1>4, <1>5, <1>8, OnlyKidFacts
<1>10. CASE v = n
  <2>1. u = t1
    BY <1>10
  <2>2. Erased(t, t1, n, v)
    BY <1>4, <1>8, <1>10 DEF Erased
  <2> QED BY <1>6, <1>7, <1>9, <2>1, <2>2 DEF t1
<1>11. CASE v # n
  <2>1. /\ Key(t, n) < Key(t, v)
        /\ \A m \in Nodes(t) : Key(t, n) < Key(t, m) /\ m # v => Key(t, v) < Key(t, m)
    BY <1>2, <1>3, <1>11 DEF Toward
  <2>2. n \in Nodes(t1) /\ Key(t, v) \in Keys /\ Key(t, v) \in Int
    BY <1>1, <1>4, <1>8, <1>11
  <2>3. u = [t1 EXCEPT !.node[n].key = Key(t, v)]
    BY <1>11 DEF Key
  <2> HIDE DEF u
  <2>4. IsTree(u) /\ Rekeying(t1, u, n, Key(t, v))
    BY <1>6, <2>2, <2>3, RekeyStores
  <2>5. ASSUME NEW m \in Nodes(t1) \ {n}, NEW s \in Sides
        PROVE  Toward(s, Key(t1, n), Key(t1, m)) <=> Toward(s, Key(t, v), Key(t1, m))
    <3>1. m \in Nodes(t) /\ m # v /\ Key(t1, m) = Key(t, m) /\ Key(t1, n) = Key(t, n)
      BY <1>8, <2>2
    <3>2. Key(t, m) # Key(t, n)
      BY <2>5, <3>1, UniqueKeys
    <3>3. Key(t, n) < Key(t, m) <=> Key(t, v) < Key(t, m)
      BY <1>1, <1>4, <2>1, <3>1
    <3>4. Key(t, m) < Key(t, n) <=> Key(t, m) < Key(t, v)
      BY <1>1, <1>4, <2>1, <3>1, <3>2
    <3> QED BY <3>1, <3>3, <3>4 DEF Toward
  <2>6. PICK b : InOrder(t1, b)
    BY <1>7
  <2>7. Linked(u) /\ InOrder(u, b)
    BY <1>6, <1>7, <2>2, <2>4, <2>5, <2>6, RekeyingKeeps
  <2>8. Nodes(u) = Nodes(t) \ {v} /\ u.alive = t.alive
        /\ \A m \in Nodes(u) : Key(u, m) = IF m = n THEN Key(t, v) ELSE Key(t, m)
    BY <1>8, <2>4 DEF Rekeying
  <2>9. Erased(t, u, n, v)
    BY <1>4, <2>1, <2>8 DEF Erased
  <2> QED BY <1>8, <1>9, <2>4, <2>7, <2>8, <2>9 DEF u, t1
<1> QED BY <1>10, <1>11

-----------------------------------------------------------------------------
(* The invariant.                                                          *)

(* The tree is one tree in order, and a freed one has no nodes.            *)
TreeInOrder(t) ==
  /\ IsTree(t) /\ Linked(t) /\ \E b : InOrder(t, b)
  /\ ~t.alive => Nodes(t) = {}

CallTyped ==
  call \in [op : Calls \cup {"none", "new"}, key : Keys \cup {NULL},
            answer : {"none", "already_exists", "failed", "inserted"},
            node : Nodes(tree) \cup {NULL}]

TreeInv == TreeInOrder(tree) /\ CallTyped /\ crashed \in BOOLEAN /\ tilted \in BOOLEAN

(* The tree without nodes is in order.                                     *)
LEMMA EmptyTree ==
  ASSUME NEW a \in BOOLEAN, NEW f, f \in [{} -> NodeType]
  PROVE  TreeInOrder([alive |-> a, root |-> NULL, tree_size |-> 0, node |-> f])
<1> DEFINE t == [alive |-> a, root |-> NULL, tree_size |-> 0, node |-> f]
<1>1. t.alive = a /\ t.root = NULL /\ t.tree_size = 0 /\ t.node = f
      /\ t = [alive |-> t.alive, root |-> t.root, tree_size |-> t.tree_size, node |-> t.node]
  OBVIOUS
<1> HIDE DEF t
<1>2. Nodes(t) = {} /\ t.node \in [DOMAIN t.node -> NodeType]
  BY <1>1 DEF Nodes
<1>3. IsTree(t)
  BY <1>1, <1>2, FS_EmptySet DEF IsTree, Nodes
<1>4. Linked(t)
  BY <1>1, <1>2 DEF Linked
<1>5. InOrder(t, [n \in {} |-> [s \in Sides |-> NULL]])
  BY <1>1, <1>2 DEF InOrder, Bounds
<1> QED BY <1>2, <1>3, <1>4, <1>5 DEF TreeInOrder, t

(* _internal_free reaches every node from the root.                        *)
LEMMA AllDescend ==
  ASSUME NEW t, IsTree(t), Linked(t)
  PROVE  Descendants(t, t.root) = Nodes(t)
<1> SUFFICES ASSUME NEW S \in SUBSET Nodes(t), {t.root} \ {NULL} \subseteq S,
                    \A p \in S : KidsOf(t, p) \subseteq S, Nodes(t) \ S # {}
             PROVE  FALSE
  BY DEF Descendants, Nodes
<1>1. PICK m \in Nodes(t) \ S : Parent(t, m) \notin Nodes(t) \ S
  BY DEF Linked
<1>2. m # NULL /\ Parent(t, m) # NULL
  BY FieldTypes DEF Linked
<1>3. Parent(t, m) \in S /\ \E s \in Sides : Kid(t, Parent(t, m), s) = m
  BY <1>1, <1>2 DEF Linked
<1>4. m \in KidsOf(t, Parent(t, m))
  BY <1>2, <1>3, FieldTypes DEF KidsOf, Sides
<1> QED BY <1>1, <1>3, <1>4

(* So it frees every node.                                                 *)
LEMMA InternalFreeEmpties ==
  ASSUME NEW t, IsTree(t), Linked(t)
  PROVE  internal_free(t) \in [{} -> NodeType]
BY AllDescend DEF internal_free, Nodes

(* The invariant holds initially.                                          *)
LEMMA InitInv == Init => TreeInv
<1> SUFFICES ASSUME Init PROVE TreeInv
  OBVIOUS
<1>1. EmptyFn \in [{} -> NodeType]
  BY DEF EmptyFn
<1>2. TreeInOrder(tree)
  BY <1>1, EmptyTree DEF Init, NoTree
<1>3. CallTyped
  BY DEF Init, Call, CallTyped
<1> QED BY <1>2, <1>3 DEF TreeInv, Init

(* What a call that ends at once leaves.                                   *)
LEMMA CallAtOnce ==
  ASSUME NEW op \in Calls \cup {"none", "new"}, NEW key \in Keys \cup {NULL},
         NEW answer \in {"none", "already_exists", "failed", "inserted"},
         NEW n \in Nodes(tree)' \cup {NULL}, call' = Call(op, key, answer, n)
  PROVE  CallTyped'
BY DEF Call, CallTyped

(* new makes a tree without nodes.                                         *)
LEMMA NewKeepsInv == TreeInv /\ new => TreeInv' /\ Nodes(tree') = {}
<1> SUFFICES ASSUME TreeInv, new PROVE TreeInv' /\ Nodes(tree') = {}
  OBVIOUS
<1>1. /\ tree = [alive |-> tree.alive, root |-> tree.root, tree_size |-> tree.tree_size, node |-> tree.node]
      /\ Nodes(tree) = {} /\ tree.node \in [DOMAIN tree.node -> NodeType]
      /\ tree.tree_size = Cardinality(Nodes(tree)) /\ tree.root \in Nodes(tree) \cup {NULL}
  BY DEF TreeInv, TreeInOrder, IsTree, Linked, new, Nodes
<1>2. tree.tree_size = 0
  BY <1>1, FS_EmptySet
<1>3. tree' = [alive |-> TRUE, root |-> NULL, tree_size |-> 0, node |-> tree.node]
  BY <1>1, <1>2 DEF new
<1>4. TreeInOrder(tree') /\ Nodes(tree') = {}
  BY <1>1, <1>3, EmptyTree DEF Nodes
<1>5. CallTyped'
  BY CallAtOnce DEF new
<1> QED BY <1>4, <1>5 DEF TreeInv, new

(* Everything after insert_new follows from the place that was found.      *)
LEMMA InsertNewKeepsInv ==
  ASSUME TreeInv, NEW key \in Keys, insert_new(key)
  PROVE  /\ TreeInv' /\ tree'.alive /\ call'.op = "insert" /\ call'.key = key
         /\ call'.answer = "inserted"
         /\ \E n \in Cells \ Nodes(tree) :
              /\ Nodes(tree') = Nodes(tree) \cup {n} /\ Key(tree', n) = key
              /\ \A m \in Nodes(tree) : Key(tree', m) = Key(tree, m)
              /\ tree'.node[n].subtree_height = 1
              /\ \A m \in Nodes(tree) : tree'.node[m].subtree_height = tree.node[m].subtree_height
              /\ \E link \in Links(tree) :
                   /\ Insertion(tree, tree', link, n, key) /\ call'.node = link[1]
                   /\ Deref(tree, link) = NULL
<1>1. IsTree(tree) /\ Linked(tree) /\ key \in Int /\ tree.alive
  BY AvlTreeAssumption DEF TreeInv, TreeInOrder, insert_new, Callable
<1>2. PICK bound : InOrder(tree, bound)
  BY DEF TreeInv, TreeInOrder
<1>3. \A q \in Nodes(tree) : Key(tree, q) # key
  <2> SUFFICES ASSUME NEW q \in Nodes(tree), Key(tree, q) = key PROVE FALSE
    OBVIOUS
  <2>1. find(tree, key) = q
    BY <1>1, <1>2, FindStored
  <2> QED BY <1>1, <2>1, FieldTypes DEF insert_new
<1> DEFINE link == internal_find(tree, key)
<1>4. PlaceFor(tree, bound, key, link)
  BY <1>1, <1>2, <1>3, FindMissing
<1>5. link \in Links(tree) /\ link[1] \in Nodes(tree) \cup {NULL}
  BY <1>4 DEF PlaceFor, Links, Nodes, Sides, RootLink
<1>6. PICK n \in FreshCells(DOMAIN tree.node, key) :
        LET cells == [m \in DOMAIN tree.node \cup {n} |->
                        IF m = n THEN new_node(link[1], key) ELSE tree.node[m]]
        IN  /\ tree' = Store([tree EXCEPT !.node = cells, !.tree_size = @ + 1], link, n)
            /\ call' = Call("insert", key, "inserted", link[1])
  BY DEF insert_new
<1>7. n \in Cells \ Nodes(tree)
  BY <1>1, AvlTreeAssumption DEF IsTree, Nodes
<1> HIDE DEF link
<1>8. /\ IsTree(tree') /\ Insertion(tree, tree', link, n, key)
      /\ tree'.node[n].subtree_height = 1
      /\ \A m \in Nodes(tree) : tree'.node[m].subtree_height = tree.node[m].subtree_height
  <2> DEFINE u == WithNewNode(tree, link, n, key)
  <2>1. tree' = u
    BY <1>6 DEF WithNewNode
  <2>2. /\ IsTree(u) /\ Insertion(tree, u, link, n, key)
        /\ u.node[n].subtree_height = 1
        /\ \A m \in Nodes(tree) : u.node[m].subtree_height = tree.node[m].subtree_height
    BY <1>1, <1>5, <1>7, InsertStores
  <2> HIDE DEF u
  <2> QED BY <2>1, <2>2
<1>9. Linked(tree') /\ \E b : InOrder(tree', b)
  BY <1>1, <1>2, <1>4, <1>7, <1>8, InsertionKeeps
<1>10. /\ Nodes(tree') = Nodes(tree) \cup {n} /\ Key(tree', n) = key /\ tree'.alive
       /\ \A m \in Nodes(tree) : Key(tree', m) = Key(tree, m)
  BY <1>1, <1>8 DEF Insertion
<1>11. call' = Call("insert", key, "inserted", link[1])
  BY <1>6
<1>12. CallTyped'
  BY <1>5, <1>10, <1>11, CallAtOnce DEF insert_new, Callable
<1>13. crashed' \in BOOLEAN /\ tilted' \in BOOLEAN
  BY DEF insert_new, TreeInv
<1>14. TreeInv'
  BY <1>8, <1>9, <1>10, <1>12, <1>13 DEF TreeInv, TreeInOrder
<1>15. /\ call'.op = "insert" /\ call'.key = key /\ call'.answer = "inserted"
       /\ call'.node = link[1]
  BY <1>11 DEF Call
<1>16. Deref(tree, link) = NULL
  BY <1>1, <1>4, LinkFacts DEF PlaceFor
<1> QED BY <1>5, <1>7, <1>8, <1>10, <1>14, <1>15, <1>16

(* erase of a key that is stored erases it.                                *)
LEMMA EraseKeepsInv ==
  ASSUME TreeInv, NEW key \in Keys, erase(key), find(tree, key) # NULL
  PROVE  LET n == find(tree, key)
         IN  /\ TreeInv' /\ tree'.alive /\ call'.op = "erase" /\ call'.key = key
             /\ call'.answer = "none"
             /\ n \in Nodes(tree) /\ Key(tree, n) = key /\ Erased(tree, tree', n, victim(n))
<1> DEFINE n == find(tree, key)
           v == victim(n)
<1>1. IsTree(tree) /\ Linked(tree) /\ key \in Int /\ tree.alive
  BY AvlTreeAssumption DEF TreeInv, TreeInOrder, erase, Callable
<1>2. PICK bound : InOrder(tree, bound)
  BY DEF TreeInv, TreeInOrder
<1>3. n \in Nodes(tree) /\ Key(tree, n) = key
  <2>1. PICK q \in Nodes(tree) : Key(tree, q) = key
    BY <1>1, <1>2, FindMissing
  <2>2. find(tree, key) = q
    BY <1>1, <1>2, <2>1, FindStored
  <2> QED BY <2>1, <2>2
<1> HIDE DEF n
<1>4. v = IF tree.node[n].left_kid # NULL /\ tree.node[n].right_kid # NULL
          THEN iterator_next(tree, n) ELSE n
  BY DEF victim, has_two_kids
<1> HIDE DEF v
<1>5. /\ tree' = IF v = n THEN unlink(tree, v)
                 ELSE [unlink(tree, v) EXCEPT !.node[n].key = tree.node[v].key]
      /\ call' = Call("erase", key, "none", only_kid(tree, v))
      /\ tilted' = TRUE /\ crashed' = crashed
  BY DEF erase, n, v
<1>6. /\ IsTree(tree') /\ Linked(tree') /\ \E b : InOrder(tree', b)
      /\ Erased(tree, tree', n, v) /\ only_kid(tree, v) \in Nodes(tree') \cup {NULL}
  BY <1>1, <1>2, <1>3, <1>4, <1>5, EraseKeeps
<1>7. tree'.alive
  BY <1>1, <1>6 DEF Erased
<1>8. CallTyped'
  BY <1>5, <1>6, CallAtOnce DEF erase, Callable
<1>9. crashed' \in BOOLEAN /\ tilted' \in BOOLEAN
  BY <1>5 DEF TreeInv
<1>10. TreeInv'
  BY <1>6, <1>7, <1>8, <1>9 DEF TreeInv, TreeInOrder
<1>11. call'.op = "erase" /\ call'.key = key /\ call'.answer = "none"
  BY <1>5 DEF Call
<1> QED BY <1>3, <1>6, <1>7, <1>10, <1>11 DEF n, v

SameContents(t, u) ==
  /\ Nodes(u) = Nodes(t) /\ u.alive = t.alive
  /\ \A n \in Nodes(t) : Key(u, n) = Key(t, n)

(* One iteration of the loop of insert and erase keeps the tree in order.  *)
LEMMA ClimbKeepsInv ==
  ASSUME TreeInv, climb
  PROVE  /\ TreeInv' /\ SameContents(tree, tree')
         /\ call'.op = call.op /\ call'.key = call.key /\ call'.answer = call.answer
<1> DEFINE n == call.node
           ptr == get_node_ptr(tree, n)
           t1 == update_height(tree, n)
           which == RebalanceCase(t1, n, call.key)
<1>1. IsTree(tree) /\ Linked(tree) /\ n \in Nodes(tree)
  BY DEF TreeInv, TreeInOrder, CallTyped, climb, Returned
<1>2. PICK bound : InOrder(tree, bound)
  BY DEF TreeInv, TreeInOrder
<1>3. IsTree(t1) /\ SameShape(tree, t1) /\ t1.alive = tree.alive
  BY <1>1, UpdateHeightKeepsShape
<1>4. IF rotates_null(t1, n, which)
      THEN crashed' = TRUE /\ UNCHANGED <<tree, call, tilted>>
      ELSE /\ tree' = rebalance(t1, ptr, which)
           /\ call' = [call EXCEPT !.node = tree'.node[Deref(tree', ptr)].parent]
           /\ tilted' = (tilted \/ which \in {"right-right", "right-left"})
           /\ UNCHANGED crashed
  BY DEF climb
<1> HIDE DEF t1
<1>5. Linked(t1) /\ InOrder(t1, bound) /\ ptr = get_node_ptr(t1, n) /\ n \in Nodes(t1)
  <2>1. Linked(t1) /\ \A b : InOrder(tree, b) => InOrder(t1, b)
    BY <1>1, <1>3, SameShapeKeeps
  <2>2. \A m \in Nodes(tree) : get_node_ptr(t1, m) = get_node_ptr(tree, m)
    BY <1>1, <1>3, SameShapeKeeps
  <2>3. Nodes(t1) = Nodes(tree)
    BY <1>3 DEF SameShape
  <2> QED BY <1>1, <1>2, <2>1, <2>2, <2>3
<1> HIDE DEF ptr, which
<1>6. CASE rotates_null(t1, n, which)
  <2>1. crashed' = TRUE /\ tree' = tree /\ call' = call /\ tilted' = tilted
    BY <1>4, <1>6
  <2> QED BY <2>1 DEF TreeInv, CallTyped, SameContents
<1>7. CASE ~rotates_null(t1, n, which)
  <2>1. /\ tree' = rebalance(t1, ptr, which)
        /\ call' = [call EXCEPT !.node = tree'.node[Deref(tree', ptr)].parent]
        /\ tilted' = (tilted \/ which \in {"right-right", "right-left"})
        /\ crashed' = crashed
    BY <1>4, <1>7
  <2>2. Rearranged(t1, tree') /\ Deref(tree', ptr) \in Nodes(t1)
    <3>1. which = RebalanceCase(t1, n, call.key)
      BY DEF which
    <3>2. LET u == rebalance(t1, get_node_ptr(t1, n), which)
          IN  Rearranged(t1, u) /\ Deref(u, get_node_ptr(t1, n)) \in Nodes(t1)
      BY <1>3, <1>5, <1>7, <3>1, RebalanceRearranges
    <3> QED BY <1>5, <2>1, <3>2
  <2>3. SameContents(tree, tree')
    BY <1>3, <2>2 DEF SameContents, SameShape, Rearranged
  <2>4. TreeInOrder(tree')
    BY <2>2, <2>3 DEF Rearranged, TreeInOrder, SameContents, TreeInv
  <2>5. tree'.node[Deref(tree', ptr)].parent \in Nodes(tree') \cup {NULL}
    BY <2>2 DEF Rearranged, Linked, Parent
  <2>6. call \in [op : Calls \cup {"none", "new"}, key : Keys \cup {NULL},
                  answer : {"none", "already_exists", "failed", "inserted"},
                  node : Nodes(tree) \cup {NULL}]
    BY DEF TreeInv, CallTyped
  <2> DEFINE p == tree'.node[Deref(tree', ptr)].parent
  <2> HIDE DEF p
  <2>7. call' = [call EXCEPT !.node = p] /\ p \in Nodes(tree') \cup {NULL}
    BY <2>1, <2>5 DEF p
  <2>8. CallTyped' /\ call'.op = call.op /\ call'.key = call.key /\ call'.answer = call.answer
    BY <2>6, <2>7 DEF CallTyped
  <2>9. crashed' \in BOOLEAN /\ tilted' \in BOOLEAN
    BY <2>1 DEF TreeInv
  <2> QED BY <2>3, <2>4, <2>8, <2>9 DEF TreeInv
<1> QED BY <1>6, <1>7

(* clear and free leave no node.                                           *)
LEMMA ClearKeepsInv ==
  ASSUME TreeInv, clear \/ free
  PROVE  TreeInv' /\ Nodes(tree') = {} /\ (tree'.alive <=> clear)
<1>1. internal_free(tree) \in [{} -> NodeType]
  BY InternalFreeEmpties DEF TreeInv, TreeInOrder
<1>2. CASE clear
  <2>1. TreeInOrder(tree') /\ Nodes(tree') = {} /\ tree'.alive = TRUE
    BY <1>1, <1>2, EmptyTree DEF clear, Nodes
  <2>2. CallTyped'
    BY <1>2, CallAtOnce DEF clear, Callable
  <2> QED BY <1>2, <2>1, <2>2 DEF TreeInv, clear
<1>3. CASE free
  <2>1. TreeInOrder(tree') /\ Nodes(tree') = {} /\ tree'.alive = FALSE
    BY <1>1, <1>3, EmptyTree DEF free, Nodes
  <2>2. CallTyped'
    BY <1>3, CallAtOnce DEF free, Callable
  <2>3. ~clear
    BY <2>1 DEF clear
  <2> QED BY <1>3, <2>1, <2>2, <2>3 DEF TreeInv, free
<1> QED BY <1>2, <1>3

(* An insertion without memory stores NULL where NULL was: the search for  *)
(* a missing key ends at an empty link.                                    *)
LEMMA InsertFailsStoresNull ==
  ASSUME TreeInv, NEW key \in Keys, insert_fails(key)
  PROVE  tree' = tree
<1>1. IsTree(tree) /\ Linked(tree) /\ key \in Int
  BY AvlTreeAssumption DEF TreeInv, TreeInOrder
<1>2. PICK bound : InOrder(tree, bound)
  BY DEF TreeInv, TreeInOrder
<1>3. \A q \in Nodes(tree) : Key(tree, q) # key
  <2> SUFFICES ASSUME NEW q \in Nodes(tree), Key(tree, q) = key PROVE FALSE
    OBVIOUS
  <2>1. find(tree, key) = q
    BY <1>1, <1>2, FindStored
  <2> QED BY <1>1, <2>1, FieldTypes DEF insert_fails
<1> DEFINE link == internal_find(tree, key)
<1>4. PlaceFor(tree, bound, key, link)
  BY <1>1, <1>2, <1>3, FindMissing
<1>5. tree' = Store(tree, link, NULL)
  BY DEF insert_fails
<1> HIDE DEF link
<1>6. CASE link = RootLink /\ tree.root = NULL
  BY <1>1, <1>5, <1>6 DEF Store, IsTree
<1>7. ASSUME NEW p \in Nodes(tree), NEW s \in Sides, link = <<p, s>>, Kid(tree, p, s) = NULL
      PROVE  tree' = tree
  <2>1. tree' = [tree EXCEPT !.node[p][s] = NULL]
    BY <1>1, <1>5, <1>7, FieldTypes DEF Store, RootLink
  <2>2. [tree.node[p] EXCEPT ![s] = NULL] = tree.node[p]
    BY <1>1, <1>7 DEF IsTree, Nodes, NodeType, Kid, Sides
  <2>3. [tree.node EXCEPT ![p][s] = NULL] = tree.node
    BY <1>1, <2>2 DEF IsTree, Nodes
  <2> QED BY <1>1, <2>1, <2>3 DEF IsTree
<1> QED BY <1>4, <1>6, <1>7 DEF PlaceFor

(* A call that finds nothing to do.                                        *)
LEMMA NothingToDoKeepsInv ==
  ASSUME TreeInv, NEW key \in Keys,
         \/ insert_existing(key) \/ insert_fails(key)
         \/ erase(key) /\ find(tree, key) = NULL
  PROVE  TreeInv' /\ tree' = tree
<1>1. tree' = tree
  BY InsertFailsStoresNull DEF insert_existing, erase
<1>2. CallTyped'
  BY CallAtOnce DEF insert_existing, insert_fails, erase, Callable
<1> QED BY <1>1, <1>2 DEF TreeInv, insert_existing, insert_fails, erase

(* Every step keeps the invariant.                                         *)
LEMMA NextKeepsInv == TreeInv /\ [Next]_vars => TreeInv'
<1> SUFFICES ASSUME TreeInv, [Next]_vars PROVE TreeInv'
  OBVIOUS
<1>1. CASE new
  BY <1>1, NewKeepsInv
<1>2. ASSUME NEW key \in Keys, insert_existing(key) \/ insert_fails(key)
      PROVE  TreeInv'
  BY <1>2, NothingToDoKeepsInv
<1>3. ASSUME NEW key \in Keys, insert_new(key)
      PROVE  TreeInv'
  BY <1>3, InsertNewKeepsInv
<1>4. ASSUME NEW key \in Keys, erase(key)
      PROVE  TreeInv'
  BY <1>4, EraseKeepsInv, NothingToDoKeepsInv
<1>5. CASE climb
  BY <1>5, ClimbKeepsInv
<1>6. CASE clear \/ free
  BY <1>6, ClearKeepsInv
<1>7. CASE UNCHANGED vars
  BY <1>7 DEF vars, TreeInv, CallTyped
<1> QED BY <1>1, <1>2, <1>3, <1>4, <1>5, <1>6, <1>7 DEF Next

(* The invariant holds always.                                             *)
LEMMA Invariance == Spec => []TreeInv
BY InitInv, NextKeepsInv, PTL DEF Spec

-----------------------------------------------------------------------------
(* Theorems.                                                               *)

(* Along the kids on one side lies the outermost key of the tree.          *)
LEMMA OutermostExact ==
  ASSUME NEW t, IsTree(t), Linked(t), NEW bound, InOrder(t, bound), NEW side \in Sides,
         t.root # NULL, NEW m \in Nodes(t)
  PROVE  LET o == outermost(t, t.root, side)
         IN  o \in Nodes(t) /\ ~Toward(side, Key(t, m), Key(t, o))
<1> DEFINE o == outermost(t, t.root, side)
<1>1. t.root \in Nodes(t) /\ bound[t.root][side] = NULL
  BY DEF Linked, InOrder, Bounds
<1>2. o \in Nodes(t) /\ Kid(t, o, side) = NULL /\ bound[o][side] = NULL
  BY <1>1, OutermostFacts
<1> HIDE DEF o
<1>3. ASSUME Toward(side, Key(t, m), Key(t, o)) PROVE FALSE
  <2>1. Key(t, m) \in Int /\ Key(t, o) \in Int
    BY <1>2, FieldTypes
  <2>2. Other(side) \in Sides /\ \A s \in Sides : s = side \/ s = Other(side)
    BY SideFacts
  <2> DEFINE q == bound[o][Other(side)]
  <2>3. q # NULL => Toward(Other(side), Key(t, q), Key(t, m))
    <3> SUFFICES ASSUME q # NULL PROVE Toward(Other(side), Key(t, q), Key(t, m))
      OBVIOUS
    <3>1. q \in Nodes(t) /\ Toward(Other(side), Key(t, q), Key(t, o))
      BY <1>2, <2>2 DEF InOrder, Bounds, Within
    <3>2. Key(t, q) \in Int
      BY <3>1, FieldTypes
    <3> HIDE DEF q
    <3>3. Toward(Other(side), Key(t, o), Key(t, m))
      BY <1>3, <2>1, TowardOrder
    <3> QED BY <2>1, <2>2, <3>1, <3>2, <3>3, TowardOrder
  <2>4. Within(t, bound, o, Key(t, m))
    BY <1>2, <2>2, <2>3 DEF Within
  <2> QED BY <1>2, <1>3, <2>4, KidTowardsKey
<1> QED BY <1>2, <1>3 DEF o

(* What the invariant says of the tree.                                    *)
LEMMA InvFacts ==
  ASSUME TreeInv
  PROVE  /\ IsTree(tree) /\ Linked(tree)
         /\ \A n \in Nodes(tree) : Key(tree, n) \in Int /\ Key(tree, n) \in Keys /\ n # NULL
         /\ KeySet = {Key(tree, n) : n \in Nodes(tree)}
BY FieldTypes DEF TreeInv, TreeInOrder, KeySet, Nodes, Key

(* All pointers of all nodes point to nodes or are NULL, in every state:   *)
(* no rotation and no erase leaves a pointer to a freed node behind.       *)
THEOREM TreeTypeCorrect == Spec => []TypeOK
<1>1. ASSUME TreeInv PROVE TypeOK
  <2>1. IsTree(tree) /\ Linked(tree)
    BY <1>1, InvFacts
  <2>2. tree.alive \in BOOLEAN /\ tree.tree_size \in Nat
    BY <2>1, FS_CardinalityType DEF IsTree
  <2>3. DOMAIN tree.node \subseteq Cells /\ tree.node \in [DOMAIN tree.node -> NodeType]
    BY <2>1 DEF IsTree
  <2>4. tree.root \in DOMAIN tree.node \cup {NULL}
    BY <2>1 DEF Linked, Nodes
  <2>5. ASSUME NEW n \in DOMAIN tree.node
        PROVE  {tree.node[n].parent, tree.node[n].left_kid, tree.node[n].right_kid}
                 \subseteq DOMAIN tree.node \cup {NULL}
    BY <2>1 DEF Linked, Nodes, Parent, Kid, Sides
  <2> QED BY <1>1, <2>2, <2>3, <2>4, <2>5 DEF TypeOK, TreeInv, CallTyped, Nodes
<1> QED BY <1>1, Invariance, PTL

(* Rotations and unlinking keep one tree: the root reaches every allocated *)
(* cell, exactly one link points to each, and the size counts them.        *)
THEOREM TreeStaysLinked == Spec => []WellLinked
<1>1. ASSUME TreeInv PROVE WellLinked
  <2>1. IsTree(tree) /\ Linked(tree)
    BY <1>1, InvFacts
  <2>2. Descendants(tree, tree.root) = DOMAIN tree.node
    BY <2>1, AllDescend DEF Nodes
  <2>3. tree.tree_size = Cardinality(DOMAIN tree.node)
    BY <2>1 DEF IsTree
  <2>4. ASSUME NEW n \in DOMAIN tree.node
        PROVE  {link \in Links(tree) : Deref(tree, link) = n} = {get_node_ptr(tree, n)}
    BY <2>1, LinkFacts DEF Nodes
  <2> QED BY <2>2, <2>3, <2>4 DEF WellLinked
<1> QED BY <1>1, Invariance, PTL

(* Whatever was inserted, erased and rotated before, and also between two  *)
(* rotations of one call: first, next, last and prev visit exactly the     *)
(* stored keys in order, and find finds exactly them.                      *)
THEOREM IteratorsAreExact == Spec => []IterationExact
<1>1. ASSUME TreeInv PROVE IterationExact
  <2>1. /\ IsTree(tree) /\ Linked(tree)
        /\ \A n \in Nodes(tree) : Key(tree, n) \in Int /\ Key(tree, n) \in Keys /\ n # NULL
        /\ KeySet = {Key(tree, n) : n \in Nodes(tree)}
    BY <1>1, InvFacts
  <2>2. PICK bound : InOrder(tree, bound)
    BY <1>1 DEF TreeInv, TreeInOrder
  <2>3. tree.root = NULL <=> KeySet = {}
    BY <2>1, RootExists DEF Linked
  <2>4. "left_kid" \in Sides /\ "right_kid" \in Sides
        /\ Other("left_kid") = "right_kid" /\ Other("right_kid") = "left_kid"
    BY SideFacts
  <2>5. HoldsLeast(tree_first(tree), KeySet)
    <3>1. CASE KeySet = {}
      BY <2>3, <3>1 DEF HoldsLeast, tree_first
    <3>2. CASE KeySet # {}
      <4> DEFINE o == outermost(tree, tree.root, "left_kid")
      <4>1. tree_first(tree) = o
        BY <2>3, <3>2 DEF tree_first
      <4>2. \A m \in Nodes(tree) : o \in Nodes(tree) /\ ~Toward("left_kid", Key(tree, m), Key(tree, o))
        BY <2>1, <2>2, <2>3, <2>4, <3>2, OutermostExact
      <4> HIDE DEF o
      <4>3. o \in Nodes(tree)
        BY <2>1, <3>2, <4>2
      <4>4. \A m \in Nodes(tree) : Key(tree, o) <= Key(tree, m)
        BY <2>1, <4>2, <4>3 DEF Toward
      <4>5. Key(tree, o) \in KeySet /\ o # NULL /\ \A k \in KeySet : Key(tree, o) <= k
        BY <2>1, <4>3, <4>4
      <4> QED BY <3>2, <4>1, <4>5 DEF HoldsLeast, Key
    <3> QED BY <3>1, <3>2
  <2>6. HoldsGreatest(tree_last(tree), KeySet)
    <3>1. CASE KeySet = {}
      BY <2>3, <3>1 DEF HoldsGreatest, tree_last
    <3>2. CASE KeySet # {}
      <4> DEFINE o == outermost(tree, tree.root, "right_kid")
      <4>1. tree_last(tree) = o
        BY <2>3, <3>2 DEF tree_last
      <4>2. \A m \in Nodes(tree) : o \in Nodes(tree) /\ ~Toward("right_kid", Key(tree, m), Key(tree, o))
        BY <2>1, <2>2, <2>3, <2>4, <3>2, OutermostExact
      <4> HIDE DEF o
      <4>3. o \in Nodes(tree)
        BY <2>1, <3>2, <4>2
      <4>4. \A m \in Nodes(tree) : Key(tree, o) >= Key(tree, m)
        BY <2>1, <4>2, <4>3 DEF Toward
      <4>5. Key(tree, o) \in KeySet /\ o # NULL /\ \A k \in KeySet : Key(tree, o) >= k
        BY <2>1, <4>3, <4>4
      <4> QED BY <3>2, <4>1, <4>5 DEF HoldsGreatest, Key
    <3> QED BY <3>1, <3>2
  <2>7. ASSUME NEW n \in Nodes(tree)
        PROVE  HoldsLeast(iterator_next(tree, n), Above(Key(tree, n)))
    <3> DEFINE o == iterator_step(tree, n, "right_kid", "left_kid")
    <3>1. /\ o \in Nodes(tree) \cup {NULL}
          /\ o = NULL => \A m \in Nodes(tree) : ~Toward("right_kid", Key(tree, m), Key(tree, n))
          /\ o # NULL => /\ Toward("right_kid", Key(tree, o), Key(tree, n))
                         /\ \A m \in Nodes(tree) : Toward("right_kid", Key(tree, m), Key(tree, n)) /\ m # o =>
                              Toward("right_kid", Key(tree, m), Key(tree, o))
      BY <2>1, <2>2, <2>4, IteratorStepExact
    <3> HIDE DEF o
    <3>2. /\ o = NULL => \A m \in Nodes(tree) : ~(Key(tree, n) < Key(tree, m))
          /\ o # NULL => /\ Key(tree, n) < Key(tree, o)
                         /\ \A m \in Nodes(tree) : Key(tree, n) < Key(tree, m) /\ m # o =>
                              Key(tree, o) < Key(tree, m)
      BY <3>1 DEF Toward
    <3>3. Above(Key(tree, n)) = {Key(tree, m) : m \in {x \in Nodes(tree) : Key(tree, x) > Key(tree, n)}}
      BY <2>1 DEF Above
    <3>4. HoldsLeast(o, Above(Key(tree, n)))
      <4>1. CASE o = NULL
        BY <2>1, <3>2, <3>3, <4>1 DEF HoldsLeast
      <4>2. CASE o # NULL
        <5>1. o \in Nodes(tree) /\ Key(tree, o) \in Above(Key(tree, n))
          BY <2>1, <3>1, <3>2, <3>3, <4>2
        <5>2. \A m \in Nodes(tree) : Key(tree, m) > Key(tree, n) => Key(tree, o) <= Key(tree, m)
          BY <2>1, <3>2, <4>2, <5>1
        <5> QED BY <3>3, <4>2, <5>1, <5>2 DEF HoldsLeast, Key
      <4> QED BY <4>1, <4>2
    <3> QED BY <3>4 DEF iterator_next, o
  <2>8. ASSUME NEW n \in Nodes(tree)
        PROVE  HoldsGreatest(iterator_prev(tree, n), Below(Key(tree, n)))
    <3> DEFINE o == iterator_step(tree, n, "left_kid", "right_kid")
    <3>1. /\ o \in Nodes(tree) \cup {NULL}
          /\ o = NULL => \A m \in Nodes(tree) : ~Toward("left_kid", Key(tree, m), Key(tree, n))
          /\ o # NULL => /\ Toward("left_kid", Key(tree, o), Key(tree, n))
                         /\ \A m \in Nodes(tree) : Toward("left_kid", Key(tree, m), Key(tree, n)) /\ m # o =>
                              Toward("left_kid", Key(tree, m), Key(tree, o))
      BY <2>1, <2>2, <2>4, IteratorStepExact
    <3> HIDE DEF o
    <3>2. /\ o = NULL => \A m \in Nodes(tree) : ~(Key(tree, m) < Key(tree, n))
          /\ o # NULL => /\ Key(tree, o) < Key(tree, n)
                         /\ \A m \in Nodes(tree) : Key(tree, m) < Key(tree, n) /\ m # o =>
                              Key(tree, m) < Key(tree, o)
      BY <3>1 DEF Toward
    <3>3. Below(Key(tree, n)) = {Key(tree, m) : m \in {x \in Nodes(tree) : Key(tree, x) < Key(tree, n)}}
      BY <2>1 DEF Below
    <3>4. HoldsGreatest(o, Below(Key(tree, n)))
      <4>1. CASE o = NULL
        BY <2>1, <3>2, <3>3, <4>1 DEF HoldsGreatest
      <4>2. CASE o # NULL
        <5>1. o \in Nodes(tree) /\ Key(tree, o) \in Below(Key(tree, n))
          BY <2>1, <3>1, <3>2, <3>3, <4>2
        <5>2. \A m \in Nodes(tree) : Key(tree, m) < Key(tree, n) => Key(tree, o) >= Key(tree, m)
          BY <2>1, <3>2, <4>2, <5>1
        <5> QED BY <3>3, <4>2, <5>1, <5>2 DEF HoldsGreatest, Key
      <4> QED BY <4>1, <4>2
    <3> QED BY <3>4 DEF iterator_prev, o
  <2>9. \A n \in Nodes(tree) : find(tree, Key(tree, n)) = n
    BY <2>1, <2>2, FindStored
  <2>10. ASSUME NEW key \in Keys \ KeySet PROVE find(tree, key) = NULL
    <3>1. key \in Int /\ \A q \in Nodes(tree) : Key(tree, q) # key
      BY <2>1, AvlTreeAssumption
    <3> QED BY <2>1, <2>2, <3>1, FindMissing
  <2> QED BY <2>5, <2>6, <2>7, <2>8, <2>9, <2>10 DEF IterationExact, Nodes, Key
<1> QED BY <1>1, Invariance, PTL

(* What a step does to the contents: it adds a node with a new key, or     *)
(* erases one key and the cell of it or of the next key, or empties the    *)
(* tree, or changes nothing.                                               *)
LEMMA StepContents ==
  ASSUME TreeInv, [Next]_vars
  PROVE  \/ \A n \in Nodes(tree) : n \in Nodes(tree') /\ Key(tree', n) = Key(tree, n)
         \/ \E n \in Nodes(tree) : Erased(tree, tree', n, victim(n))
         \/ Nodes(tree') = {}
<1>1. CASE new
  BY <1>1, NewKeepsInv
<1>2. ASSUME NEW key \in Keys, insert_existing(key) \/ insert_fails(key)
      PROVE  tree' = tree
  BY <1>2, NothingToDoKeepsInv
<1>3. ASSUME NEW key \in Keys, insert_new(key)
      PROVE  \A n \in Nodes(tree) : n \in Nodes(tree') /\ Key(tree', n) = Key(tree, n)
  BY <1>3, InsertNewKeepsInv
<1>4. ASSUME NEW key \in Keys, erase(key), find(tree, key) = NULL
      PROVE  tree' = tree
  BY <1>4, NothingToDoKeepsInv
<1>5. ASSUME NEW key \in Keys, erase(key), find(tree, key) # NULL
      PROVE  \E n \in Nodes(tree) : Erased(tree, tree', n, victim(n))
  <2>1. find(tree, key) \in Nodes(tree) /\ Erased(tree, tree', find(tree, key), victim(find(tree, key)))
    BY <1>5, EraseKeepsInv
  <2> QED BY <2>1
<1>6. CASE climb
  BY <1>6, ClimbKeepsInv DEF SameContents
<1>7. CASE clear \/ free
  BY <1>7, ClearKeepsInv
<1>8. CASE UNCHANGED vars
  BY <1>8 DEF vars
<1> QED BY <1>1, <1>2, <1>3, <1>4, <1>5, <1>6, <1>7, <1>8 DEF Next

(* What erasing does to the keys.                                          *)
LEMMA ErasedKeys ==
  ASSUME TreeInv, TreeInv', NEW n \in Nodes(tree), NEW v, Erased(tree, tree', n, v)
  PROVE  KeySet' = KeySet \ {Key(tree, n)}
<1>1. /\ IsTree(tree) /\ Linked(tree)
      /\ \A m \in Nodes(tree) : Key(tree, m) \in Int /\ m # NULL
      /\ KeySet = {Key(tree, m) : m \in Nodes(tree)}
  BY InvFacts
<1>2. KeySet' = {Key(tree', m) : m \in Nodes(tree')}
  BY DEF KeySet, Nodes, Key
<1>3. PICK bound : InOrder(tree, bound)
  BY DEF TreeInv, TreeInOrder
<1>4. \A m \in Nodes(tree) : Key(tree, m) = Key(tree, n) => m = n
  BY <1>1, <1>3, UniqueKeys
<1>5. /\ v \in Nodes(tree) /\ Nodes(tree') = Nodes(tree) \ {v}
      /\ \A m \in Nodes(tree') : Key(tree', m) = IF m = n THEN Key(tree, v) ELSE Key(tree, m)
  BY DEF Erased
<1>6. CASE v = n
  BY <1>1, <1>2, <1>4, <1>5, <1>6
<1>7. CASE v # n
  <2>1. n \in Nodes(tree') /\ Key(tree', n) = Key(tree, v) /\ Key(tree, v) # Key(tree, n)
    BY <1>4, <1>5, <1>7
  <2>2. KeySet' \subseteq KeySet \ {Key(tree, n)}
    BY <1>1, <1>2, <1>4, <1>5, <2>1
  <2>3. ASSUME NEW m \in Nodes(tree), Key(tree, m) # Key(tree, n)
        PROVE  Key(tree, m) \in KeySet'
    <3>1. CASE m = v
      BY <1>2, <2>1, <3>1
    <3>2. CASE m # v
      BY <1>2, <1>5, <2>3, <3>2
    <3> QED BY <3>1, <3>2
  <2> QED BY <1>1, <2>2, <2>3
<1> QED BY <1>6, <1>7

(* An iterator survives every step that neither removes its key nor the    *)
(* key before it: a rotation and an insertion invalidate none.             *)
THEOREM IteratorsStayValid == Spec => IteratorsSurvive
<1> DEFINE Survives == \A n \in DOMAIN tree.node :
             \/ n \in DOMAIN tree'.node /\ tree'.node[n].key = tree.node[n].key
             \/ \E k \in KeySet \ KeySet' :
                  tree.node[n].key = k \/ HoldsLeast(n, Above(k))
<1>1. ASSUME TreeInv, TreeInv', [Next]_vars PROVE Survives
  <2>0. /\ IsTree(tree) /\ Linked(tree)
        /\ \A m \in Nodes(tree) : Key(tree, m) \in Int /\ m # NULL
        /\ KeySet = {Key(tree, m) : m \in Nodes(tree)}
    BY <1>1, InvFacts
  <2>1. CASE \A n \in Nodes(tree) : n \in Nodes(tree') /\ Key(tree', n) = Key(tree, n)
    BY <2>1 DEF Nodes, Key
  <2>2. CASE Nodes(tree') = {}
    <3>1. KeySet' = {}
      BY <2>2 DEF KeySet, Nodes
    <3>2. \A n \in Nodes(tree) : Key(tree, n) \in KeySet \ KeySet'
      BY <2>0, <3>1
    <3> QED BY <3>2 DEF Nodes, Key
  <2>3. ASSUME NEW n \in Nodes(tree), NEW v, Erased(tree, tree', n, v) PROVE Survives
    <3>1. Key(tree, n) \in KeySet \ KeySet'
      BY <1>1, <2>0, <2>3, ErasedKeys
    <3>2. /\ v \in Nodes(tree) /\ Nodes(tree') = Nodes(tree) \ {v}
          /\ \A m \in Nodes(tree') : Key(tree', m) = IF m = n THEN Key(tree, v) ELSE Key(tree, m)
          /\ v # n => /\ Key(tree, n) < Key(tree, v)
                      /\ \A m \in Nodes(tree) : Key(tree, n) < Key(tree, m) /\ m # v => Key(tree, v) < Key(tree, m)
      BY <2>3 DEF Erased
    <3>3. v # n => HoldsLeast(v, Above(Key(tree, n)))
      <4> SUFFICES ASSUME v # n PROVE HoldsLeast(v, Above(Key(tree, n)))
        OBVIOUS
      <4>1. Above(Key(tree, n)) = {Key(tree, m) : m \in {x \in Nodes(tree) : Key(tree, x) > Key(tree, n)}}
        BY <2>0 DEF Above
      <4>2. Key(tree, v) \in Above(Key(tree, n)) /\ v # NULL
        BY <2>0, <3>2, <4>1
      <4>3. \A m \in Nodes(tree) : Key(tree, m) > Key(tree, n) => Key(tree, v) <= Key(tree, m)
        BY <2>0, <3>2
      <4> QED BY <4>1, <4>2, <4>3 DEF HoldsLeast, Key
    <3>4. ASSUME NEW m \in Nodes(tree)
          PROVE  \/ m \in Nodes(tree') /\ Key(tree', m) = Key(tree, m)
                 \/ \E k \in KeySet \ KeySet' : Key(tree, m) = k \/ HoldsLeast(m, Above(k))
      <4>1. CASE m = n
        BY <3>1, <4>1
      <4>2. CASE m = v /\ m # n
        BY <3>1, <3>3, <4>2
      <4>3. CASE m # v /\ m # n
        BY <3>2, <4>3
      <4> QED BY <4>1, <4>2, <4>3
    <3> QED BY <3>4 DEF Nodes, Key
  <2> QED BY <1>1, <2>1, <2>2, <2>3, StepContents
<1>2. TreeInv /\ TreeInv' /\ [Next]_vars => [Survives]_vars
  BY <1>1
<1> QED BY <1>2, Invariance, PTL DEF Spec, IteratorsSurvive

-----------------------------------------------------------------------------
(* Refinement.                                                             *)

(* Each step of the tree is a step of the ordered set or a stutter.        *)
LEMMA NextRefines ==
  ASSUME TreeInv, TreeInv', [Next]_vars
  PROVE  [Ordered!Next]_<<IF tree.alive THEN KeySet ELSE NULL,
                          [op |-> call.op, key |-> call.key, answer |-> call.answer]>>
<1> DEFINE set == IF tree.alive THEN KeySet ELSE NULL
           last == [op |-> call.op, key |-> call.key, answer |-> call.answer]
<1>0. /\ IsTree(tree) /\ Linked(tree)
      /\ \A n \in Nodes(tree) : Key(tree, n) \in Int /\ Key(tree, n) \in Keys /\ n # NULL
      /\ KeySet = {Key(tree, n) : n \in Nodes(tree)}
  BY InvFacts
<1>1. KeySet # NULL
  BY <1>0, AvlTreeAssumption
<1>2. KeySet' = {Key(tree', n) : n \in Nodes(tree')}
  BY DEF KeySet, Nodes, Key
<1>3. CASE new
  <2>1. set = NULL
    BY <1>3 DEF new
  <2>2. set' = {}
    BY <1>2, <1>3, NewKeepsInv DEF new, TreeInv, TreeInOrder, IsTree
  <2>3. last' = [op |-> "new", key |-> NULL, answer |-> "none"]
    BY <1>3 DEF new, Call
  <2> HIDE DEF set, last
  <2>4. Ordered!New
    BY <2>1, <2>2, <2>3 DEF Ordered!New, Ordered!Said, set, last
  <2> QED BY <2>4 DEF Ordered!Next
<1>4. ASSUME NEW key \in Keys, insert_existing(key)
      PROVE  Ordered!Insert(key)
  <2>1. tree' = tree /\ tree.alive
    BY <1>4, NothingToDoKeepsInv DEF insert_existing, Callable
  <2>2. key \in KeySet
    <3>1. PICK bound : InOrder(tree, bound)
      BY DEF TreeInv, TreeInOrder
    <3>2. key \in Int /\ find(tree, key) # NULL
      BY <1>4, AvlTreeAssumption DEF insert_existing
    <3> QED BY <1>0, <3>1, <3>2, FindMissing
  <2>3. set = KeySet /\ set' = set
    BY <1>0, <1>2, <2>1
  <2>4. last' = [op |-> "insert", key |-> key, answer |-> "already_exists"]
    BY <1>4 DEF insert_existing, Call
  <2> HIDE DEF set, last
  <2> QED BY <1>1, <2>2, <2>3, <2>4 DEF Ordered!Insert, Ordered!Said, set, last
<1>5. ASSUME NEW key \in Keys, find(tree, key) = NULL
      PROVE  key \notin KeySet
  <2>1. PICK bound : InOrder(tree, bound)
    BY DEF TreeInv, TreeInOrder
  <2> QED BY <1>0, <1>5, <2>1, FindStored
<1>6. ASSUME NEW key \in Keys, insert_fails(key)
      PROVE  Ordered!Insert(key)
  <2>1. tree' = tree /\ tree.alive /\ find(tree, key) = NULL
    BY <1>6, NothingToDoKeepsInv DEF insert_fails, Callable
  <2>2. set = KeySet /\ set' = set /\ key \notin KeySet
    BY <1>0, <1>2, <1>5, <2>1
  <2>3. last' = [op |-> "insert", key |-> key, answer |-> "failed"]
    BY <1>6 DEF insert_fails, Call
  <2> HIDE DEF set, last
  <2> QED BY <1>1, <2>2, <2>3 DEF Ordered!Insert, Ordered!Said, set, last
<1>7. ASSUME NEW key \in Keys, insert_new(key)
      PROVE  Ordered!Insert(key)
  <2>1. tree.alive /\ find(tree, key) = NULL
    BY <1>7 DEF insert_new, Callable
  <2>2. tree'.alive /\ call'.op = "insert" /\ call'.key = key /\ call'.answer = "inserted"
    BY <1>7, InsertNewKeepsInv
  <2>3. KeySet' = KeySet \cup {key}
    <3>1. PICK n \in Cells \ Nodes(tree) :
            /\ Nodes(tree') = Nodes(tree) \cup {n} /\ Key(tree', n) = key
            /\ \A m \in Nodes(tree) : Key(tree', m) = Key(tree, m)
      BY <1>7, InsertNewKeepsInv
    <3> QED BY <1>0, <1>2, <3>1
  <2>4. set = KeySet /\ set' = set \cup {key} /\ key \notin KeySet
    BY <1>5, <2>1, <2>2, <2>3
  <2>5. last' = [op |-> "insert", key |-> key, answer |-> "inserted"]
    BY <2>2
  <2> HIDE DEF set, last
  <2> QED BY <1>1, <2>4, <2>5 DEF Ordered!Insert, Ordered!Said, set, last
<1>8. ASSUME NEW key \in Keys, erase(key)
      PROVE  Ordered!Erase(key)
  <2>1. tree.alive /\ set = KeySet
    BY <1>8 DEF erase, Callable
  <2>2. CASE find(tree, key) = NULL
    <3>1. tree' = tree
      BY <1>8, <2>2, NothingToDoKeepsInv
    <3>2. key \notin KeySet
      BY <1>5, <2>2
    <3>3. set' = set \ {key}
      BY <1>0, <1>2, <2>1, <3>1, <3>2
    <3>4. last' = [op |-> "erase", key |-> key, answer |-> "none"]
      BY <1>8, <2>2 DEF erase, Call
    <3> HIDE DEF set, last
    <3> QED BY <1>1, <2>1, <3>3, <3>4 DEF Ordered!Erase, Ordered!Said, set, last
  <2>3. CASE find(tree, key) # NULL
    <3> DEFINE n == find(tree, key)
    <3>1. /\ tree'.alive /\ call'.op = "erase" /\ call'.key = key /\ call'.answer = "none"
          /\ n \in Nodes(tree) /\ Key(tree, n) = key /\ Erased(tree, tree', n, victim(n))
      BY <1>8, <2>3, EraseKeepsInv
    <3> HIDE DEF n
    <3>2. KeySet' = KeySet \ {key}
      BY <3>1, ErasedKeys
    <3>3. set' = set \ {key}
      BY <2>1, <3>1, <3>2
    <3>4. last' = [op |-> "erase", key |-> key, answer |-> "none"]
      BY <3>1
    <3> HIDE DEF set, last
    <3> QED BY <1>1, <2>1, <3>3, <3>4 DEF Ordered!Erase, Ordered!Said, set, last
  <2> QED BY <2>2, <2>3
<1>9. ASSUME climb \/ UNCHANGED vars
      PROVE  UNCHANGED <<set, last>>
  <2>1. CASE climb
    <3>1. /\ SameContents(tree, tree')
          /\ call'.op = call.op /\ call'.key = call.key /\ call'.answer = call.answer
      BY <2>1, ClimbKeepsInv
    <3>2. KeySet' = KeySet /\ tree'.alive = tree.alive
      BY <1>0, <1>2, <3>1 DEF SameContents
    <3> QED BY <3>1, <3>2
  <2>2. CASE UNCHANGED vars
    <3>1. tree' = tree /\ call' = call
      BY <2>2 DEF vars
    <3> QED BY <1>0, <1>2, <3>1
  <2> QED BY <1>9, <2>1, <2>2
<1>10. CASE clear
  <2>1. set = KeySet /\ set' = {}
    BY <1>2, <1>10, ClearKeepsInv DEF clear, Callable
  <2>2. last' = [op |-> "clear", key |-> NULL, answer |-> "none"]
    BY <1>10 DEF clear, Call
  <2> HIDE DEF set, last
  <2>3. Ordered!Clear
    BY <1>1, <2>1, <2>2 DEF Ordered!Clear, Ordered!Said, set, last
  <2> QED BY <2>3 DEF Ordered!Next
<1>11. CASE free
  <2>1. set = KeySet /\ set' = NULL
    BY <1>11 DEF free, Callable
  <2>2. last' = [op |-> "free", key |-> NULL, answer |-> "none"]
    BY <1>11 DEF free, Call
  <2> HIDE DEF set, last
  <2>3. Ordered!Free
    BY <1>1, <2>1, <2>2 DEF Ordered!Free, Ordered!Said, set, last
  <2> QED BY <2>3 DEF Ordered!Next
<1>12. \A key \in Keys : Ordered!Insert(key) \/ Ordered!Erase(key) => Ordered!Next
  BY DEF Ordered!Next
<1>13. Ordered!Next => [Ordered!Next]_<<set, last>>
  OBVIOUS
<1>14. CASE climb \/ UNCHANGED vars
  BY <1>9, <1>14
<1> QED BY <1>3, <1>4, <1>6, <1>7, <1>8, <1>10, <1>11, <1>12, <1>13, <1>14 DEF Next

(* Links, rotations and the climb of each call implement a set of keys:    *)
(* each call adds or removes its key at once and says so, and rebalancing  *)
(* changes nothing that a caller sees.                                     *)
THEOREM TreeImplementsOrderedSet == Spec => ImplementsOrderedSet
<1>1. Init => Ordered!Init
  BY DEF Init, NoTree, Call, Ordered!Init
<1>2. TreeInv /\ TreeInv' /\ [Next]_vars =>
        [Ordered!Next]_<<IF tree.alive THEN KeySet ELSE NULL,
                         [op |-> call.op, key |-> call.key, answer |-> call.answer]>>
  BY NextRefines
<1> QED BY <1>1, <1>2, Invariance, PTL DEF Spec, ImplementsOrderedSet, Ordered!Spec

-----------------------------------------------------------------------------
(* Heights.                                                                *)

(* A node of height h may have kids of heights a and b.                    *)
Fits(h, a, b) == h = MAX(a, b) + 1 /\ a - b \in -1 .. 1

FitsAt(t, n) ==
  Fits(get_height(t, n), get_height(t, Kid(t, n, "left_kid")), get_height(t, Kid(t, n, "right_kid")))

(* The subtree at d, which has just become one higher, is a new leaf, or   *)
(* it leans towards the key.                                               *)
Grown(t, d, key) ==
  \/ get_height(t, d) = 1
  \/ \E s \in Sides :
       LET g == Kid(t, d, s)
       IN  /\ g # NULL /\ Toward(s, key, Key(t, d))
           /\ get_height(t, d) = get_height(t, g) + 1
           /\ get_height(t, g) = get_height(t, Kid(t, d, Other(s))) + 1

(* The node n fits its kid d on the side s and the other one, or fits them *)
(* as they were before the subtree at d grew.                              *)
FitsOrFitted(t, n, s, key) ==
  LET d == Kid(t, n, s)
      o == Kid(t, n, Other(s))
  IN  \/ Fits(get_height(t, n), get_height(t, d), get_height(t, o))
      \/ Grown(t, d, key) /\ Fits(get_height(t, n), get_height(t, d) - 1, get_height(t, o))

(* The loop of insert is at n, above the new node: all other nodes fit     *)
(* their kids.                                                             *)
Pending(t, n, key) ==
  /\ \E q \in Nodes(t), s \in Sides :
       /\ Key(t, q) = key /\ n \in Ancestors(t, q) /\ Toward(s, key, Key(t, n))
       /\ Kid(t, n, s) # NULL /\ FitsOrFitted(t, n, s, key)
  /\ \A m \in Nodes(t) \ {n} : FitsAt(t, m)

(* No loop is running and all nodes fit their kids, or it is at n.         *)
Settled(t, n, key) ==
  IF n = NULL THEN \A m \in Nodes(t) : FitsAt(t, m) ELSE Pending(t, n, key)

HeightInv == ~tilted => ~crashed /\ Settled(tree, call.node, call.key)

(* A node fits its kids whichever side comes first.                        *)
LEMMA FitsEitherSide ==
  ASSUME NEW t, IsTree(t), Linked(t), NEW n \in Nodes(t), NEW s \in Sides
  PROVE  FitsAt(t, n) <=> Fits(get_height(t, n), get_height(t, Kid(t, n, s)),
                               get_height(t, Kid(t, n, Other(s))))
<1>1. \A o \in Sides : Kid(t, n, o) \in Nodes(t) \cup {NULL}
  BY DEF Linked
<1>2. \A o \in Sides : get_height(t, Kid(t, n, o)) \in Nat
  BY <1>1, HeightTypes
<1>3. \A h, a, b \in Nat : Fits(h, a, b) <=> Fits(h, b, a)
  BY DEF Fits, MAX
<1>4. get_height(t, n) \in Nat
  BY HeightTypes
<1>5. CASE s = "left_kid"
  BY <1>5, SideFacts DEF FitsAt
<1>6. CASE s = "right_kid"
  BY <1>2, <1>3, <1>4, <1>6, SideFacts DEF FitsAt
<1> QED BY <1>5, <1>6 DEF Sides

(* The subtree of a node that a rotation lifts holds what the one of the   *)
(* node it replaces held.                                                  *)
LEMMA RotationKeepsBelow ==
  ASSUME NEW t, IsTree(t), Linked(t), NEW top \in Nodes(t), NEW up \in Sides,
         NEW kid, kid = Kid(t, top, up), kid # NULL, NEW T2, T2 = Kid(t, kid, Other(up)),
         NEW u, Rotation(t, u, top, kid, T2, up),
         NEW q \in Nodes(t), top \in Ancestors(t, q)
  PROVE  kid \in Ancestors(u, q)
<1>1. kid \in Nodes(u) /\ top # NULL
  BY RotationNodes, FieldTypes DEF Rotation
<1> SUFFICES ASSUME NEW S \in SUBSET Nodes(u), q \in S, ParentClosed(u, S), kid \notin S
             PROVE  FALSE
  BY <1>1 DEF Ancestors
<1>2. S \in SUBSET Nodes(t) /\ \A m \in S : Parent(u, m) # NULL => Parent(u, m) \in S
  BY DEF Rotation, ParentClosed
<1>3. top \notin S
  <2>1. Parent(u, top) = kid
    BY RotationNodes DEF Rotation
  <2> QED BY <1>2, <2>1
<1>4. ASSUME NEW m \in S, Parent(t, m) # NULL
      PROVE  Parent(t, m) \in S
  <2>1. m \notin {kid, top}
    BY <1>3
  <2>2. Parent(u, m) = IF m = T2 THEN top ELSE Parent(t, m)
    BY <1>2, <2>1 DEF Rotation
  <2>3. m # T2
    BY <1>1, <1>2, <1>3, <2>2
  <2> QED BY <1>2, <1>4, <2>2, <2>3
<1>5. top \in S
  BY <1>2, <1>4 DEF Ancestors, ParentClosed
<1> QED BY <1>3, <1>5

(* When all nodes but the parent of x fit their kids, the loop may go on   *)
(* there.                                                                  *)
LEMMA ClimbOn ==
  ASSUME NEW u, IsTree(u), Linked(u), NEW bound, InOrder(u, bound),
         NEW q \in Nodes(u), NEW x \in Ancestors(u, q), NEW p, p = Parent(u, x),
         \A m \in Nodes(u) \ {p} : FitsAt(u, m),
         \A s \in Sides : p # NULL /\ Kid(u, p, s) = x => FitsOrFitted(u, p, s, Key(u, q))
  PROVE  Settled(u, p, Key(u, q))
<1>1. CASE p = NULL
  <2>1. \A m \in Nodes(u) : m # NULL
    BY FieldTypes
  <2> QED BY <1>1, <2>1 DEF Settled
<1>2. CASE p # NULL
  <2>1. x \in Nodes(u)
    BY DEF Ancestors
  <2>2. PICK s \in Sides : Kid(u, p, s) = x
    BY <1>2, <2>1, KidOfParent
  <2>3. p \in Ancestors(u, q) /\ p \in Nodes(u) /\ x # NULL
    BY <1>2, <2>1, AncestorFacts, FieldTypes DEF ParentClosed, Linked
  <2>4. Within(u, bound, x, Key(u, q)) /\ Key(u, q) \in Int
    BY <2>1, WithinAreAncestors, FieldTypes
  <2>5. Toward(s, Key(u, q), Key(u, p))
    BY <2>2, <2>3, <2>4, WithinKid
  <2>6. FitsOrFitted(u, p, s, Key(u, q))
    BY <1>2, <2>2
  <2>7. Pending(u, p, Key(u, q))
    BY <2>2, <2>3, <2>5, <2>6 DEF Pending
  <2> QED BY <1>2, <2>7 DEF Settled
<1> QED BY <1>1, <1>2

(* After insert_new only the parent of the new leaf may not fit its kids.  *)
LEMMA InsertionSettled ==
  ASSUME NEW t, IsTree(t), Linked(t), \A m \in Nodes(t) : FitsAt(t, m),
         NEW link \in Links(t), Deref(t, link) = NULL, NEW n \in Cells \ Nodes(t), NEW key,
         NEW u, IsTree(u), Linked(u), NEW bound, InOrder(u, bound), Insertion(t, u, link, n, key),
         u.node[n].subtree_height = 1,
         \A m \in Nodes(t) : u.node[m].subtree_height = t.node[m].subtree_height
  PROVE  Settled(u, link[1], key)
<1>1. /\ Nodes(u) = Nodes(t) \cup {n} /\ Key(u, n) = key /\ Parent(u, n) = link[1]
      /\ \A s \in Sides : Kid(u, n, s) = NULL
      /\ \A m \in Nodes(t), s \in Sides : Kid(u, m, s) = IF <<m, s>> = link THEN n ELSE Kid(t, m, s)
  BY DEF Insertion
<1>2. \A m \in Nodes(u) : m # NULL
  BY FieldTypes
<1>3. /\ get_height(u, n) = 1 /\ get_height(u, NULL) = 0
      /\ \A m \in Nodes(t) \cup {NULL} : get_height(u, m) = get_height(t, m)
  BY <1>1, <1>2 DEF get_height
<1>4. \A m \in Nodes(t), s \in Sides : Kid(t, m, s) \in Nodes(t) \cup {NULL}
  BY DEF Linked
<1>5. FitsAt(u, n)
  BY <1>1, <1>3, SideFacts DEF FitsAt, Fits, MAX
<1>6. ASSUME NEW m \in Nodes(t) \ {link[1]}
      PROVE  FitsAt(u, m)
  <2>1. \A s \in Sides : Kid(u, m, s) = Kid(t, m, s)
    BY <1>1
  <2>2. get_height(u, m) = get_height(t, m)
        /\ \A s \in Sides : get_height(u, Kid(u, m, s)) = get_height(t, Kid(t, m, s))
    BY <1>3, <1>4, <2>1
  <2> QED BY <2>2, SideFacts DEF FitsAt
<1>7. ASSUME NEW s \in Sides, link[1] # NULL, Kid(u, link[1], s) = n
      PROVE  FitsOrFitted(u, link[1], s, key)
  <2> DEFINE p == link[1]
  <2>1. PICK o \in Sides : p \in Nodes(t) /\ link = <<p, o>>
    BY <1>7 DEF Links, RootLink, Nodes, Sides
  <2> HIDE DEF p
  <2>2. Kid(t, p, o) = NULL
    BY <2>1, KidLink
  <2>3. o = s
    <3>1. Kid(t, p, s) # n
      BY <1>2, <1>4, <1>1, <2>1
    <3>2. <<p, s>> = link
      BY <1>1, <1>7, <2>1, <3>1 DEF p
    <3> QED BY <2>1, <3>2
  <2>4. Fits(get_height(t, p), 0, get_height(t, Kid(t, p, Other(s))))
    <3>1. get_height(t, Kid(t, p, s)) = 0
      BY <2>2, <2>3 DEF get_height
    <3>2. FitsAt(t, p)
      BY <2>1
    <3> QED BY <2>1, <3>1, <3>2, FitsEitherSide
  <2>5. Kid(u, p, Other(s)) = Kid(t, p, Other(s)) /\ Kid(t, p, Other(s)) \in Nodes(t) \cup {NULL}
    <3>1. <<p, Other(s)>> # link /\ Other(s) \in Sides
      BY <2>1, <2>3, SideFacts
    <3> QED BY <1>1, <1>4, <2>1, <3>1
  <2>6. Kid(u, p, s) = n /\ get_height(u, p) = get_height(t, p)
        /\ get_height(u, Kid(u, p, Other(s))) = get_height(t, Kid(t, p, Other(s)))
    BY <1>3, <1>7, <2>1, <2>5 DEF p
  <2>7. Grown(u, n, key) /\ get_height(u, n) - 1 = 0
    BY <1>3 DEF Grown
  <2>8. FitsOrFitted(u, p, s, key)
    BY <2>4, <2>6, <2>7 DEF FitsOrFitted
  <2> QED BY <2>8 DEF p
<1>8. n \in Nodes(u) /\ n \in Ancestors(u, n)
  BY <1>1, AncestorFacts
<1> QED BY <1>1, <1>5, <1>6, <1>7, <1>8, ClimbOn

(* A kid that is two higher than the other one has just grown, by a kid of *)
(* its own towards the key.                                                *)
LEMMA TwoHigher ==
  ASSUME NEW t, IsTree(t), Linked(t), NEW n \in Nodes(t), NEW key, NEW s \in Sides,
         NEW d, d = Kid(t, n, s), d # NULL, NEW o, o = Kid(t, n, Other(s)),
         FitsOrFitted(t, n, s, key), get_height(t, d) - get_height(t, o) \notin -1 .. 1
  PROVE  /\ get_height(t, n) = get_height(t, o) + 2 /\ get_height(t, d) = get_height(t, o) + 2
         /\ \E b \in Sides :
              LET g == Kid(t, d, b)
              IN  /\ g # NULL /\ Toward(b, key, Key(t, d))
                  /\ get_height(t, g) = get_height(t, o) + 1
                  /\ get_height(t, Kid(t, d, Other(b))) = get_height(t, o)
<1> DEFINE hn == get_height(t, n)
           hd == get_height(t, d)
           ho == get_height(t, o)
<1>1. hn \in Nat /\ hd \in Nat /\ ho \in Nat
  <2>1. d \in Nodes(t) \cup {NULL} /\ o \in Nodes(t) \cup {NULL}
    BY SideFacts DEF Linked
  <2> QED BY <2>1, HeightTypes
<1>2. Fits(hn, hd, ho) \/ (Grown(t, d, key) /\ Fits(hn, hd - 1, ho))
  BY DEF FitsOrFitted
<1>3. hd - ho \notin -1 .. 1
  OBVIOUS
<1>4. Grown(t, d, key)
      <=> \/ hd = 1
          \/ \E b \in Sides :
               /\ Kid(t, d, b) # NULL /\ Toward(b, key, Key(t, d))
               /\ hd = get_height(t, Kid(t, d, b)) + 1
               /\ get_height(t, Kid(t, d, b)) = get_height(t, Kid(t, d, Other(b))) + 1
  BY DEF Grown
<1> HIDE DEF hn, hd, ho
<1>5. Grown(t, d, key) /\ hd = ho + 2 /\ hn = ho + 2
  <2>1. ~Fits(hn, hd, ho)
    BY <1>3 DEF Fits
  <2>2. hn = MAX(hd - 1, ho) + 1 /\ hd - 1 - ho \in -1 .. 1
    BY <1>2, <2>1 DEF Fits
  <2>3. hd - ho = 2
    BY <1>1, <1>3, <2>2
  <2> QED BY <1>1, <1>2, <2>1, <2>2, <2>3 DEF MAX
<1>6. d \in Nodes(t)
  BY DEF Linked
<1>7. PICK b \in Sides :
        /\ Kid(t, d, b) # NULL /\ Toward(b, key, Key(t, d))
        /\ hd = get_height(t, Kid(t, d, b)) + 1
        /\ get_height(t, Kid(t, d, b)) = get_height(t, Kid(t, d, Other(b))) + 1
  BY <1>1, <1>4, <1>5
<1>8. get_height(t, Kid(t, d, b)) \in Nat /\ get_height(t, Kid(t, d, Other(b))) \in Nat
  <2>1. Kid(t, d, b) \in Nodes(t) \cup {NULL} /\ Kid(t, d, Other(b)) \in Nodes(t) \cup {NULL}
    BY <1>6, SideFacts DEF Linked
  <2> QED BY <2>1, HeightTypes
<1>9. get_height(t, Kid(t, d, b)) = ho + 1 /\ get_height(t, Kid(t, d, Other(b))) = ho
  BY <1>1, <1>5, <1>7, <1>8
<1> QED BY <1>5, <1>7, <1>9 DEF hn, hd, ho

(* update_height changes one height.                                       *)
LEMMA UpdateHeightFacts ==
  ASSUME NEW t, IsTree(t), Linked(t), NEW n \in Nodes(t), NEW u, u = update_height(t, n),
         NEW s \in Sides
  PROVE  /\ get_height(u, n) = MAX(get_height(t, Kid(t, n, s)), get_height(t, Kid(t, n, Other(s)))) + 1
         /\ \A m \in (Nodes(t) \cup {NULL}) \ {n} : get_height(u, m) = get_height(t, m)
<1>1. \A m \in Nodes(t) : m # NULL
  BY FieldTypes
<1>2. \A m \in Nodes(t) :
        u.node[m].subtree_height =
          IF m = n THEN kids_height(t, t.node[n].left_kid, t.node[n].right_kid)
          ELSE t.node[m].subtree_height
  BY UpdateHeightKeepsShape
<1>3. \A m \in (Nodes(t) \cup {NULL}) \ {n} : get_height(u, m) = get_height(t, m)
  BY <1>1, <1>2 DEF get_height
<1>4. get_height(u, n) = kids_height(t, Kid(t, n, "left_kid"), Kid(t, n, "right_kid"))
  BY <1>1, <1>2, FieldTypes DEF get_height
<1>5. get_height(u, n)
        = MAX(get_height(t, Kid(t, n, "left_kid")), get_height(t, Kid(t, n, "right_kid"))) + 1
  BY <1>4 DEF kids_height
<1>6. \A i, j \in Nat : MAX(i, j) = MAX(j, i)
  BY DEF MAX
<1>7. \A o \in Sides : get_height(t, Kid(t, n, o)) \in Nat
  <2>1. \A o \in Sides : Kid(t, n, o) \in Nodes(t) \cup {NULL}
    BY DEF Linked
  <2> QED BY <2>1, HeightTypes
<1>8. get_height(u, n) = MAX(get_height(t, Kid(t, n, s)), get_height(t, Kid(t, n, Other(s)))) + 1
  <2>1. CASE s = "left_kid"
    BY <1>5, <2>1, SideFacts
  <2>2. CASE s = "right_kid"
    BY <1>5, <1>6, <1>7, <2>2, SideFacts
  <2> QED BY <2>1, <2>2 DEF Sides
<1> QED BY <1>3, <1>8

(* Without a rotation the loop goes on at the parent.                      *)
LEMMA UpdateSettled ==
  ASSUME NEW t, IsTree(t), Linked(t), NEW bound, InOrder(t, bound), NEW n \in Nodes(t),
         NEW q \in Nodes(t), n \in Ancestors(t, q), NEW s \in Sides,
         Toward(s, Key(t, q), Key(t, n)), Kid(t, n, s) # NULL, FitsOrFitted(t, n, s, Key(t, q)),
         \A m \in Nodes(t) \ {n} : FitsAt(t, m),
         get_height(t, Kid(t, n, s)) - get_height(t, Kid(t, n, Other(s))) \in -1 .. 1
  PROVE  Settled(update_height(t, n), Parent(t, n), Key(t, q))
<1> DEFINE u == update_height(t, n)
           d == Kid(t, n, s)
           o == Kid(t, n, Other(s))
<1>1. IsTree(u) /\ SameShape(t, u)
  BY UpdateHeightKeepsShape
<1>2. /\ get_height(u, n) = MAX(get_height(t, d), get_height(t, o)) + 1
      /\ \A m \in (Nodes(t) \cup {NULL}) \ {n} : get_height(u, m) = get_height(t, m)
  BY UpdateHeightFacts
<1> HIDE DEF u
<1>3. /\ Nodes(u) = Nodes(t)
      /\ \A m \in Nodes(t) : Key(u, m) = Key(t, m) /\ Parent(u, m) = Parent(t, m)
                             /\ \A b \in Sides : Kid(u, m, b) = Kid(t, m, b)
  BY <1>1 DEF SameShape
<1>4. Linked(u) /\ InOrder(u, bound)
  BY <1>1, SameShapeKeeps
<1>5. n \in Ancestors(u, q)
  BY <1>3 DEF Ancestors, ParentClosed
<1>6. \A m \in Nodes(t), b \in Sides :
        /\ Kid(t, m, b) \in Nodes(t) \cup {NULL} /\ (Kid(t, m, b) = n => m = Parent(t, n))
        /\ get_height(t, Kid(t, m, b)) \in Nat /\ get_height(t, m) \in Nat
  <2>1. \A m \in Nodes(t), b \in Sides : Kid(t, m, b) \in Nodes(t) \cup {NULL}
    BY DEF Linked
  <2>2. n # NULL
    BY FieldTypes
  <2> QED BY <2>1, <2>2, HeightTypes DEF Linked
<1>7. Parent(t, n) # n
  <2>1. {n} \in SUBSET Nodes(t) /\ {n} # {}
    OBVIOUS
  <2>2. \E m \in {n} : Parent(t, m) \notin {n}
    BY <2>1 DEF Linked
  <2> QED BY <2>2
<1>8. d # n /\ o # n /\ Other(s) \in Sides
  BY <1>6, <1>7, SideFacts
<1>9. FitsAt(u, n)
  <2>1. Fits(get_height(u, n), get_height(u, d), get_height(u, o))
    BY <1>2, <1>6, <1>8 DEF Fits
  <2> QED BY <1>1, <1>3, <1>4, <1>8, <2>1, FitsEitherSide
<1>10. ASSUME NEW m \in Nodes(u) \ {Parent(t, n)}
       PROVE  FitsAt(u, m)
  <2>1. CASE m = n
    BY <1>9, <2>1
  <2>2. CASE m # n
    <3>1. \A b \in Sides : Kid(u, m, b) = Kid(t, m, b) /\ Kid(t, m, b) \in (Nodes(t) \cup {NULL}) \ {n}
      BY <1>3, <1>6
    <3>2. FitsAt(t, m)
      BY <1>3, <2>2
    <3> QED BY <1>2, <1>3, <2>2, <3>1, <3>2, SideFacts DEF FitsAt
  <2> QED BY <2>1, <2>2
<1>11. ASSUME NEW b \in Sides, Parent(t, n) # NULL, Kid(u, Parent(t, n), b) = n
       PROVE  FitsOrFitted(u, Parent(t, n), b, Key(u, q))
  <2> DEFINE p == Parent(t, n)
             c == Kid(t, p, Other(b))
  <2>1. p \in Nodes(t) /\ p # n /\ Other(b) \in Sides
    BY <1>7, <1>11, SideFacts DEF Linked
  <2>2. Kid(t, p, b) = n /\ c # n /\ c \in Nodes(t) \cup {NULL} /\ Kid(u, p, Other(b)) = c
    BY <1>3, <1>6, <1>11, <2>1, FieldTypes DEF Linked
  <2>3. Fits(get_height(t, p), get_height(t, n), get_height(t, c))
    BY <2>1, <2>2, FitsEitherSide
  <2>4. get_height(u, p) = get_height(t, p) /\ get_height(u, c) = get_height(t, c)
    BY <1>2, <2>1, <2>2
  <2> DEFINE hn == get_height(t, n)
             hd == get_height(t, d)
             ho == get_height(t, o)
  <2>5. hn \in Nat /\ hd \in Nat /\ ho \in Nat /\ hd - ho \in -1 .. 1 /\ get_height(u, n) = MAX(hd, ho) + 1
    BY <1>2, <1>6, <1>8
  <2>6. Fits(hn, hd, ho) \/ (Grown(t, d, Key(t, q)) /\ Fits(hn, hd - 1, ho))
    BY DEF FitsOrFitted
  <2> HIDE DEF hn, hd, ho
  <2>7. get_height(u, n) = hn \/ (get_height(u, n) = hn + 1 /\ get_height(u, n) = hd + 1 /\ hd = ho + 1)
    <3>1. CASE Fits(hn, hd, ho)
      BY <2>5, <3>1 DEF Fits
    <3>2. CASE hn = MAX(hd - 1, ho) + 1 /\ hd - 1 - ho \in -1 .. 1
      <4>1. hd = ho + 1 \/ hd = ho
        BY <2>5, <3>2
      <4>2. CASE hd = ho + 1
        BY <2>5, <3>2, <4>2 DEF MAX
      <4>3. CASE hd = ho
        BY <2>5, <3>2, <4>3 DEF MAX
      <4> QED BY <4>1, <4>2, <4>3
    <3> QED BY <2>6, <3>1, <3>2 DEF Fits
  <2>8. CASE get_height(u, n) = hn
    <3>1. Fits(get_height(u, p), get_height(u, n), get_height(u, c))
      BY <2>3, <2>4, <2>8 DEF hn
    <3> QED BY <2>2, <3>1, <1>11 DEF FitsOrFitted
  <2>9. CASE get_height(u, n) = hn + 1 /\ get_height(u, n) = hd + 1 /\ hd = ho + 1
    <3>1. get_height(u, n) - 1 = hn
      BY <2>5, <2>9
    <3>2. Fits(get_height(u, p), get_height(u, n) - 1, get_height(u, c))
      BY <2>3, <2>4, <3>1 DEF hn
    <3>3. get_height(u, d) = hd /\ get_height(u, o) = ho
      BY <1>2, <1>6, <1>8 DEF hd, ho
    <3>4. Kid(u, n, s) = d /\ Kid(u, n, Other(s)) = o /\ Key(u, n) = Key(t, n) /\ Key(u, q) = Key(t, q)
      BY <1>3, <1>8
    <3>5. Grown(u, n, Key(u, q))
      BY <2>9, <3>3, <3>4 DEF Grown
    <3> QED BY <2>2, <3>2, <3>5, <1>11 DEF FitsOrFitted
  <2> QED BY <2>7, <2>8, <2>9
<1>12. Parent(u, n) = Parent(t, n) /\ Key(u, q) = Key(t, q) /\ q \in Nodes(u)
  BY <1>3
<1>13. Settled(u, Parent(t, n), Key(u, q))
  BY <1>1, <1>4, <1>5, <1>10, <1>11, <1>12, ClimbOn
<1> QED BY <1>12, <1>13 DEF u

(* A kid is neither its parent nor the parent of that one.                 *)
LEMMA KidsBelow ==
  ASSUME NEW t, IsTree(t), Linked(t), NEW n \in Nodes(t), NEW s \in Sides
  PROVE  /\ Kid(t, n, s) \in Nodes(t) \cup {NULL} /\ Kid(t, n, s) # n /\ n # NULL
         /\ \A m \in Nodes(t), o \in Sides : Kid(t, m, o) = n => m # n /\ Kid(t, n, s) # m
         /\ \A m \in Nodes(t), o \in Sides :
              Kid(t, n, s) # NULL /\ Kid(t, m, o) = Kid(t, n, s) => m = n /\ o = s
<1> DEFINE c == Kid(t, n, s)
<1>1. c \in Nodes(t) \cup {NULL} /\ n # NULL /\ (c # NULL => Parent(t, c) = n)
  BY FieldTypes DEF Linked
<1>2. \A S \in SUBSET Nodes(t) : S # {} => \E m \in S : Parent(t, m) \notin S
  BY DEF Linked
<1>3. c # n
  <2> SUFFICES ASSUME c = n PROVE FALSE
    OBVIOUS
  <2>1. Parent(t, n) = n /\ {n} \in SUBSET Nodes(t)
    BY <1>1
  <2> QED BY <1>2, <2>1
<1>4. ASSUME NEW m \in Nodes(t), NEW o \in Sides, Kid(t, m, o) = n
      PROVE  m # n /\ c # m
  <2>1. Parent(t, n) = m
    <3>1. Kid(t, m, o) # NULL
      BY <1>1, <1>4
    <3>2. Parent(t, Kid(t, m, o)) = m
      BY <3>1 DEF Linked
    <3> QED BY <1>4, <3>2
  <2>2. m # n
    <3> SUFFICES ASSUME m = n PROVE FALSE
      OBVIOUS
    <3>1. Parent(t, n) = n /\ {n} \in SUBSET Nodes(t)
      BY <2>1
    <3> QED BY <1>2, <3>1
  <2>3. c # m
    <3> SUFFICES ASSUME c = m PROVE FALSE
      OBVIOUS
    <3>1. Parent(t, m) = n /\ {n, m} \in SUBSET Nodes(t)
      BY <1>1, FieldTypes
    <3> QED BY <1>2, <2>1, <3>1
  <2> QED BY <2>2, <2>3
<1>5. ASSUME NEW m \in Nodes(t), NEW o \in Sides, c # NULL, Kid(t, m, o) = c
      PROVE  m = n /\ o = s
  <2>1. m = n
    <3>1. Parent(t, Kid(t, m, o)) = m
      BY <1>5 DEF Linked
    <3> HIDE DEF c
    <3> QED BY <1>1, <1>5, <3>1
  <2>2. o = s \/ o = Other(s)
    BY SideFacts
  <2> QED BY <1>5, <2>1, <2>2 DEF Linked
<1> QED BY <1>1, <1>3, <1>4, <1>5

(* After a single rotation of a node that leaned to one side all nodes fit *)
(* their kids.                                                             *)
LEMMA SingleFits ==
  ASSUME NEW t, IsTree(t), Linked(t), NEW n \in Nodes(t), NEW up \in Sides,
         NEW d, d = Kid(t, n, up), d # NULL, NEW T2, T2 = Kid(t, d, Other(up)),
         NEW u, IsTree(u), Linked(u), Rotation(t, u, n, d, T2, up), NEW r \in Nat,
         get_height(t, n) = r + 2, get_height(t, Kid(t, n, Other(up))) = r,
         get_height(t, Kid(t, d, up)) = r + 1, get_height(t, T2) = r,
         \A m \in Nodes(t) : get_height(u, m) = IF m = d THEN r + 2 ELSE IF m = n THEN r + 1
                                               ELSE get_height(t, m),
         \A m \in Nodes(t) \ {n} : FitsAt(t, m)
  PROVE  \A m \in Nodes(u) : FitsAt(u, m)
<1> DEFINE g == Kid(t, d, up)
           o == Kid(t, n, Other(up))
<1>0. Other(up) \in Sides /\ Other(up) # up
  BY SideFacts
<1>1. d \in Nodes(t)
  BY DEF Linked
<1>2. /\ d # n /\ n # NULL
      /\ o \in (Nodes(t) \cup {NULL}) \ {n, d}
  BY <1>0, KidsBelow
<1>3. g \in (Nodes(t) \cup {NULL}) \ {n, d} /\ T2 \in (Nodes(t) \cup {NULL}) \ {n, d}
  BY <1>0, <1>1, KidsBelow
<1>4. /\ Nodes(u) = Nodes(t)
      /\ \A m \in Nodes(t), s \in Sides :
            Kid(u, m, s) = IF m = d /\ s = Other(up) THEN n
                           ELSE IF m = n /\ s = up THEN T2
                           ELSE IF Kid(t, m, s) = n THEN d ELSE Kid(t, m, s)
  BY DEF Rotation
<1>5. /\ Kid(u, d, up) = g /\ Kid(u, d, Other(up)) = n
      /\ Kid(u, n, up) = T2 /\ Kid(u, n, Other(up)) = o
  BY <1>0, <1>1, <1>2, <1>3, <1>4
<1>6. /\ get_height(u, d) = r + 2 /\ get_height(u, n) = r + 1
      /\ \A m \in (Nodes(t) \cup {NULL}) \ {n, d} : get_height(u, m) = get_height(t, m)
  BY <1>1, <1>2 DEF get_height
<1>7. get_height(u, g) = r + 1 /\ get_height(u, T2) = r /\ get_height(u, o) = r
  BY <1>2, <1>3, <1>6
<1> HIDE DEF g, o
<1>8. FitsAt(u, d)
  <2>1. Fits(r + 2, r + 1, r + 1)
    BY DEF Fits, MAX
  <2> QED BY <1>1, <1>4, <1>5, <1>6, <1>7, <2>1, FitsEitherSide
<1>9. FitsAt(u, n)
  <2>1. Fits(r + 1, r, r)
    BY DEF Fits, MAX
  <2> QED BY <1>4, <1>5, <1>6, <1>7, <2>1, FitsEitherSide
<1>10. ASSUME NEW m \in Nodes(t) \ {n, d}
       PROVE  FitsAt(u, m)
  <2>1. \A s \in Sides : Kid(t, m, s) # d /\ Kid(t, m, s) \in Nodes(t) \cup {NULL}
    BY KidsBelow
  <2>2. \A s \in Sides : Kid(u, m, s) = IF Kid(t, m, s) = n THEN d ELSE Kid(t, m, s)
    BY <1>4
  <2>3. \A s \in Sides : get_height(u, Kid(u, m, s)) = get_height(t, Kid(t, m, s))
    BY <1>6, <2>1, <2>2
  <2>4. get_height(u, m) = get_height(t, m) /\ FitsAt(t, m)
    BY <1>6
  <2> QED BY <2>3, <2>4, SideFacts DEF FitsAt
<1> QED BY <1>4, <1>8, <1>9, <1>10

(* After a double rotation of a node that leaned to one side all nodes fit *)
(* their kids.                                                             *)
LEMMA DoubleFits ==
  ASSUME NEW t, IsTree(t), Linked(t), NEW n \in Nodes(t), NEW up \in Sides,
         NEW d, d = Kid(t, n, up), d # NULL, NEW g, g = Kid(t, d, Other(up)), g # NULL,
         NEW u1, Rotation(t, u1, d, g, Kid(t, g, up), Other(up)),
         NEW u, IsTree(u), Linked(u), Rotation(u1, u, n, g, Kid(u1, g, Other(up)), up), NEW r \in Nat,
         get_height(t, n) = r + 2, get_height(t, Kid(t, n, Other(up))) = r,
         get_height(t, Kid(t, d, up)) = r, get_height(t, g) = r + 1,
         \A m \in Nodes(t) : get_height(u, m) = IF m = g THEN r + 2 ELSE IF m \in {n, d} THEN r + 1
                                               ELSE get_height(t, m),
         \A m \in Nodes(t) \ {n} : FitsAt(t, m)
  PROVE  \A m \in Nodes(u) : FitsAt(u, m)
<1> DEFINE a == Kid(t, d, up)
           o == Kid(t, n, Other(up))
           B == Kid(t, g, up)
           C == Kid(t, g, Other(up))
           Old == (Nodes(t) \cup {NULL}) \ {n, d, g}
<1>0. Other(up) \in Sides /\ Other(up) # up /\ Other(Other(up)) = up
  BY SideFacts
<1>1. d \in Nodes(t) /\ g \in Nodes(t)
  BY <1>0 DEF Linked
<1>2. /\ d # n /\ n # NULL /\ g # d /\ g # n
      /\ o \in Nodes(t) \cup {NULL} /\ o # n /\ o # d /\ o # g
  BY <1>0, <1>1, KidsBelow
<1>3. a \in Nodes(t) \cup {NULL} /\ a # n /\ a # d /\ a # g
  BY <1>0, <1>1, KidsBelow
<1>4. /\ B \in Nodes(t) \cup {NULL} /\ B # d /\ B # g /\ B # n
      /\ C \in Nodes(t) \cup {NULL} /\ C # d /\ C # g /\ C # n
  <2>1. \A s \in Sides : /\ Kid(t, g, s) \in Nodes(t) \cup {NULL}
                         /\ Kid(t, g, s) # d /\ Kid(t, g, s) # g
    BY <1>0, <1>1, KidsBelow
  <2>2. ASSUME NEW s \in Sides, Kid(t, g, s) = n PROVE FALSE
    <3>1. /\ Parent(t, n) = g /\ Parent(t, g) = d /\ Parent(t, d) = n
          /\ {n, d, g} \in SUBSET Nodes(t)
      BY <1>0, <1>1, <1>2, <2>2 DEF Linked
    <3>2. \E m \in {n, d, g} : Parent(t, m) \notin {n, d, g}
      BY <3>1 DEF Linked
    <3> QED BY <3>1, <3>2
  <2> QED BY <1>0, <2>1, <2>2
<1>5. /\ Nodes(u1) = Nodes(t)
      /\ \A m \in Nodes(t), s \in Sides :
            Kid(u1, m, s) = IF m = g /\ s = up THEN d
                            ELSE IF m = d /\ s = Other(up) THEN B
                            ELSE IF Kid(t, m, s) = d THEN g ELSE Kid(t, m, s)
  BY <1>0 DEF Rotation
<1>6. Kid(u1, g, Other(up)) = C
  BY <1>0, <1>1, <1>2, <1>4, <1>5
<1>7. /\ Nodes(u) = Nodes(t)
      /\ \A m \in Nodes(t), s \in Sides :
            Kid(u, m, s) = IF m = g /\ s = Other(up) THEN n
                           ELSE IF m = n /\ s = up THEN C
                           ELSE IF Kid(u1, m, s) = n THEN g ELSE Kid(u1, m, s)
  BY <1>5, <1>6 DEF Rotation
<1> HIDE DEF a, o, B, C
<1>8. Kid(t, n, up) = d /\ Kid(t, n, Other(up)) = o /\ Kid(t, d, up) = a
  BY DEF a, o
<1>9. /\ Kid(u, g, up) = d /\ Kid(u, g, Other(up)) = n
      /\ Kid(u, n, up) = C /\ Kid(u, n, Other(up)) = o
      /\ Kid(u, d, up) = a /\ Kid(u, d, Other(up)) = B
  BY <1>0, <1>1, <1>2, <1>3, <1>4, <1>5, <1>7, <1>8
<1>10. /\ get_height(u, g) = r + 2 /\ get_height(u, n) = r + 1 /\ get_height(u, d) = r + 1
       /\ \A m \in Old : get_height(u, m) = get_height(t, m)
  BY <1>1, <1>2 DEF get_height
<1>11. /\ get_height(u, a) = r /\ get_height(u, o) = r
       /\ get_height(u, B) = get_height(t, B) /\ get_height(u, C) = get_height(t, C)
  <2>1. a \in Old /\ o \in Old /\ B \in Old /\ C \in Old
    BY <1>2, <1>3, <1>4
  <2>2. get_height(t, a) = r /\ get_height(t, o) = r
    BY DEF a, o
  <2> HIDE DEF Old
  <2> QED BY <1>10, <2>1, <2>2
<1> DEFINE b == get_height(t, B)
           c == get_height(t, C)
<1>12. b \in Nat /\ c \in Nat /\ r + 1 = MAX(b, c) + 1 /\ b - c \in -1 .. 1
  <2>1. Fits(r + 1, b, c)
    BY <1>0, <1>1, <1>2, FitsEitherSide DEF B, C
  <2> QED BY <1>4, <2>1, HeightTypes DEF Fits
<1> HIDE DEF b, c
<1>13. FitsAt(u, g)
  <2>1. Fits(r + 2, r + 1, r + 1)
    BY DEF Fits, MAX
  <2> QED BY <1>1, <1>7, <1>9, <1>10, <2>1, FitsEitherSide
<1>14. FitsAt(u, n)
  <2>1. Fits(r + 1, c, r)
    BY <1>12 DEF Fits, MAX
  <2> QED BY <1>7, <1>9, <1>10, <1>11, <2>1, FitsEitherSide DEF c
<1>15. FitsAt(u, d)
  <2>1. Fits(r + 1, r, b)
    BY <1>12 DEF Fits, MAX
  <2> QED BY <1>1, <1>7, <1>9, <1>10, <1>11, <2>1, FitsEitherSide DEF b
<1>16. ASSUME NEW m \in Nodes(t) \ {n, d, g}
       PROVE  FitsAt(u, m)
  <2>1. \A s \in Sides : Kid(t, m, s) # d /\ Kid(t, m, s) # g /\ Kid(t, m, s) \in Nodes(t) \cup {NULL}
    BY <1>0, <1>1, KidsBelow
  <2>2. \A s \in Sides : Kid(u, m, s) = IF Kid(t, m, s) = n THEN g ELSE Kid(t, m, s)
    BY <1>5, <1>7, <2>1
  <2>3. \A s \in Sides : get_height(u, Kid(u, m, s)) = get_height(t, Kid(t, m, s))
    BY <1>10, <2>1, <2>2
  <2>4. get_height(u, m) = get_height(t, m) /\ FitsAt(t, m)
    BY <1>10
  <2> QED BY <2>3, <2>4, SideFacts DEF FitsAt
<1> QED BY <1>7, <1>13, <1>14, <1>15, <1>16

(* A rotation of a tree in which heights have changed.                     *)
LEMMA ShapeThenRotation ==
  ASSUME NEW t, NEW t1, SameShape(t, t1), t1.alive = t.alive, t1.tree_size = t.tree_size,
         NEW top \in Nodes(t), NEW kid, NEW T2, NEW up \in Sides, NEW u,
         Rotation(t1, u, top, kid, T2, up)
  PROVE  Rotation(t, u, top, kid, T2, up)
BY DEF SameShape, Rotation

(* After a rebalancing that leaves all nodes fitting the loop may go on.   *)
LEMMA AllFitGoesOn ==
  ASSUME NEW u, IsTree(u), Linked(u), NEW bound, InOrder(u, bound),
         NEW q \in Nodes(u), NEW x \in Ancestors(u, q), \A m \in Nodes(u) : FitsAt(u, m)
  PROVE  Settled(u, Parent(u, x), Key(u, q))
<1>1. Parent(u, x) \in Nodes(u) \cup {NULL} /\ x \in Nodes(u) /\ x # NULL
  BY FieldTypes DEF Linked, Ancestors
<1>2. ASSUME NEW s \in Sides, Parent(u, x) # NULL, Kid(u, Parent(u, x), s) = x
      PROVE  FitsOrFitted(u, Parent(u, x), s, Key(u, q))
  <2>1. FitsAt(u, Parent(u, x)) /\ Parent(u, x) \in Nodes(u)
    BY <1>1, <1>2
  <2> QED BY <2>1, FitsEitherSide DEF FitsOrFitted
<1> QED BY <1>2, ClimbOn

(* The rebalancing of a node whose left kid is two higher leaves all nodes *)
(* fitting.                                                                *)
LEMMA LeftLeftSettled ==
  ASSUME NEW t, IsTree(t), Linked(t), NEW bound, InOrder(t, bound), NEW n \in Nodes(t),
         NEW q \in Nodes(t), n \in Ancestors(t, q),
         NEW d, d = Kid(t, n, "left_kid"), d # NULL, NEW r \in Nat,
         get_height(t, n) = r + 2, get_height(t, Kid(t, n, "right_kid")) = r,
         get_height(t, Kid(t, d, "left_kid")) = r + 1, get_height(t, Kid(t, d, "right_kid")) = r,
         \A m \in Nodes(t) \ {n} : FitsAt(t, m),
         NEW t1, IsTree(t1), Linked(t1), InOrder(t1, bound), SameShape(t, t1), t1.alive = t.alive, t1.tree_size = t.tree_size,
         \A m \in (Nodes(t) \cup {NULL}) \ {n} : get_height(t1, m) = get_height(t, m),
         NEW link \in Links(t1), Deref(t1, link) = n
  PROVE  LET u == rotate_right(t1, link)
         IN  Settled(u, Parent(u, Deref(u, link)), Key(t, q))
<1> DEFINE u == rotate_right(t1, link)
           T2 == Kid(t, d, "right_kid")
           g  == Kid(t, d, "left_kid")
           o  == Kid(t, n, "right_kid")
<1>1. d \in Nodes(t) /\ n # NULL /\ d # n
  BY SideFacts, KidsBelow
<1>2. /\ Nodes(t1) = Nodes(t)
      /\ \A m \in Nodes(t), s \in Sides : Kid(t1, m, s) = Kid(t, m, s)
  BY DEF SameShape
<1>3. /\ Kid(t1, n, "left_kid") = d /\ Kid(t1, n, "right_kid") = o
      /\ Kid(t1, d, "left_kid") = g /\ Kid(t1, d, "right_kid") = T2
  BY <1>1, <1>2, SideFacts
<1>4. /\ Rearranged(t1, u) /\ Deref(u, link) = d /\ Rotation(t1, u, n, d, T2, "left_kid")
      /\ LET low == MAX(get_height(t1, T2), get_height(t1, o)) + 1
         IN  \A m \in Nodes(t1) :
               u.node[m].subtree_height = IF m = d THEN MAX(get_height(t1, g), low) + 1
                                          ELSE IF m = n THEN low ELSE t1.node[m].subtree_height
  BY <1>1, <1>3, RotateRightRearranges
<1> HIDE DEF u
<1>5. /\ g \in Nodes(t) \cup {NULL} /\ T2 \in Nodes(t) \cup {NULL} /\ o \in Nodes(t) \cup {NULL}
      /\ g # n /\ T2 # n /\ o # n
  BY <1>1, SideFacts, KidsBelow
<1>6. get_height(t1, g) = r + 1 /\ get_height(t1, T2) = r /\ get_height(t1, o) = r
  BY <1>5
<1>7. MAX(r, r) + 1 = r + 1 /\ MAX(r + 1, r + 1) + 1 = r + 2
  BY DEF MAX
<1>8. \A m \in Nodes(t) : u.node[m].subtree_height
        = IF m = d THEN r + 2 ELSE IF m = n THEN r + 1 ELSE t1.node[m].subtree_height
  BY <1>2, <1>4, <1>6, <1>7
<1>9. \A m \in Nodes(t) : get_height(u, m) = IF m = d THEN r + 2 ELSE IF m = n THEN r + 1
                                             ELSE get_height(t, m)
  BY <1>8, FieldTypes DEF get_height
<1>10. IsTree(u) /\ Linked(u) /\ Rotation(t, u, n, d, T2, "left_kid")
  BY <1>1, <1>4, SideFacts, ShapeThenRotation DEF Rearranged
<1>11. \A m \in Nodes(u) : FitsAt(u, m)
  BY <1>9, <1>10, SideFacts, SingleFits
<1>12. d \in Ancestors(u, q)
  BY <1>10, SideFacts, RotationKeepsBelow
<1>13. PICK b : InOrder(u, b)
  BY <1>4 DEF Rearranged
<1>14. q \in Nodes(u) /\ Key(u, q) = Key(t, q)
  BY <1>10 DEF Rotation
<1>15. Settled(u, Parent(u, d), Key(u, q))
  BY <1>10, <1>11, <1>12, <1>13, <1>14, AllFitGoesOn
<1> QED BY <1>4, <1>14, <1>15 DEF u

(* So does the one of a node whose left kid leans to the right.            *)
LEMMA LeftRightSettled ==
  ASSUME NEW t, IsTree(t), Linked(t), NEW bound, InOrder(t, bound), NEW n \in Nodes(t),
         NEW q \in Nodes(t), n \in Ancestors(t, q), Toward("left_kid", Key(t, q), Key(t, n)),
         NEW d, d = Kid(t, n, "left_kid"), d # NULL, NEW g, g = Kid(t, d, "right_kid"), g # NULL,
         NEW r \in Nat,
         get_height(t, n) = r + 2, get_height(t, Kid(t, n, "right_kid")) = r,
         get_height(t, g) = r + 1, get_height(t, Kid(t, d, "left_kid")) = r,
         \A m \in Nodes(t) \ {n} : FitsAt(t, m),
         NEW t1, IsTree(t1), Linked(t1), InOrder(t1, bound), SameShape(t, t1), t1.alive = t.alive, t1.tree_size = t.tree_size,
         \A m \in (Nodes(t) \cup {NULL}) \ {n} : get_height(t1, m) = get_height(t, m)
  PROVE  LET link == get_node_ptr(t1, n)
             u == rotate_right(rotate_left(t1, <<n, "left_kid">>), link)
         IN  Settled(u, Parent(u, Deref(u, link)), Key(t, q))
<1> DEFINE u1 == rotate_left(t1, <<n, "left_kid">>)
           link == get_node_ptr(t1, n)
           u == rotate_right(u1, link)
           a == Kid(t, d, "left_kid")
           o == Kid(t, n, "right_kid")
           B == Kid(t, g, "left_kid")
           C == Kid(t, g, "right_kid")
<1>1. /\ d \in Nodes(t) /\ g \in Nodes(t) /\ n # NULL /\ d # n /\ g # n /\ g # d
      /\ "left_kid" \in Sides /\ "right_kid" \in Sides
      /\ Other("left_kid") = "right_kid" /\ Other("right_kid") = "left_kid"
  <2>1. d \in Nodes(t)
    BY SideFacts, KidsBelow
  <2> QED BY <2>1, SideFacts, KidsBelow
<1>2. /\ Nodes(t1) = Nodes(t)
      /\ \A m \in Nodes(t), s \in Sides : Kid(t1, m, s) = Kid(t, m, s)
  BY DEF SameShape
<1>3. /\ Kid(t1, n, "left_kid") = d /\ Kid(t1, n, "right_kid") = o
      /\ Kid(t1, d, "left_kid") = a /\ Kid(t1, d, "right_kid") = g
      /\ Kid(t1, g, "left_kid") = B /\ Kid(t1, g, "right_kid") = C
  BY <1>1, <1>2
<1>4. <<n, "left_kid">> \in Links(t1) /\ Deref(t1, <<n, "left_kid">>) = d
  BY <1>1, <1>2, <1>3, KidLink
<1>5. /\ Rearranged(t1, u1) /\ Rotation(t1, u1, d, g, B, "right_kid")
      /\ LET low == MAX(get_height(t1, a), get_height(t1, B)) + 1
         IN  \A m \in Nodes(t1) \ {g} :
               u1.node[m].subtree_height = IF m = d THEN low ELSE t1.node[m].subtree_height
  BY <1>1, <1>3, <1>4, RotateLeftRearranges
<1> HIDE DEF u1
<1>6. Rotation(t, u1, d, g, B, "right_kid") /\ IsTree(u1) /\ Linked(u1)
  BY <1>1, <1>5, ShapeThenRotation DEF Rearranged
<1>7. /\ link \in Links(u1) /\ Deref(u1, link) = n /\ Kid(u1, n, "left_kid") = g
  BY <1>1, <1>2, <1>3, <1>5, <1>6, InnerRotation
<1> HIDE DEF link
<1>8. PICK b1 : InOrder(u1, b1)
  BY <1>5 DEF Rearranged
<1>9. /\ a \in Nodes(t) \cup {NULL} /\ a # n /\ a # d /\ a # g
      /\ o \in Nodes(t) \cup {NULL} /\ o # n /\ o # d /\ o # g
      /\ B \in Nodes(t) \cup {NULL} /\ B # d /\ B # g /\ B # n
      /\ C \in Nodes(t) \cup {NULL} /\ C # d /\ C # g /\ C # n
  <2>1. /\ a \in Nodes(t) \cup {NULL} /\ a # n /\ a # d /\ a # g
        /\ o \in Nodes(t) \cup {NULL} /\ o # n /\ o # d /\ o # g
    BY <1>1, KidsBelow
  <2>2. ASSUME NEW s \in Sides
        PROVE  Kid(t, g, s) \in Nodes(t) \cup {NULL} /\ Kid(t, g, s) # g /\ Kid(t, g, s) # d
    BY <1>1, KidsBelow
  <2>3. ASSUME NEW s \in Sides, Kid(t, g, s) = n PROVE FALSE
    <3>1. /\ Parent(t, n) = g /\ Parent(t, g) = d /\ Parent(t, d) = n
          /\ {n, d, g} \in SUBSET Nodes(t)
      BY <1>1, <2>3 DEF Linked
    <3>2. \E m \in {n, d, g} : Parent(t, m) \notin {n, d, g}
      BY <3>1 DEF Linked
    <3> QED BY <3>1, <3>2
  <2> QED BY <1>1, <2>1, <2>2, <2>3
<1>10. /\ Kid(u1, g, "left_kid") = d /\ Kid(u1, g, "right_kid") = C /\ Kid(u1, n, "right_kid") = o
  <2> HIDE DEF a, o, B, C
  <2>1. /\ Kid(t, g, "right_kid") = C /\ Kid(t, n, "right_kid") = o
    BY DEF C, o
  <2>2. \A m \in Nodes(t), s \in Sides :
            Kid(u1, m, s) = IF m = g /\ s = "left_kid" THEN d
                            ELSE IF m = d /\ s = "right_kid" THEN B
                            ELSE IF Kid(t, m, s) = d THEN g ELSE Kid(t, m, s)
    BY <1>1, <1>6 DEF Rotation
  <2> QED BY <1>1, <1>9, <2>1, <2>2
<1>11. /\ Rearranged(u1, u) /\ Deref(u, link) = g /\ Rotation(u1, u, n, g, C, "left_kid")
       /\ LET low == MAX(get_height(u1, C), get_height(u1, o)) + 1
          IN  \A m \in Nodes(u1) :
                u.node[m].subtree_height = IF m = g THEN MAX(get_height(u1, d), low) + 1
                                           ELSE IF m = n THEN low ELSE u1.node[m].subtree_height
  <2> HIDE DEF a, o, B, C
  <2> QED BY <1>1, <1>6, <1>7, <1>8, <1>10, RotateRightRearranges
<1> HIDE DEF u
<1>12. Nodes(u1) = Nodes(t)
  BY <1>6 DEF Rotation
<1> DEFINE hb == get_height(t, B)
           hc == get_height(t, C)
<1>13. /\ hb \in Nat /\ hc \in Nat /\ MAX(r, hb) + 1 = r + 1 /\ MAX(hc, r) + 1 = r + 1
       /\ MAX(r + 1, r + 1) + 1 = r + 2
  <2>1. Fits(r + 1, hb, hc)
    BY <1>1, FitsEitherSide
  <2>2. hb \in Nat /\ hc \in Nat
    BY <1>9, HeightTypes
  <2> HIDE DEF hb, hc
  <2> QED BY <2>1, <2>2 DEF Fits, MAX
<1>14. /\ get_height(t1, a) = r /\ get_height(t1, B) = hb
       /\ \A m \in Nodes(t) \ {n} : t1.node[m].subtree_height = get_height(t, m)
  BY <1>9, FieldTypes DEF get_height
<1>15. \A m \in Nodes(t) \ {g} : u1.node[m].subtree_height
          = IF m = d THEN r + 1 ELSE t1.node[m].subtree_height
  <2> HIDE DEF a, B, hb
  <2> QED BY <1>2, <1>5, <1>13, <1>14
<1>16. \A m \in (Nodes(t) \cup {NULL}) \ {g, n} : get_height(u1, m)
          = IF m = d THEN r + 1 ELSE get_height(t, m)
  BY <1>1, <1>14, <1>15, FieldTypes DEF get_height
<1>17. get_height(u1, C) = hc /\ get_height(u1, o) = r /\ get_height(u1, d) = r + 1
  <2> HIDE DEF C
  <2>1. C \in (Nodes(t) \cup {NULL}) \ {g, n} /\ C # d
        /\ o \in (Nodes(t) \cup {NULL}) \ {g, n} /\ o # d /\ d \in (Nodes(t) \cup {NULL}) \ {g, n}
    BY <1>1, <1>9
  <2> QED BY <1>16, <2>1
<1>18. \A m \in Nodes(t) : u.node[m].subtree_height
          = IF m = g THEN r + 2 ELSE IF m = n THEN r + 1 ELSE u1.node[m].subtree_height
  <2> HIDE DEF C, o, hc
  <2> QED BY <1>11, <1>12, <1>13, <1>17
<1>19. \A m \in Nodes(t) : get_height(u, m) = IF m = g THEN r + 2 ELSE IF m \in {n, d} THEN r + 1
                                              ELSE get_height(t, m)
  <2>1. \A m \in Nodes(t) : m # NULL
    BY FieldTypes
  <2> QED BY <1>1, <1>14, <1>15, <1>18, <2>1 DEF get_height
<1>20. IsTree(u) /\ Linked(u) /\ Nodes(u) = Nodes(t)
  BY <1>11, <1>12 DEF Rearranged
<1>21. \A m \in Nodes(u) : FitsAt(u, m)
  BY <1>1, <1>6, <1>10, <1>11, <1>19, <1>20, DoubleFits
<1>22. g \in Ancestors(u, q)
  <2>1. Within(t, bound, n, Key(t, q)) /\ Key(t, q) \in Int
    BY WithinAreAncestors, FieldTypes
  <2>2. Within(t, bound, d, Key(t, q))
    BY <1>1, <2>1, WithinKid
  <2>3. d \in Ancestors(t, q)
    BY <1>1, <2>2, WithinAreAncestors
  <2>4. g \in Ancestors(u1, q)
    BY <1>1, <1>6, <2>3, RotationKeepsBelow
  <2>5. Parent(u1, g) = n /\ g \in Nodes(u1) /\ q \in Nodes(u1) /\ n \in Nodes(u1)
    BY <1>1, <1>6, <1>7, <1>12 DEF Linked
  <2>6. n \in Ancestors(u1, q)
    BY <1>1, <1>6, <2>4, <2>5, AncestorFacts DEF ParentClosed
  <2> QED BY <1>1, <1>6, <1>7, <1>10, <1>11, <2>5, <2>6, RotationKeepsBelow
<1>23. PICK b : InOrder(u, b)
  BY <1>11 DEF Rearranged
<1>24. q \in Nodes(u) /\ Key(u, q) = Key(t, q)
  BY <1>6, <1>11, <1>12 DEF Rotation
<1>25. Settled(u, Parent(u, g), Key(u, q))
  BY <1>20, <1>21, <1>22, <1>23, <1>24, AllFitGoesOn
<1> QED BY <1>11, <1>24, <1>25 DEF u, u1, link

(* One iteration of the loop passes no null pointer to a rotation, and the *)
(* loop may go on, unless it ends in _rotate_left.                         *)
LEMMA IterationSettles ==
  ASSUME NEW t, IsTree(t), Linked(t), NEW bound, InOrder(t, bound), NEW n \in Nodes(t), NEW key,
         Pending(t, n, key), NEW t1, t1 = update_height(t, n),
         NEW which, which = RebalanceCase(t1, n, key)
  PROVE  /\ ~rotates_null(t1, n, which)
         /\ which \notin {"right-right", "right-left"} =>
              LET link == get_node_ptr(t, n)
                  u == rebalance(t1, link, which)
              IN  Settled(u, Parent(u, Deref(u, link)), key)
<1> DEFINE L == Kid(t, n, "left_kid")
           R == Kid(t, n, "right_kid")
           link == get_node_ptr(t, n)
<1>1. PICK q \in Nodes(t), s \in Sides :
        /\ Key(t, q) = key /\ n \in Ancestors(t, q) /\ Toward(s, key, Key(t, n))
        /\ Kid(t, n, s) # NULL /\ FitsOrFitted(t, n, s, key)
  BY DEF Pending
<1>2. \A m \in Nodes(t) \ {n} : FitsAt(t, m)
  BY DEF Pending
<1>3. /\ IsTree(t1) /\ SameShape(t, t1) /\ t1.alive = t.alive /\ t1.tree_size = t.tree_size
      /\ \A m \in (Nodes(t) \cup {NULL}) \ {n} : get_height(t1, m) = get_height(t, m)
  BY SideFacts, UpdateHeightKeepsShape, UpdateHeightFacts
<1>4. /\ Linked(t1) /\ InOrder(t1, bound) /\ Links(t1) = Links(t)
      /\ \A l \in Links(t) : Deref(t1, l) = Deref(t, l)
      /\ get_node_ptr(t1, n) = link
  BY <1>3, SameShapeKeeps
<1>5. link \in Links(t) /\ Deref(t, link) = n /\ n # NULL
  BY LinkFacts, FieldTypes
<1> HIDE DEF link
<1>6. /\ "left_kid" \in Sides /\ "right_kid" \in Sides
      /\ Other("left_kid") = "right_kid" /\ Other("right_kid") = "left_kid"
  BY SideFacts
<1>7. /\ L \in Nodes(t) \cup {NULL} /\ R \in Nodes(t) \cup {NULL} /\ L # n /\ R # n
  BY <1>6, KidsBelow
<1>8. /\ Nodes(t1) = Nodes(t)
      /\ \A m \in Nodes(t) : Key(t1, m) = Key(t, m) /\ Parent(t1, m) = Parent(t, m)
                             /\ \A b \in Sides : Kid(t1, m, b) = Kid(t, m, b)
  BY <1>3 DEF SameShape
<1>9. /\ \A m \in Nodes(t) : t1.node[m].left_kid = Kid(t, m, "left_kid") /\ t1.node[m].key = Key(t, m)
                             /\ t1.node[m].right_kid = Kid(t, m, "right_kid")
      /\ t1.node[n].left_kid = L /\ t1.node[n].right_kid = R
  BY <1>3, <1>6, <1>8, FieldTypes DEF Key
<1> DEFINE hl == get_height(t, L)
           hr == get_height(t, R)
<1>10. hl \in Nat /\ hr \in Nat /\ get_balance(t1, n) = hl - hr
  BY <1>3, <1>7, <1>9, HeightTypes DEF get_balance
<1>11. which = CASE hl - hr > 1 /\ key < t1.node[L].key  -> "left-left"
                 [] hl - hr < -1 /\ key > t1.node[R].key -> "right-right"
                 [] hl - hr > 1 /\ key > t1.node[L].key  -> "left-right"
                 [] hl - hr < -1 /\ key < t1.node[R].key -> "right-left"
                 [] OTHER                                -> "balanced"
  BY <1>9, <1>10 DEF RebalanceCase
<1>12. key \in Int
  BY <1>1, FieldTypes
<1>13. CASE hl - hr \in -1 .. 1
  <2>1. which = "balanced"
    <3> HIDE DEF hl, hr
    <3>1. ~(hl - hr > 1) /\ ~(hl - hr < -1)
      BY <1>10, <1>13
    <3> QED BY <1>11, <3>1
  <2>2. ~rotates_null(t1, n, which) /\ rebalance(t1, link, which) = t1
    BY <2>1 DEF rotates_null, rebalance
  <2>3. get_height(t, Kid(t, n, s)) - get_height(t, Kid(t, n, Other(s))) \in -1 .. 1
    <3>1. CASE s = "left_kid"
      BY <1>6, <1>13, <3>1
    <3>2. CASE s = "right_kid"
      <4>1. hr - hl \in -1 .. 1
        <5> HIDE DEF hl, hr
        <5> QED BY <1>10, <1>13
      <4> QED BY <1>6, <3>2, <4>1
    <3> QED BY <3>1, <3>2 DEF Sides
  <2>4. Settled(t1, Parent(t, n), key)
    BY <1>1, <1>2, <2>3, UpdateSettled
  <2>5. Parent(t1, Deref(t1, link)) = Parent(t, n)
    BY <1>4, <1>5, <1>8
  <2> QED BY <2>2, <2>4, <2>5 DEF link
<1>14. CASE hl - hr \notin -1 .. 1
  <2> DEFINE d == Kid(t, n, s)
             r == get_height(t, Kid(t, n, Other(s)))
  <2>1. d \in Nodes(t) /\ r \in Nat /\ Kid(t, n, Other(s)) \in Nodes(t) \cup {NULL}
    <3>1. d \in Nodes(t) /\ Kid(t, n, Other(s)) \in Nodes(t) \cup {NULL}
      BY <1>1, SideFacts, KidsBelow
    <3> QED BY <3>1, HeightTypes
  <2>2. get_height(t, d) - r \notin -1 .. 1
    <3>1. CASE s = "left_kid"
      BY <1>6, <1>14, <3>1
    <3>2. CASE s = "right_kid"
      <4>1. hr - hl \notin -1 .. 1
        <5> HIDE DEF hl, hr
        <5> QED BY <1>10, <1>14
      <4> QED BY <1>6, <3>2, <4>1
    <3> QED BY <3>1, <3>2 DEF Sides
  <2>3. /\ get_height(t, n) = r + 2 /\ get_height(t, d) = r + 2
        /\ \E b \in Sides :
             LET g == Kid(t, d, b)
             IN  /\ g # NULL /\ Toward(b, key, Key(t, d))
                 /\ get_height(t, g) = r + 1 /\ get_height(t, Kid(t, d, Other(b))) = r
    BY <1>1, <2>2, TwoHigher
  <2>4. PICK b \in Sides :
          /\ Kid(t, d, b) # NULL /\ Toward(b, key, Key(t, d))
          /\ get_height(t, Kid(t, d, b)) = r + 1 /\ get_height(t, Kid(t, d, Other(b))) = r
    BY <2>3
  <2>5. t1.node[d].key = Key(t, d) /\ Key(t, d) \in Int
    BY <1>9, <2>1, FieldTypes
  <2>6. CASE s = "left_kid"
    <3>1. d = L /\ hl - hr = 2 /\ r = hr
      <4>1. d = L /\ Kid(t, n, Other(s)) = R
        BY <1>6, <2>6
      <4>2. r = hr /\ hl = hr + 2
        BY <2>3, <4>1
      <4> HIDE DEF hl, hr, d, r
      <4> QED BY <1>10, <4>1, <4>2
    <3>2. CASE b = "left_kid"
      <4>1. key < t1.node[L].key /\ hl - hr > 1
        BY <1>12, <2>4, <2>5, <3>1, <3>2 DEF Toward
      <4>2. which = "left-left"
        <5> DEFINE k == t1.node[L].key
                   D == hl - hr
        <5>1. k \in Int
          BY <2>5, <3>1
        <5>2. D = 2 /\ key < k
          BY <3>1, <4>1
        <5> HIDE DEF k, D
        <5>3. ~(key > k) /\ D > 1 /\ ~(D < -1)
          BY <1>12, <5>1, <5>2
        <5> QED BY <1>11, <5>2, <5>3 DEF k, D
      <4>3. ~rotates_null(t1, n, which) /\ rebalance(t1, link, which) = rotate_right(t1, link)
        BY <4>2 DEF rotates_null, rebalance
      <4>4. /\ get_height(t, Kid(t, d, "left_kid")) = r + 1 /\ get_height(t, Kid(t, d, "right_kid")) = r
            /\ get_height(t, Kid(t, n, "right_kid")) = r
        BY <1>6, <2>4, <2>6, <3>2
      <4>5. d = Kid(t, n, "left_kid") /\ d # NULL /\ link \in Links(t1) /\ Deref(t1, link) = n
        BY <1>1, <1>4, <1>5, <2>6
      <4> DEFINE u == rotate_right(t1, link)
      <4> HIDE DEF d, r
      <4>6. Settled(u, Parent(u, Deref(u, link)), Key(t, q))
        BY <1>1, <1>2, <1>3, <1>4, <2>1, <2>3, <4>4, <4>5, LeftLeftSettled
      <4> QED BY <1>1, <4>3, <4>6 DEF link
    <3>3. CASE b = "right_kid"
      <4>1. key > t1.node[L].key /\ hl - hr > 1
        BY <1>12, <2>4, <2>5, <3>1, <3>3 DEF Toward
      <4>2. which = "left-right"
        <5> DEFINE k == t1.node[L].key
                   D == hl - hr
        <5>1. k \in Int
          BY <2>5, <3>1
        <5>2. D = 2 /\ key > k
          BY <3>1, <4>1
        <5> HIDE DEF k, D
        <5>3. ~(key < k) /\ D > 1 /\ ~(D < -1)
          BY <1>12, <5>1, <5>2
        <5> QED BY <1>11, <5>2, <5>3 DEF k, D
      <4>3. ~rotates_null(t1, n, which)
        BY <1>9, <2>1, <2>4, <3>1, <3>3, <4>2 DEF rotates_null
      <4>4. rebalance(t1, link, which) = rotate_right(rotate_left(t1, <<n, "left_kid">>), link)
        BY <1>4, <1>5, <4>2 DEF rebalance
      <4>5. /\ get_height(t, Kid(t, d, "right_kid")) = r + 1 /\ get_height(t, Kid(t, d, "left_kid")) = r
            /\ get_height(t, Kid(t, n, "right_kid")) = r /\ Kid(t, d, "right_kid") # NULL
        BY <1>6, <2>4, <2>6, <3>3
      <4>6. d = Kid(t, n, "left_kid") /\ d # NULL /\ Toward("left_kid", Key(t, q), Key(t, n))
        BY <1>1, <2>6
      <4> DEFINE u == rotate_right(rotate_left(t1, <<n, "left_kid">>), link)
      <4> HIDE DEF d, r
      <4>7. Settled(u, Parent(u, Deref(u, link)), Key(t, q))
        BY <1>1, <1>2, <1>3, <1>4, <2>1, <2>3, <4>5, <4>6, LeftRightSettled
      <4> QED BY <1>1, <4>3, <4>4, <4>7 DEF link
    <3> QED BY <3>2, <3>3 DEF Sides
  <2>7. CASE s = "right_kid"
    <3>1. d = R /\ hl - hr = -2
      <4>1. d = R /\ Kid(t, n, Other(s)) = L
        BY <1>6, <2>7
      <4>2. r = hl /\ hr = hl + 2
        BY <2>3, <4>1
      <4> HIDE DEF hl, hr, d, r
      <4> QED BY <1>10, <4>1, <4>2
    <3>2. CASE b = "right_kid"
      <4>1. key > t1.node[R].key /\ hl - hr < -1
        BY <1>12, <2>4, <2>5, <3>1, <3>2 DEF Toward
      <4>2. which = "right-right"
        <5> DEFINE k == t1.node[R].key
                   D == hl - hr
        <5>1. k \in Int
          BY <2>5, <3>1
        <5>2. D = -2 /\ key > k
          BY <3>1, <4>1
        <5> HIDE DEF k, D
        <5>3. ~(key < k) /\ D < -1 /\ ~(D > 1)
          BY <1>12, <5>1, <5>2
        <5> QED BY <1>11, <5>2, <5>3 DEF k, D
      <4> QED BY <4>2 DEF rotates_null
    <3>3. CASE b = "left_kid"
      <4>1. key < t1.node[R].key /\ hl - hr < -1
        BY <1>12, <2>4, <2>5, <3>1, <3>3 DEF Toward
      <4>2. which = "right-left"
        <5> DEFINE k == t1.node[R].key
                   D == hl - hr
        <5>1. k \in Int
          BY <2>5, <3>1
        <5>2. D = -2 /\ key < k
          BY <3>1, <4>1
        <5> HIDE DEF k, D
        <5>3. ~(key > k) /\ D < -1 /\ ~(D > 1)
          BY <1>12, <5>1, <5>2
        <5> QED BY <1>11, <5>2, <5>3 DEF k, D
      <4>3. ~rotates_null(t1, n, which)
        BY <1>9, <2>1, <2>4, <3>1, <3>3, <4>2 DEF rotates_null
      <4> QED BY <4>2, <4>3
    <3> QED BY <3>2, <3>3 DEF Sides
  <2> QED BY <2>6, <2>7 DEF Sides
<1> QED BY <1>13, <1>14

-----------------------------------------------------------------------------
(* The invariant of heights.                                               *)

(* The heights fit initially.                                              *)
LEMMA InitHeights == Init => HeightInv
BY DEF Init, NoTree, EmptyFn, Call, HeightInv, Settled, Nodes

(* Nothing fits badly in a tree without nodes.                             *)
LEMMA NoNodesHeights ==
  ASSUME Nodes(tree') = {}, call'.node = NULL, ~crashed'
  PROVE  HeightInv'
BY DEF HeightInv, Settled

(* Every step keeps the heights fitting.                                   *)
LEMMA NextKeepsHeights == TreeInv /\ HeightInv /\ [Next]_vars => HeightInv'
<1> SUFFICES ASSUME TreeInv, HeightInv, [Next]_vars PROVE HeightInv'
  OBVIOUS
<1>1. CASE new
  <2>1. call'.node = NULL /\ ~crashed'
    BY <1>1 DEF new, Call
  <2> QED BY <1>1, <2>1, NewKeepsInv, NoNodesHeights
<1>2. ASSUME NEW key \in Keys, insert_existing(key) \/ insert_fails(key)
      PROVE  HeightInv'
  <2>1. tree' = tree
    BY <1>2, NothingToDoKeepsInv
  <2> QED BY <1>2, <2>1
        DEF insert_existing, insert_fails, Callable, Returned, Call, HeightInv, Settled
<1>3. ASSUME NEW key \in Keys, insert_new(key)
      PROVE  HeightInv'
  <2> SUFFICES ASSUME ~tilted' PROVE ~crashed' /\ Settled(tree', call'.node, call'.key)
    BY DEF HeightInv
  <2>1. ~tilted /\ ~crashed' /\ call.node = NULL
    BY <1>3 DEF insert_new, Callable, Returned
  <2>2. \A m \in Nodes(tree) : FitsAt(tree, m)
    BY <2>1 DEF HeightInv, Settled
  <2>3. TreeInv' /\ call'.key = key
    BY <1>3, InsertNewKeepsInv
  <2>4. PICK n \in Cells \ Nodes(tree), link \in Links(tree) :
          /\ tree'.node[n].subtree_height = 1
          /\ \A m \in Nodes(tree) : tree'.node[m].subtree_height = tree.node[m].subtree_height
          /\ Insertion(tree, tree', link, n, key) /\ call'.node = link[1]
          /\ Deref(tree, link) = NULL
    BY <1>3, InsertNewKeepsInv
  <2>5. IsTree(tree) /\ Linked(tree) /\ IsTree(tree') /\ Linked(tree')
    BY <2>3 DEF TreeInv, TreeInOrder
  <2>6. PICK b : InOrder(tree', b)
    BY <2>3 DEF TreeInv, TreeInOrder
  <2>7. Settled(tree', link[1], key)
    BY <2>2, <2>4, <2>5, <2>6, InsertionSettled
  <2> QED BY <2>1, <2>3, <2>4, <2>7
<1>4. ASSUME NEW key \in Keys, erase(key)
      PROVE  HeightInv'
  <2>1. CASE find(tree, key) = NULL
    BY <1>4, <2>1 DEF erase, Callable, Returned, Call, HeightInv, Settled
  <2>2. CASE find(tree, key) # NULL
    <3>1. tilted' = TRUE
      BY <1>4, <2>2 DEF erase
    <3> QED BY <3>1 DEF HeightInv
  <2> QED BY <2>1, <2>2
<1>5. CASE climb
  <2> SUFFICES ASSUME ~tilted' PROVE ~crashed' /\ Settled(tree', call'.node, call'.key)
    BY DEF HeightInv
  <2> DEFINE n == call.node
             ptr == get_node_ptr(tree, n)
             t1 == update_height(tree, n)
             which == RebalanceCase(t1, n, call.key)
  <2>1. IF rotates_null(t1, n, which)
        THEN crashed' = TRUE /\ UNCHANGED <<tree, call, tilted>>
        ELSE /\ tree' = rebalance(t1, ptr, which)
             /\ call' = [call EXCEPT !.node = tree'.node[Deref(tree', ptr)].parent]
             /\ tilted' = (tilted \/ which \in {"right-right", "right-left"})
             /\ UNCHANGED crashed
    BY <1>5 DEF climb
  <2>2. IsTree(tree) /\ Linked(tree) /\ n \in Nodes(tree) /\ n # NULL
    BY <1>5, FieldTypes DEF TreeInv, TreeInOrder, CallTyped, climb, Returned
  <2>3. PICK bound : InOrder(tree, bound)
    BY DEF TreeInv, TreeInOrder
  <2> HIDE DEF t1, ptr, which
  <2>4. ~tilted
    BY <2>1
  <2>5. ~crashed /\ Pending(tree, n, call.key)
    BY <2>2, <2>4 DEF HeightInv, Settled
  <2>6. /\ ~rotates_null(t1, n, which)
        /\ which \notin {"right-right", "right-left"} =>
             LET u == rebalance(t1, ptr, which)
             IN  Settled(u, Parent(u, Deref(u, ptr)), call.key)
    BY <2>2, <2>3, <2>5, IterationSettles DEF t1, ptr, which
  <2>7. Settled(tree', Parent(tree', Deref(tree', ptr)), call.key)
    BY <2>1, <2>6
  <2> DEFINE p == Parent(tree', Deref(tree', ptr))
  <2>8. call' = [call EXCEPT !.node = p]
    BY <2>1, <2>6 DEF Parent
  <2> HIDE DEF p
  <2>9. call'.node = p /\ call'.key = call.key
    BY <2>8 DEF TreeInv, CallTyped
  <2> QED BY <2>1, <2>5, <2>6, <2>7, <2>9 DEF p
<1>6. CASE clear \/ free
  <2>1. call'.node = NULL /\ ~crashed'
    BY <1>6 DEF clear, free, Callable, Call
  <2> QED BY <1>6, <2>1, ClearKeepsInv, NoNodesHeights
<1>7. CASE UNCHANGED vars
  BY <1>7 DEF vars, HeightInv
<1> QED BY <1>1, <1>2, <1>3, <1>4, <1>5, <1>6, <1>7 DEF Next

(* The heights fit always.                                                 *)
LEMMA HeightInvariance == Spec => []HeightInv
BY Invariance, InitHeights, NextKeepsHeights, PTL DEF Spec

(* The function h computes the heights of t.                               *)
Computes(t, h) ==
  h = [n \in DOMAIN t.node \cup {NULL} |->
         IF n = NULL THEN 0 ELSE 1 + MAX(h[t.node[n].left_kid], h[t.node[n].right_kid])]

(* Where all nodes fit their kids the stored heights are the true ones.    *)
LEMMA StoredHeightsTrue ==
  ASSUME NEW t, IsTree(t), Linked(t), NEW bound, InOrder(t, bound), \A m \in Nodes(t) : FitsAt(t, m)
  PROVE  \A n \in Nodes(t) \cup {NULL} : TrueHeight(t)[n] = get_height(t, n)
<1> DEFINE H == [n \in DOMAIN t.node \cup {NULL} |-> get_height(t, n)]
           h == TrueHeight(t)
<1>1. \A n \in Nodes(t) :
        /\ t.node[n].left_kid \in Nodes(t) \cup {NULL} /\ t.node[n].right_kid \in Nodes(t) \cup {NULL}
        /\ t.node[n].left_kid = Kid(t, n, "left_kid") /\ t.node[n].right_kid = Kid(t, n, "right_kid")
        /\ n # NULL
  BY FieldTypes, SideFacts DEF Linked
<1>2. /\ get_height(t, NULL) = 0
      /\ \A n \in Nodes(t) \cup {NULL} : get_height(t, n) \in Nat
  BY HeightTypes DEF get_height
<1>3. \A n \in Nodes(t) :
        get_height(t, n) = 1 + MAX(get_height(t, t.node[n].left_kid), get_height(t, t.node[n].right_kid))
  <2> SUFFICES ASSUME NEW n \in Nodes(t)
               PROVE  get_height(t, n) = 1 + MAX(get_height(t, t.node[n].left_kid),
                                                 get_height(t, t.node[n].right_kid))
    OBVIOUS
  <2>1. get_height(t, n) = MAX(get_height(t, t.node[n].left_kid), get_height(t, t.node[n].right_kid)) + 1
    BY <1>1 DEF FitsAt, Fits
  <2>2. get_height(t, t.node[n].left_kid) \in Nat /\ get_height(t, t.node[n].right_kid) \in Nat
    BY <1>1, <1>2
  <2> QED BY <2>1, <2>2 DEF MAX
<1>4. Computes(t, H)
  <2>1. \A n \in DOMAIN t.node : /\ H[t.node[n].left_kid] = get_height(t, t.node[n].left_kid)
                                 /\ H[t.node[n].right_kid] = get_height(t, t.node[n].right_kid)
    BY <1>1 DEF Nodes
  <2>2. \A n \in DOMAIN t.node \cup {NULL} :
          get_height(t, n) = IF n = NULL THEN 0
                             ELSE 1 + MAX(H[t.node[n].left_kid], H[t.node[n].right_kid])
    BY <1>2, <1>3, <2>1 DEF Nodes
  <2> QED BY <2>2 DEF Computes
<1>5. h = CHOOSE f : Computes(t, f)
  BY DEF TrueHeight, Computes
<1>6. Computes(t, h)
  BY <1>4, <1>5
<1> HIDE DEF h
<1>7. /\ h[NULL] = 0
      /\ \A n \in Nodes(t) : h[n] = 1 + MAX(h[t.node[n].left_kid], h[t.node[n].right_kid])
  BY <1>1, <1>6 DEF Computes, Nodes
<1> DEFINE D == {m \in Nodes(t) : h[m] # get_height(t, m)}
<1>8. D = {}
  <2> SUFFICES ASSUME D # {} PROVE FALSE
    OBVIOUS
  <2>1. PICK m \in D : \A s \in Sides : Kid(t, m, s) \notin D
    <3>1. D \in SUBSET Nodes(t)
      OBVIOUS
    <3> HIDE DEF D
    <3> QED BY <3>1, LowestNode
  <2>2. m \in Nodes(t) /\ h[m] # get_height(t, m)
    OBVIOUS
  <2>3. t.node[m].left_kid \notin D /\ t.node[m].right_kid \notin D
    BY <1>1, <2>1, <2>2, SideFacts
  <2>4. /\ h[t.node[m].left_kid] = get_height(t, t.node[m].left_kid)
        /\ h[t.node[m].right_kid] = get_height(t, t.node[m].right_kid)
    BY <1>1, <1>2, <1>7, <2>2, <2>3
  <2> QED BY <1>3, <1>7, <2>2, <2>4
<1>9. \A n \in Nodes(t) \cup {NULL} : h[n] = get_height(t, n)
  BY <1>2, <1>7, <1>8
<1> QED BY <1>9 DEF h

(* Until the first erase or the first rebalancing that ends in             *)
(* _rotate_left, insertions alone keep an AVL tree: no rotation            *)
(* dereferences NULL, and between calls every node is balanced and stores  *)
(* its true height.                                                        *)
THEOREM BalancedUntilFirstTilt == Spec => []BalancedUntilTilted
<1>1. ASSUME TreeInv, HeightInv PROVE BalancedUntilTilted
  <2> SUFFICES ASSUME ~tilted
               PROVE  /\ ~crashed
                      /\ Returned => Balanced
                      /\ Returned => \A n \in DOMAIN tree.node :
                                       tree.node[n].subtree_height = TrueHeight(tree)[n]
    BY DEF BalancedUntilTilted
  <2>1. ~crashed
    BY <1>1 DEF HeightInv
  <2>2. ASSUME Returned
        PROVE  /\ Balanced
               /\ \A n \in DOMAIN tree.node : tree.node[n].subtree_height = TrueHeight(tree)[n]
    <3>1. IsTree(tree) /\ Linked(tree) /\ \A m \in Nodes(tree) : FitsAt(tree, m)
      BY <1>1, <2>2 DEF HeightInv, Settled, Returned, TreeInv, TreeInOrder
    <3>2. PICK bound : InOrder(tree, bound)
      BY <1>1 DEF TreeInv, TreeInOrder
    <3>3. \A n \in Nodes(tree) \cup {NULL} : TrueHeight(tree)[n] = get_height(tree, n)
      BY <3>1, <3>2, StoredHeightsTrue
    <3>4. \A n \in Nodes(tree) :
            /\ tree.node[n].left_kid \in Nodes(tree) \cup {NULL}
            /\ tree.node[n].right_kid \in Nodes(tree) \cup {NULL}
            /\ tree.node[n].left_kid = Kid(tree, n, "left_kid")
            /\ tree.node[n].right_kid = Kid(tree, n, "right_kid")
            /\ n # NULL
      BY <3>1, FieldTypes, SideFacts DEF Linked
    <3>5. Balanced
      <4> SUFFICES ASSUME NEW n \in Nodes(tree)
                   PROVE  TrueHeight(tree)[tree.node[n].left_kid]
                            - TrueHeight(tree)[tree.node[n].right_kid] \in -1 .. 1
        BY DEF Balanced, Nodes
      <4>1. get_height(tree, tree.node[n].left_kid) - get_height(tree, tree.node[n].right_kid) \in -1 .. 1
        BY <3>1, <3>4 DEF FitsAt, Fits
      <4> QED BY <3>3, <3>4, <4>1
    <3>6. \A n \in DOMAIN tree.node : tree.node[n].subtree_height = TrueHeight(tree)[n]
      BY <3>3, <3>4 DEF Nodes, get_height
    <3> QED BY <3>5, <3>6
  <2> QED BY <2>1, <2>2
<1> QED BY <1>1, Invariance, HeightInvariance, PTL

=============================================================================
