------------------------------- MODULE AvlTree -------------------------------
(***************************************************************************)
(* The AVL tree of src/src/internal/avl_tree.c, which map and set are      *)
(* built on.                                                               *)
(*                                                                         *)
(* The nodes are memory cells with the fields of tree_node_t.  A value of  *)
(* type tree_node_t ** is a link <<owner, field>>: the place in which the  *)
(* pointer to a node is stored, a kid field of its owner or the root field *)
(* of the descriptor.  insert and erase change the links in one step and   *)
(* then climb to the root, one loop iteration per step; call is the call   *)
(* in progress.                                                            *)
(***************************************************************************)
EXTENDS Integers, FiniteSets

CONSTANTS
  Keys,              (* the keys, ordered by the comparator as integers    *)
  Cells,             (* the addresses malloc may return for a node         *)
  FreshCells(_, _),  (* the ones it may return, given those in use and the
                        key to be stored                                   *)
  Calls,             (* which of the operations the program calls          *)
  NULL

ASSUME AvlTreeAssumption ==
  /\ Keys \subseteq Int
  /\ Calls \subseteq {"insert", "erase", "clear", "free"}
  /\ NULL \notin Cells /\ NULL \notin Int
  /\ \A keys \in SUBSET Keys : keys # NULL
  /\ \A used \in SUBSET Cells, key \in Keys : FreshCells(used, key) \subseteq Cells \ used

VARIABLES
  tree,      (* the descriptor, whether it exists, and the node cells      *)
  call,      (* the call in progress: its key and the loop variable node   *)
  crashed,   (* a null pointer was dereferenced                            *)
  tilted     (* auxiliary: some call erased a node, or ended a rebalancing
                with _rotate_left                                          *)

vars == <<tree, call, crashed, tilted>>

MAX(x, y) == IF x > y THEN x ELSE y

-----------------------------------------------------------------------------
(* Pointers to pointers.                                                   *)

RootLink == <<NULL, "root">>

Links(t) == {RootLink} \cup ((DOMAIN t.node) \X {"left_kid", "right_kid"})

Deref(t, link) == IF link = RootLink THEN t.root ELSE t.node[link[1]][link[2]]

Store(t, link, n) ==
  IF link = RootLink THEN [t EXCEPT !.root = n]
  ELSE [t EXCEPT !.node[link[1]][link[2]] = n]

get_node_ptr(t, n) ==
  LET parent == t.node[n].parent
  IN  IF parent = NULL THEN RootLink
      ELSE IF t.node[parent].left_kid = n
           THEN <<parent, "left_kid">> ELSE <<parent, "right_kid">>

-----------------------------------------------------------------------------
(* Rotations.                                                              *)

get_height(t, n) == IF n = NULL THEN 0 ELSE t.node[n].subtree_height

kids_height(t, left, right) == MAX(get_height(t, left), get_height(t, right)) + 1

update_height(t, n) ==
  [t EXCEPT !.node[n].subtree_height = kids_height(t, t.node[n].left_kid, t.node[n].right_kid)]

(* mutant: the new top of the subtree keeps its old parent *)
Mut_relink(t, top_ptr, up, down, top_height, kid_height) ==
  LET top == Deref(t, top_ptr)
      kid == t.node[top][up]
      T2  == t.node[kid][down]
  IN  Store([t EXCEPT !.node = [m \in DOMAIN @ |->
              CASE m = kid -> [@[m] EXCEPT ![down] = top, !.subtree_height = kid_height]
                [] m = top -> [@[m] EXCEPT ![up] = T2, !.parent = kid,
                                           !.subtree_height = top_height]
                [] m = T2  -> [@[m] EXCEPT !.parent = top]
                [] OTHER   -> @[m]]], top_ptr, kid)

(* The stores of a rotation: the kid in field up of the node at top_ptr    *)
(* takes its place, the node becomes the kid's kid in field down, and the  *)
(* subtree T2 that was there changes sides.                                *)
relink(t, top_ptr, up, down, top_height, kid_height) ==
  LET top == Deref(t, top_ptr)
      kid == t.node[top][up]
      T2  == t.node[kid][down]
  IN  Store([t EXCEPT !.node = [m \in DOMAIN @ |->
              CASE m = kid -> [@[m] EXCEPT ![down] = top, !.parent = t.node[top].parent,
                                           !.subtree_height = kid_height]
                [] m = top -> [@[m] EXCEPT ![up] = T2, !.parent = kid,
                                           !.subtree_height = top_height]
                [] m = T2  -> [@[m] EXCEPT !.parent = top]
                [] OTHER   -> @[m]]], top_ptr, kid)

(* mutant: the new top is computed before the node that is now below it *)
Mut_rotate_right(t, y_ptr) ==
  LET y == Deref(t, y_ptr)
      x == t.node[y].left_kid
      y_height == kids_height(t, t.node[x].right_kid, t.node[y].right_kid)
  IN  relink(t, y_ptr, "left_kid", "right_kid", y_height, kids_height(t, t.node[x].left_kid, y))

rotate_right(t, y_ptr) ==
  LET y == Deref(t, y_ptr)
      x == t.node[y].left_kid
      y_height == kids_height(t, t.node[x].right_kid, t.node[y].right_kid)
      x_height == MAX(get_height(t, t.node[x].left_kid), y_height) + 1
  IN  relink(t, y_ptr, "left_kid", "right_kid", y_height, x_height)

(* The height of y is computed first, from the outdated height of x, which *)
(* is its left kid by then.                                                *)
rotate_left(t, x_ptr) ==
  LET x == Deref(t, x_ptr)
      y == t.node[x].right_kid
      y_height == kids_height(t, x, t.node[y].right_kid)
      x_height == kids_height(t, t.node[x].left_kid, t.node[y].left_kid)
  IN  relink(t, x_ptr, "right_kid", "left_kid", x_height, y_height)

get_balance(t, n) ==
  get_height(t, t.node[n].left_kid) - get_height(t, t.node[n].right_kid)

(* The four cases of _rebalance, chosen by the stored heights and by the   *)
(* side of the kid on which the inserted or erased key lies.               *)
RebalanceCase(t, n, key) ==
  LET left  == t.node[n].left_kid
      right == t.node[n].right_kid
  IN  CASE get_balance(t, n) > 1 /\ key < t.node[left].key   -> "left-left"
        [] get_balance(t, n) < -1 /\ key > t.node[right].key -> "right-right"
        [] get_balance(t, n) > 1 /\ key > t.node[left].key   -> "left-right"
        [] get_balance(t, n) < -1 /\ key < t.node[right].key -> "right-left"
        [] OTHER                                             -> "balanced"

rebalance(t, node_ptr, which) ==
  LET n == Deref(t, node_ptr)
  IN  CASE which = "left-left"   -> rotate_right(t, node_ptr)
        [] which = "right-right" -> rotate_left(t, node_ptr)
        [] which = "left-right"  -> rotate_right(rotate_left(t, <<n, "left_kid">>), node_ptr)
        [] which = "right-left"  -> rotate_left(rotate_right(t, <<n, "right_kid">>), node_ptr)
        [] which = "balanced"    -> t

(* The inner rotation of the last two cases lifts a kid that is NULL.      *)
rotates_null(t, n, which) ==
  \/ which = "left-right" /\ t.node[t.node[n].left_kid].right_kid = NULL
  \/ which = "right-left" /\ t.node[t.node[n].right_kid].left_kid = NULL

-----------------------------------------------------------------------------
(* Searching and iterating.                                                *)

(* The kid field of n on the side of the key.                              *)
kid_ptr(t, n, key) == IF key < t.node[n].key THEN <<n, "left_kid">> ELSE <<n, "right_kid">>

(* The link that holds the node with the key, or in which it is missing.   *)
internal_find(t, key) ==
  LET down[link \in Links(t)] ==
        IF Deref(t, link) = NULL \/ t.node[Deref(t, link)].key = key THEN link
        ELSE down[kid_ptr(t, Deref(t, link), key)]
  IN  down[RootLink]

find(t, key) == Deref(t, internal_find(t, key))

(* The node at the end of the chain of kids in one field.                  *)
outermost(t, n, side) ==
  LET down[m \in DOMAIN t.node] ==
        IF t.node[m][side] = NULL THEN m ELSE down[t.node[m][side]]
  IN  down[n]

tree_first(t) == IF t.root = NULL THEN NULL ELSE outermost(t, t.root, "left_kid")

tree_last(t) == IF t.root = NULL THEN NULL ELSE outermost(t, t.root, "right_kid")

(* mutant: does not climb when there is no kid on that side *)
Mut_iterator_step(t, it, side, other) ==
  IF t.node[it][side] # NULL THEN outermost(t, t.node[it][side], other)
  ELSE t.node[it].parent

(* One kid towards the side, then all the way back; or up to the first     *)
(* ancestor on that side.                                                  *)
iterator_step(t, it, side, other) ==
  LET up[m \in DOMAIN t.node] ==
        IF t.node[m].parent # NULL /\ t.node[t.node[m].parent][side] = m
        THEN up[t.node[m].parent] ELSE t.node[m].parent
  IN  IF t.node[it][side] # NULL THEN outermost(t, t.node[it][side], other) ELSE up[it]

iterator_next(t, it) == iterator_step(t, it, "right_kid", "left_kid")

iterator_prev(t, it) == iterator_step(t, it, "left_kid", "right_kid")

-----------------------------------------------------------------------------
EmptyFn == [x \in {} |-> NULL]

Without(f, x) == [y \in DOMAIN f \ {x} |-> f[y]]

(* A call, what it answers, and the node of its loop: NULL when it is over.*)
Call(op, key, answer, n) == [op |-> op, key |-> key, answer |-> answer, node |-> n]

Returned == call.node = NULL

Callable(op) == op \in Calls /\ tree.alive /\ Returned /\ ~crashed

NoTree == [alive |-> FALSE, root |-> NULL, tree_size |-> 0, node |-> EmptyFn]

Init ==
  /\ tree = NoTree
  /\ call = Call("none", NULL, "none", NULL)
  /\ crashed = FALSE
  /\ tilted = FALSE

(* When malloc fails new returns NULL and there still is no tree.          *)
new ==
  /\ ~tree.alive /\ Returned /\ ~crashed
  /\ tree' = [tree EXCEPT !.alive = TRUE]
  /\ call' = Call("new", NULL, "none", NULL)
  /\ UNCHANGED <<crashed, tilted>>

new_node(parent, key) ==
  [key |-> key, parent |-> parent, left_kid |-> NULL, right_kid |-> NULL,
   subtree_height |-> 1]

insert_existing(key) ==
  /\ Callable("insert")
  /\ find(tree, key) # NULL
  /\ call' = Call("insert", key, "already_exists", NULL)
  /\ UNCHANGED <<tree, crashed, tilted>>

(* malloc returns NULL, which is stored in the link before it is tested.   *)
insert_fails(key) ==
  /\ Callable("insert")
  /\ find(tree, key) = NULL
  /\ tree' = Store(tree, internal_find(tree, key), NULL)
  /\ call' = Call("insert", key, "failed", NULL)
  /\ UNCHANGED <<crashed, tilted>>

insert_new(key) ==
  /\ Callable("insert")
  /\ find(tree, key) = NULL
  /\ \E n \in FreshCells(DOMAIN tree.node, key) :
       LET node_ptr == internal_find(tree, key)
           parent   == node_ptr[1]
           cells    == [m \in DOMAIN tree.node \cup {n} |->
                          IF m = n THEN new_node(parent, key) ELSE tree.node[m]]
       IN  /\ tree' = Store([tree EXCEPT !.node = cells, !.tree_size = @ + 1], node_ptr, n)
           /\ call' = Call("insert", key, "inserted", parent)
  /\ UNCHANGED <<crashed, tilted>>

only_kid(t, n) ==
  IF t.node[n].left_kid # NULL THEN t.node[n].left_kid ELSE t.node[n].right_kid

(* mutant: the kid keeps the removed node as its parent *)
Mut_unlink(t, n) ==
  LET t1 == Store(t, get_node_ptr(t, n), only_kid(t, n))
  IN  [t1 EXCEPT !.node = Without(@, n), !.tree_size = @ - 1]

(* A node with at most one kid is replaced by it and freed.                *)
unlink(t, n) ==
  LET kid == only_kid(t, n)
      t1  == IF kid = NULL THEN t ELSE [t EXCEPT !.node[kid].parent = t.node[n].parent]
      t2  == Store(t1, get_node_ptr(t, n), kid)
  IN  [t2 EXCEPT !.node = Without(@, n), !.tree_size = @ - 1]

has_two_kids(n) == tree.node[n].left_kid # NULL /\ tree.node[n].right_kid # NULL

(* mutant: the predecessor is moved and freed instead of the successor     *)
Mut_victim(n) == IF has_two_kids(n) THEN iterator_prev(tree, n) ELSE n

(* The cell that erase frees.                                              *)
victim(n) == IF has_two_kids(n) THEN iterator_next(tree, n) ELSE n

(* mutant: the key of the successor is not moved into the node             *)
Mut_erase(key) ==
  /\ Callable("erase")
  /\ IF find(tree, key) = NULL
     THEN call' = Call("erase", key, "none", NULL) /\ UNCHANGED <<tree, tilted>>
     ELSE LET v == victim(find(tree, key))
          IN  /\ tree' = unlink(tree, v)
              /\ call' = Call("erase", key, "none", only_kid(tree, v))
              /\ tilted' = TRUE
  /\ UNCHANGED crashed

(* Erases the key if it is there.  When its node has two kids, key and     *)
(* value of the successor move into it and the successor is freed.  The    *)
(* loop starts at the kid that took the place of the freed node, so not    *)
(* at all when a leaf was freed.                                           *)
erase(key) ==
  /\ Callable("erase")
  /\ IF find(tree, key) = NULL
     THEN call' = Call("erase", key, "none", NULL) /\ UNCHANGED <<tree, tilted>>
     ELSE LET n  == find(tree, key)
              v  == victim(n)
              t1 == unlink(tree, v)
          IN  /\ tree' = IF v = n THEN t1 ELSE [t1 EXCEPT !.node[n].key = tree.node[v].key]
              /\ call' = Call("erase", key, "none", only_kid(tree, v))
              /\ tilted' = TRUE
  /\ UNCHANGED crashed

(* mutant: the loop goes on with the node of this iteration, not its parent *)
Mut_climb ==
  /\ ~Returned /\ ~crashed
  /\ \E node_ptr \in {get_node_ptr(tree, call.node)}, t1 \in {update_height(tree, call.node)} :
       \E which \in {RebalanceCase(t1, call.node, call.key)} :
       /\ ~rotates_null(t1, call.node, which)
       /\ tree' = rebalance(t1, node_ptr, which)
       /\ call' = [call EXCEPT !.node = Deref(tree', node_ptr)]
       /\ UNCHANGED <<crashed, tilted>>

(* One iteration of the loop at the end of insert and erase.  The          *)
(* quantifiers over singletons name values, as LET does, and make TLC      *)
(* compute them once.                                                      *)
climb ==
  /\ ~Returned /\ ~crashed
  /\ \E node_ptr \in {get_node_ptr(tree, call.node)}, t1 \in {update_height(tree, call.node)} :
       \E which \in {RebalanceCase(t1, call.node, call.key)} :
       IF rotates_null(t1, call.node, which)
       THEN crashed' = TRUE /\ UNCHANGED <<tree, call, tilted>>
       ELSE /\ tree' = rebalance(t1, node_ptr, which)
            /\ call' = [call EXCEPT !.node = tree'.node[Deref(tree', node_ptr)].parent]
            /\ tilted' = (tilted \/ which \in {"right-right", "right-left"})
            /\ UNCHANGED crashed

KidsOf(t, n) == {t.node[n].left_kid, t.node[n].right_kid} \ {NULL}

(* The node n, unless it is NULL, its kids, their kids, and so on: the     *)
(* least set with n and with the kids of its members.                      *)
Descendants(t, n) ==
  {m \in DOMAIN t.node : \A S \in SUBSET DOMAIN t.node :
     {n} \ {NULL} \subseteq S /\ (\A p \in S : KidsOf(t, p) \subseteq S) => m \in S}

(* _internal_free visits and frees every node below the root.              *)
internal_free(t) ==
  [m \in DOMAIN t.node \ Descendants(t, t.root) |-> t.node[m]]

clear ==
  /\ Callable("clear")
  /\ tree' = [alive |-> TRUE, root |-> NULL, tree_size |-> 0, node |-> internal_free(tree)]
  /\ call' = Call("clear", NULL, "none", NULL)
  /\ UNCHANGED <<crashed, tilted>>

free ==
  /\ Callable("free")
  /\ tree' = [alive |-> FALSE, root |-> NULL, tree_size |-> 0, node |-> internal_free(tree)]
  /\ call' = Call("free", NULL, "none", NULL)
  /\ UNCHANGED <<crashed, tilted>>

Next ==
  \/ new
  \/ \E key \in Keys : insert_existing(key) \/ insert_fails(key) \/ insert_new(key) \/ erase(key)
  \/ climb
  \/ clear
  \/ free

(* A running call keeps executing: the program has one thread.             *)
Spec == Init /\ [][Next]_vars /\ WF_vars(climb)

-----------------------------------------------------------------------------
(* Properties.                                                             *)

NodeType ==
  [key : Keys, parent : Cells \cup {NULL}, left_kid : Cells \cup {NULL},
   right_kid : Cells \cup {NULL}, subtree_height : Nat \ {0}]

(* Types of the variables: no pointer is ever the garbage of a freed cell. *)
TypeOK ==
  /\ tree.alive \in BOOLEAN /\ tree.tree_size \in Nat
  /\ DOMAIN tree.node \subseteq Cells
  /\ tree.node \in [DOMAIN tree.node -> NodeType]
  /\ tree.root \in DOMAIN tree.node \cup {NULL}
  /\ \A n \in DOMAIN tree.node :
       {tree.node[n].parent, tree.node[n].left_kid, tree.node[n].right_kid}
         \subseteq DOMAIN tree.node \cup {NULL}
  /\ call \in [op : Calls \cup {"none", "new"}, key : Keys \cup {NULL},
               answer : {"none", "already_exists", "failed", "inserted"},
               node : DOMAIN tree.node \cup {NULL}]
  /\ crashed \in BOOLEAN /\ tilted \in BOOLEAN

(* Rotations and unlinking keep one tree: every kid knows its parent, no   *)
(* cell is lost or shared, the size is the number of cells, and a freed    *)
(* tree leaves no cell behind.                                             *)
WellLinked ==
  /\ Descendants(tree, tree.root) = DOMAIN tree.node
  /\ tree.tree_size = Cardinality(DOMAIN tree.node)
  /\ \A n \in DOMAIN tree.node :
       {link \in Links(tree) : Deref(tree, link) = n} = {get_node_ptr(tree, n)}

KeySet == {tree.node[n].key : n \in DOMAIN tree.node}

Above(key) == {k \in KeySet : k > key}
Below(key) == {k \in KeySet : k < key}

(* The cell n holds the least (greatest) of the keys S, or S is empty.     *)
HoldsLeast(n, S) ==
  IF S = {} THEN n = NULL ELSE n # NULL /\ tree.node[n].key \in S /\ \A k \in S : tree.node[n].key <= k
HoldsGreatest(n, S) ==
  IF S = {} THEN n = NULL ELSE n # NULL /\ tree.node[n].key \in S /\ \A k \in S : tree.node[n].key >= k

(* first, next, last and prev visit all keys in order, once each, forwards *)
(* and backwards, and find finds exactly the keys there are: after any     *)
(* sequence of rotations, and also between two of them.                    *)
IterationExact ==
  /\ HoldsLeast(tree_first(tree), KeySet) /\ HoldsGreatest(tree_last(tree), KeySet)
  /\ \A n \in DOMAIN tree.node :
       /\ HoldsLeast(iterator_next(tree, n), Above(tree.node[n].key))
       /\ HoldsGreatest(iterator_prev(tree, n), Below(tree.node[n].key))
       /\ find(tree, tree.node[n].key) = n
  /\ \A key \in Keys \ KeySet : find(tree, key) = NULL

(* A step invalidates only iterators to keys that it removes, and to the   *)
(* next key in order; a rotation and an insertion invalidate none.         *)
IteratorsSurvive ==
  [][\A n \in DOMAIN tree.node :
       \/ n \in DOMAIN tree'.node /\ tree'.node[n].key = tree.node[n].key
       \/ \E k \in KeySet \ KeySet' :
            tree.node[n].key = k \/ HoldsLeast(n, Above(k))]_vars

TrueHeight(t) ==
  LET h[n \in DOMAIN t.node \cup {NULL}] ==
        IF n = NULL THEN 0 ELSE 1 + MAX(h[t.node[n].left_kid], h[t.node[n].right_kid])
  IN  h

(* The AVL condition.                                                      *)
Balanced ==
  LET h == TrueHeight(tree)
  IN  \A n \in DOMAIN tree.node :
        h[tree.node[n].left_kid] - h[tree.node[n].right_kid] \in -1 .. 1

(* Until the first erase or the first rebalancing that ends in             *)
(* _rotate_left, the tree is an AVL tree between calls, with exact stored  *)
(* heights, and no rotation meets a null pointer.                          *)
BalancedUntilTilted ==
  ~tilted =>
    /\ ~crashed
    /\ Returned => Balanced
    /\ Returned => \A n \in DOMAIN tree.node :
                        tree.node[n].subtree_height = TrueHeight(tree)[n]

(* Every insert and erase comes to its end: the loop reaches the root      *)
(* whatever it rotates on its way (or the program has crashed).            *)
CallReturns == ~Returned ~> (Returned \/ crashed)

-----------------------------------------------------------------------------
(* Refinement.                                                             *)

Ordered == INSTANCE OrderedSet WITH
  set  <- IF tree.alive THEN KeySet ELSE NULL,
  last <- [op |-> call.op, key |-> call.key, answer |-> call.answer]

(* Links and rotations implement a set of keys: each call adds or removes  *)
(* the key it was given at once and says so, and rebalancing changes       *)
(* nothing.                                                                *)
ImplementsOrderedSet == Ordered!Spec

-----------------------------------------------------------------------------
(* What the documentation says and the code does not do.                   *)

(* set.hpp:23-24: it is an AVL tree, so it is balanced between calls.      *)
StaysBalanced == Returned /\ ~crashed => Balanced

(* map.h:156, map.h:180: insert allocates a new element, erase removes     *)
(* one; neither dereferences a null pointer.                               *)
NeverCrashes == ~crashed
=============================================================================
