------------------------------ MODULE MapProofs ------------------------------
(***************************************************************************)
(* Proofs about the containers map and set of Map, for all keys, values    *)
(* and cells: every cell has one owner in every step of every call, keys   *)
(* and values keep their addresses, and the containers implement the       *)
(* dictionary of Dictionary.                                               *)
(***************************************************************************)
EXTENDS Map, AvlTreeProofs

-----------------------------------------------------------------------------
(* Ownership of the cells of one heap.  p assigns to each entry that has   *)
(* its own cell the pointer to it.                                         *)

Pointers(p) == {p[n] : n \in DOMAIN p}

Owned(heap, p, local) ==
  /\ DOMAIN heap = Pointers(p) \cup ({local} \ {NULL})
  /\ \A n \in DOMAIN p : p[n] # local
  /\ \A n, m \in DOMAIN p : p[n] = p[m] => n = m

(* With and Without change a function in one place.                        *)
LEMMA WithWithout ==
  ASSUME NEW f, NEW x, NEW y
  PROVE  /\ DOMAIN With(f, x, y) = DOMAIN f \cup {x}
         /\ With(f, x, y)[x] = y
         /\ \A z \in DOMAIN f \ {x} : With(f, x, y)[z] = f[z]
         /\ DOMAIN Without(f, x) = DOMAIN f \ {x}
         /\ \A z \in DOMAIN f \ {x} : Without(f, x)[z] = f[z]
BY DEF With, Without

(* A function and what With makes of it agree elsewhere.                   *)
LEMMA WithKeeps ==
  ASSUME NEW f, NEW x, NEW y, NEW g, g = With(f, x, y)
  PROVE  \A z \in DOMAIN f \ {x} : g[z] = f[z]
BY DEF With

(* Freeing the cell of the local variable, which may be NULL.              *)
LEMMA FreeLocal ==
  ASSUME NEW heap, NEW p, NEW local, Owned(heap, p, local), NULL \notin DOMAIN heap
  PROVE  Owned(Freed(heap, local), p, NULL)
<1>1. DOMAIN Freed(heap, local) = DOMAIN heap \ {local}
  BY WithWithout DEF Freed
<1>2. local \notin Pointers(p) /\ NULL \notin Pointers(p)
  BY DEF Owned, Pointers
<1>3. DOMAIN Freed(heap, local) = Pointers(p)
  BY <1>1, <1>2 DEF Owned
<1> QED BY <1>2, <1>3 DEF Owned, Pointers

(* Allocating a cell for the local variable.                               *)
LEMMA AllocateLocal ==
  ASSUME NEW heap, NEW p, Owned(heap, p, NULL), NEW k, k \notin DOMAIN heap, k # NULL,
         NEW x
  PROVE  Owned(With(heap, k, x), p, k)
<1>1. DOMAIN With(heap, k, x) = DOMAIN heap \cup {k}
  BY WithWithout
<1>2. k \notin Pointers(p) /\ DOMAIN heap = Pointers(p)
  BY DEF Owned
<1>3. DOMAIN With(heap, k, x) = Pointers(p) \cup ({k} \ {NULL})
  BY <1>1, <1>2
<1> QED BY <1>2, <1>3 DEF Owned, Pointers

(* The pointer in the local variable is stored in an entry.                *)
LEMMA StoreLocal ==
  ASSUME NEW heap, NEW p, NEW k, Owned(heap, p, k), NULL \notin DOMAIN heap, k # NULL,
         NEW n, n \notin DOMAIN p, NEW q, DOMAIN q = DOMAIN p \cup {n}, q[n] = k,
         \A m \in DOMAIN p : q[m] = p[m]
  PROVE  Owned(heap, q, NULL)
<1>1. Pointers(q) = Pointers(p) \cup {k}
  BY DEF Pointers
<1>2. DOMAIN heap = Pointers(q)
  BY <1>1 DEF Owned
<1>3. \A m \in DOMAIN q : q[m] # NULL
  BY <1>2 DEF Pointers
<1>4. \A m, l \in DOMAIN q : q[m] = q[l] => m = l
  BY DEF Owned
<1> QED BY <1>2, <1>3, <1>4 DEF Owned

(* Owners do not depend on what the cells contain.                         *)
LEMMA SameOwners ==
  ASSUME NEW heap, NEW p, NEW local, Owned(heap, p, local), NEW h, DOMAIN h = DOMAIN heap
  PROVE  Owned(h, p, local)
BY DEF Owned

(* When v is freed and n takes over what it had, m has what Source had.    *)
Source(m, n, v) == IF m = n THEN v ELSE m

Moved(p, q, N, n, v) ==
  /\ DOMAIN q = {m \in N \ {v} : Source(m, n, v) \in DOMAIN p}
  /\ \A m \in DOMAIN q : q[m] = p[Source(m, n, v)]

(* After moving, the pointers are those before but the one of n.           *)
LEMMA MovedPointers ==
  ASSUME NEW p, NEW N, DOMAIN p \subseteq N, NEW n \in N, NEW v \in N, NEW q, Moved(p, q, N, n, v),
         \A m, l \in DOMAIN p : p[m] = p[l] => m = l
  PROVE  /\ Pointers(q) = Pointers(p) \ (IF n \in DOMAIN p THEN {p[n]} ELSE {})
         /\ \A m, l \in DOMAIN q : q[m] = q[l] => m = l
<1>1. ASSUME NEW m \in DOMAIN q
      PROVE  q[m] \in Pointers(p) /\ (n \in DOMAIN p => q[m] # p[n])
  <2>1. Source(m, n, v) \in DOMAIN p /\ q[m] = p[Source(m, n, v)] /\ Source(m, n, v) # n
    BY DEF Moved, Source
  <2> QED BY <2>1 DEF Pointers
<1>2. ASSUME NEW x \in DOMAIN p, x # n
      PROVE  p[x] \in Pointers(q)
  <2>1. CASE x = v
    <3>1. n \in DOMAIN q /\ q[n] = p[x]
      BY <1>2, <2>1 DEF Moved, Source
    <3> QED BY <3>1 DEF Pointers
  <2>2. CASE x # v
    <3>1. x \in DOMAIN q /\ q[x] = p[x]
      BY <1>2, <2>2 DEF Moved, Source
    <3> QED BY <3>1 DEF Pointers
  <2> QED BY <2>1, <2>2
<1>3. Pointers(q) = Pointers(p) \ (IF n \in DOMAIN p THEN {p[n]} ELSE {})
  <2>1. \A a \in Pointers(q) : a \in Pointers(p) /\ (n \in DOMAIN p => a # p[n])
    BY <1>1 DEF Pointers
  <2>2. \A a \in Pointers(p) : (n \in DOMAIN p => a # p[n]) => a \in Pointers(q)
    BY <1>2 DEF Pointers
  <2> QED BY <2>1, <2>2 DEF Pointers
<1>4. \A m, l \in DOMAIN q : q[m] = q[l] => m = l
  <2> SUFFICES ASSUME NEW m \in DOMAIN q, NEW l \in DOMAIN q, q[m] = q[l] PROVE m = l
    OBVIOUS
  <2>1. /\ Source(m, n, v) \in DOMAIN p /\ Source(l, n, v) \in DOMAIN p
        /\ p[Source(m, n, v)] = p[Source(l, n, v)] /\ m # v /\ l # v
    BY DEF Moved
  <2>2. Source(m, n, v) = Source(l, n, v)
    BY <2>1
  <2> QED BY <2>1, <2>2 DEF Source
<1> QED BY <1>3, <1>4

(* Moving what an entry without a cell of its own leaves, keeps owners.    *)
LEMMA MoveKeepsOwners ==
  ASSUME NEW heap, NEW p, NEW local, Owned(heap, p, local),
         NEW N, DOMAIN p \subseteq N, NEW n \in N \ DOMAIN p, NEW v \in N, NEW q,
         Moved(p, q, N, n, v)
  PROVE  Owned(heap, q, local)
<1>1. \A m, l \in DOMAIN p : p[m] = p[l] => m = l
  BY DEF Owned
<1>2. Pointers(q) = Pointers(p) /\ \A m, l \in DOMAIN q : q[m] = q[l] => m = l
  BY <1>1, MovedPointers
<1>3. \A m \in DOMAIN q : q[m] \in Pointers(p)
  BY <1>2 DEF Pointers
<1>4. local \notin Pointers(p)
  BY DEF Owned, Pointers
<1> QED BY <1>2, <1>3, <1>4 DEF Owned

(* Otherwise its cell is left to the local variable.                       *)
LEMMA MoveLeavesCell ==
  ASSUME NEW heap, NEW p, Owned(heap, p, NULL), NULL \notin DOMAIN heap,
         NEW N, DOMAIN p \subseteq N, NEW n \in DOMAIN p, NEW v \in N, NEW q,
         Moved(p, q, N, n, v)
  PROVE  Owned(heap, q, p[n])
<1>1. \A m, l \in DOMAIN p : p[m] = p[l] => m = l
  BY DEF Owned
<1>2. n \in N
  OBVIOUS
<1>3. Pointers(q) = Pointers(p) \ {p[n]} /\ \A m, l \in DOMAIN q : q[m] = q[l] => m = l
  BY <1>1, <1>2, MovedPointers
<1>4. p[n] \in Pointers(p) /\ p[n] # NULL
  BY DEF Owned, Pointers
<1>5. DOMAIN heap = Pointers(q) \cup ({p[n]} \ {NULL})
  BY <1>3, <1>4 DEF Owned
<1>6. \A m \in DOMAIN q : q[m] # p[n]
  BY <1>3 DEF Pointers
<1> QED BY <1>3, <1>5, <1>6 DEF Owned

-----------------------------------------------------------------------------
(* The invariant.                                                          *)

(* The entries that have their own key cell, and the pointers of these.    *)
Holding(ent) == {n \in DOMAIN ent : ent[n].key # CALLER}

KeyPtrs(ent) == [n \in Holding(ent) |-> ent[n].key]

ValuePtrs(ent, k) == [n \in IF k = "map" THEN Holding(ent) ELSE {} |-> ent[n].value]

EntryType == [key : Cells \cup {CALLER}, value : Cells \cup {NULL}]

EntriesTyped(ent, k, nodes) ==
  /\ ent \in [nodes -> EntryType]
  /\ k = "set" => \A n \in nodes : ent[n].value = NULL

CellsTyped(keys, values) ==
  /\ DOMAIN keys \subseteq Cells /\ keys \in [DOMAIN keys -> Keys \cup {UNINIT}]
  /\ DOMAIN values \subseteq Cells /\ values \in [DOMAIN values -> Values]

RequestType ==
  [stage : {"idle", "linked", "key_allocated", "undone", "erased"},
   key : Keys \cup {NULL}, value : Values \cup {NULL}, node : Cells \cup {NULL},
   allocated_key : Cells \cup {NULL}, value_to_delete : Cells \cup {NULL}]

Inserting(r) == r.stage \in {"linked", "key_allocated"}

(* What the local variables of a call hold at each of its stages.          *)
StageOK(r, k, t) ==
  /\ r.stage = "idle" => r = Idle
  /\ r.stage # "idle" => t.alive
  /\ r.stage \in {"linked", "key_allocated", "undone"} =>
       r.key \in Keys /\ r.value \in (IF k = "map" THEN Values ELSE {NULL}) /\ r.value_to_delete = NULL
  /\ Inserting(r) => r.node \in Nodes(t) /\ Key(t, r.node) = r.key
  /\ r.stage = "linked" => r.allocated_key = NULL
  /\ r.stage = "key_allocated" => k = "map" /\ r.allocated_key # NULL
  /\ r.stage = "undone" => \A n \in Nodes(t) : Key(t, n) # r.key

(* Only the entry of the call in progress points to the key of the caller. *)
OneBorrows(r, ent) ==
  \A n \in DOMAIN ent : n \notin Holding(ent) <=> Inserting(r) /\ n = r.node

KeysMatch(ent, t, keys) == \A n \in Holding(ent) : keys[ent[n].key] = Key(t, n)

KindOK(k, t) == k \in {"map", "set", NULL} /\ (k = NULL <=> ~t.alive)

MapInv ==
  /\ TreeInv
  /\ KindOK(kind, tree)
  /\ EntriesTyped(entry, kind, Nodes(tree))
  /\ CellsTyped(key_cell, value_cell)
  /\ req \in RequestType
  /\ StageOK(req, kind, tree)
  /\ OneBorrows(req, entry)
  /\ Owned(key_cell, KeyPtrs(entry), req.allocated_key)
  /\ Owned(value_cell, ValuePtrs(entry, kind), req.value_to_delete)
  /\ KeysMatch(entry, tree, key_cell)

(* What the invariant says of the domains of pointers, cells and nodes.    *)
LEMMA MapInvFacts ==
  ASSUME MapInv
  PROVE  /\ DOMAIN entry = Nodes(tree) /\ Nodes(tree) \subseteq Cells
         /\ \A n \in Nodes(tree) : n # NULL /\ entry[n] \in EntryType
         /\ Holding(entry) \subseteq Nodes(tree)
         /\ DOMAIN KeyPtrs(entry) = Holding(entry)
         /\ \A n \in Holding(entry) : KeyPtrs(entry)[n] = entry[n].key
         /\ kind = "map" => DOMAIN ValuePtrs(entry, kind) = Holding(entry)
         /\ kind # "map" => DOMAIN ValuePtrs(entry, kind) = {}
         /\ \A n \in DOMAIN ValuePtrs(entry, kind) : ValuePtrs(entry, kind)[n] = entry[n].value
         /\ NULL \notin DOMAIN key_cell /\ NULL \notin DOMAIN value_cell
         /\ Stored = Holding(entry)
<1>1. DOMAIN entry = Nodes(tree) /\ \A n \in Nodes(tree) : entry[n] \in EntryType
  BY DEF MapInv, EntriesTyped
<1>2. Nodes(tree) \subseteq Cells /\ NULL \notin Cells
  BY AvlTreeAssumption DEF MapInv, TreeInv, TreeInOrder, IsTree, Nodes
<1>3. NULL \notin DOMAIN key_cell /\ NULL \notin DOMAIN value_cell
  BY <1>2 DEF MapInv, CellsTyped
<1> QED BY <1>1, <1>2, <1>3 DEF Holding, KeyPtrs, ValuePtrs, Stored

(* Each key is in one node.                                                *)
LEMMA OneNodeEach ==
  ASSUME MapInv, NEW n \in Nodes(tree), NEW m \in Nodes(tree), Key(tree, n) = Key(tree, m)
  PROVE  n = m
BY UniqueKeys DEF MapInv, TreeInv, TreeInOrder

(* Entries with a cell of their own follow their keys.                     *)
EntriesFollow(t, ent, u, ent2) ==
  \A n \in Holding(ent), m \in Holding(ent2) : Key(t, n) = Key(u, m) => ent2[m] = ent[n]

HeldKeys(t, ent) == {Key(t, n) : n \in Holding(ent)}

(* Such a map keeps all its values.                                        *)
ValuesStay(ent, k, values, values2) ==
  k = "map" => \A n \in Holding(ent) : values2[ent[n].value] = values[ent[n].value]

(* A step that changes neither keys nor entries.                           *)
LEMMA QuietStep ==
  ASSUME MapInv, TreeInv', SameContents(tree, tree'),
         UNCHANGED <<kind, entry, key_cell, value_cell, req>>
  PROVE  /\ MapInv' /\ EntriesFollow(tree, entry, tree', entry')
         /\ HeldKeys(tree', entry') = HeldKeys(tree, entry)
<1>1. /\ DOMAIN entry = Nodes(tree) /\ Holding(entry) \subseteq Nodes(tree)
      /\ \A n, m \in Nodes(tree) : Key(tree, n) = Key(tree, m) => n = m
  BY MapInvFacts, OneNodeEach
<1>2. /\ Nodes(tree') = Nodes(tree) /\ tree'.alive = tree.alive
      /\ \A n \in Nodes(tree) : Key(tree', n) = Key(tree, n)
  BY DEF SameContents
<1>3. KindOK(kind, tree') /\ EntriesTyped(entry, kind, Nodes(tree'))
  BY <1>2 DEF MapInv, KindOK
<1>4. StageOK(req, kind, tree')
  BY <1>2 DEF MapInv, StageOK, Inserting
<1>5. KeysMatch(entry, tree', key_cell)
  BY <1>1, <1>2 DEF MapInv, KeysMatch
<1>6. MapInv'
  BY <1>3, <1>4, <1>5 DEF MapInv, Nodes
<1> QED BY <1>1, <1>2, <1>6 DEF EntriesFollow, HeldKeys

(* The invariant holds initially.                                          *)
LEMMA MapInitInv == MapInit => MapInv
<1> SUFFICES ASSUME MapInit PROVE MapInv
  OBVIOUS
<1>1. TreeInv /\ ~tree.alive /\ Nodes(tree) = {}
  BY InitInv DEF MapInit, Init, NoTree, EmptyFn, Nodes
<1>2. entry = EmptyFn /\ key_cell = EmptyFn /\ value_cell = EmptyFn /\ kind = NULL /\ req = Idle
  BY DEF MapInit
<1>3. KindOK(kind, tree)
  BY <1>1, <1>2 DEF KindOK
<1>4. EntriesTyped(entry, kind, Nodes(tree)) /\ Holding(entry) = {}
  BY <1>1, <1>2 DEF EntriesTyped, EmptyFn, Holding
<1>5. CellsTyped(key_cell, value_cell)
  BY <1>2 DEF CellsTyped, EmptyFn
<1>6. req \in RequestType
  BY <1>2 DEF RequestType, Idle
<1>7. StageOK(req, kind, tree) /\ ~Inserting(req)
  BY <1>2 DEF StageOK, Idle, Inserting
<1>8. OneBorrows(req, entry) /\ KeysMatch(entry, tree, key_cell)
  BY <1>2, <1>4 DEF OneBorrows, KeysMatch, EmptyFn
<1>9. /\ Pointers(KeyPtrs(entry)) = {} /\ DOMAIN KeyPtrs(entry) = {}
      /\ Pointers(ValuePtrs(entry, kind)) = {} /\ DOMAIN ValuePtrs(entry, kind) = {}
  BY <1>4 DEF Pointers, KeyPtrs, ValuePtrs
<1>10. /\ DOMAIN key_cell = {} /\ DOMAIN value_cell = {}
       /\ req.allocated_key = NULL /\ req.value_to_delete = NULL
  BY <1>2 DEF EmptyFn, Idle
<1>11. Owned(key_cell, KeyPtrs(entry), req.allocated_key)
  BY <1>9, <1>10 DEF Owned
<1>12. Owned(value_cell, ValuePtrs(entry, kind), req.value_to_delete)
  BY <1>9, <1>10 DEF Owned
<1> QED BY <1>1, <1>3, <1>4, <1>5, <1>6, <1>7, <1>8, <1>11, <1>12 DEF MapInv

(* new makes a container without entries.                                  *)
LEMMA MapNewKeepsInv ==
  ASSUME MapInv, NEW k \in {"map", "set"}, map_new(k)
  PROVE  MapInv' /\ Nodes(tree') = {} /\ Holding(entry') = {}
<1>1. TreeInv' /\ Nodes(tree') = {} /\ ~tree.alive /\ tree'.alive
  BY NewKeepsInv DEF MapInv, map_new, new, TreeInv, TreeInOrder, IsTree
<1>2. kind' = k /\ UNCHANGED <<entry, key_cell, value_cell, req>>
  BY DEF map_new
<1>3. Nodes(tree) = {} /\ DOMAIN entry = {} /\ Holding(entry) = {}
  BY <1>1, MapInvFacts DEF MapInv, TreeInv, TreeInOrder
<1>4. KindOK(k, tree')
  BY <1>1, MapAssumption DEF KindOK
<1>5. EntriesTyped(entry, k, Nodes(tree'))
  BY <1>1, <1>3 DEF MapInv, EntriesTyped
<1>6. req = Idle /\ StageOK(req, k, tree')
  BY <1>1 DEF MapInv, StageOK, RequestType, Inserting, Idle
<1>7. KeysMatch(entry, tree', key_cell)
  BY <1>3 DEF KeysMatch
<1>8. /\ DOMAIN ValuePtrs(entry, k) = {} /\ Pointers(ValuePtrs(entry, k)) = {}
      /\ Pointers(ValuePtrs(entry, kind)) = {}
  BY <1>3 DEF ValuePtrs, Pointers
<1>9. Owned(value_cell, ValuePtrs(entry, k), req.value_to_delete)
  BY <1>8 DEF MapInv, Owned
<1> QED BY <1>1, <1>2, <1>3, <1>4, <1>5, <1>6, <1>7, <1>9 DEF MapInv, Nodes

-----------------------------------------------------------------------------
(* Insertion.                                                              *)

(* The tree links a node whose entry has no cells yet.                     *)
LEMMA MapInsertKeepsInv ==
  ASSUME MapInv, NEW key \in Keys, NEW value \in Storable, map_insert(key, value)
  PROVE  /\ MapInv' /\ EntriesFollow(tree, entry, tree', entry')
         /\ HeldKeys(tree', entry') = HeldKeys(tree, entry)
         /\ UNCHANGED <<kind, value_cell, last>>
<1>1. /\ TreeInv' /\ tree'.alive /\ tree.alive
      /\ \E m \in Cells \ Nodes(tree) :
           /\ Nodes(tree') = Nodes(tree) \cup {m} /\ Key(tree', m) = key
           /\ \A l \in Nodes(tree) : Key(tree', l) = Key(tree, l)
  BY InsertNewKeepsInv DEF map_insert, MapInv, Ready
<1>2. PICK n \in Nodes(tree') \ Nodes(tree) :
        /\ entry' = With(entry, n, [key |-> CALLER, value |-> NULL])
        /\ req' = [Idle EXCEPT !.stage = "linked", !.key = key, !.value = value, !.node = n]
  BY DEF map_insert, Nodes
<1>3. /\ n \in Cells \ Nodes(tree) /\ Nodes(tree') = Nodes(tree) \cup {n} /\ Key(tree', n) = key
      /\ \A l \in Nodes(tree) : Key(tree', l) = Key(tree, l)
  BY <1>1, <1>2
<1>4. UNCHANGED <<kind, key_cell, value_cell, last>> /\ req = Idle
  BY DEF map_insert, Ready
<1>5. req' = [stage |-> "linked", key |-> key, value |-> value, node |-> n,
              allocated_key |-> NULL, value_to_delete |-> NULL]
  BY <1>2 DEF Idle
<1>6. /\ DOMAIN entry = Nodes(tree) /\ Holding(entry) \subseteq Nodes(tree)
      /\ \A l, m \in Nodes(tree) : Key(tree, l) = Key(tree, m) => l = m
      /\ \A l \in Nodes(tree) : entry[l] \in EntryType
  BY MapInvFacts, OneNodeEach
<1>7. /\ DOMAIN entry' = Nodes(tree') /\ entry'[n] = [key |-> CALLER, value |-> NULL]
      /\ \A l \in Nodes(tree) : entry'[l] = entry[l]
      /\ entry' = [l \in DOMAIN entry' |-> entry'[l]]
  BY <1>2, <1>3, <1>6, WithWithout DEF With
<1>8. Holding(entry') = Holding(entry) /\ n \notin Holding(entry')
  BY <1>3, <1>6, <1>7 DEF Holding
<1>9. EntriesTyped(entry', kind, Nodes(tree'))
  <2>1. [key |-> CALLER, value |-> NULL] \in EntryType
    BY DEF EntryType
  <2>2. entry' \in [Nodes(tree') -> EntryType]
    BY <1>3, <1>6, <1>7, <2>1
  <2> QED BY <1>3, <1>7, <2>2 DEF EntriesTyped, MapInv
<1>10. req' \in RequestType /\ Inserting(req')
  <2>1. value \in Values \cup {NULL}
    BY DEF Storable
  <2> QED BY <1>3, <1>5, <2>1 DEF RequestType, Inserting
<1>11. StageOK(req', kind, tree')
  BY <1>1, <1>3, <1>5 DEF StageOK, Storable, Inserting
<1>12. OneBorrows(req', entry')
  <2>1. \A l \in Nodes(tree) : l \in Holding(entry)
    BY <1>4, <1>6 DEF MapInv, OneBorrows, Idle, Inserting
  <2> QED BY <1>3, <1>5, <1>7, <1>8, <1>10, <2>1 DEF OneBorrows
<1>13. KeyPtrs(entry') = KeyPtrs(entry) /\ ValuePtrs(entry', kind) = ValuePtrs(entry, kind)
  BY <1>6, <1>7, <1>8 DEF KeyPtrs, ValuePtrs
<1>14. Owned(key_cell, KeyPtrs(entry'), NULL) /\ Owned(value_cell, ValuePtrs(entry', kind), NULL)
  BY <1>4, <1>13 DEF MapInv, Idle
<1>15. KeysMatch(entry', tree', key_cell)
  BY <1>3, <1>6, <1>7, <1>8 DEF MapInv, KeysMatch
<1>16. KindOK(kind, tree')
  BY <1>1 DEF MapInv, KindOK
<1>17. MapInv'
  BY <1>1, <1>4, <1>5, <1>9, <1>10, <1>11, <1>12, <1>14, <1>15, <1>16 DEF MapInv, Nodes
<1>18. EntriesFollow(tree, entry, tree', entry') /\ HeldKeys(tree', entry') = HeldKeys(tree, entry)
  BY <1>3, <1>6, <1>7, <1>8 DEF EntriesFollow, HeldKeys
<1> QED BY <1>4, <1>17, <1>18

(* While an insertion goes on, the cell for the key is allocated.          *)
LEMMA MapAllocateKeyKeepsInv ==
  ASSUME MapInv, map_allocate_key
  PROVE  /\ MapInv' /\ UNCHANGED <<tree, kind, entry, value_cell, last>>
<1>1. UNCHANGED <<vars, kind, entry, value_cell, last>> /\ req.stage = "linked" /\ kind = "map"
  BY DEF map_allocate_key, Continues
<1>2. PICK k \in FreshCells(DOMAIN key_cell, req.key) :
        /\ key_cell' = With(key_cell, k, UNINIT)
        /\ req' = [req EXCEPT !.stage = "key_allocated", !.allocated_key = k]
  BY DEF map_allocate_key
<1>3. req \in RequestType /\ req.key \in Keys /\ req.allocated_key = NULL /\ Inserting(req)
  BY <1>1 DEF MapInv, StageOK, Inserting
<1>4. k \in Cells \ DOMAIN key_cell /\ k # NULL
  BY <1>2, <1>3, AvlTreeAssumption DEF MapInv, CellsTyped
<1>5. /\ req'.stage = "key_allocated" /\ req'.allocated_key = k /\ req' \in RequestType
      /\ req'.key = req.key /\ req'.value = req.value /\ req'.node = req.node
      /\ req'.value_to_delete = req.value_to_delete
  BY <1>2, <1>3, <1>4 DEF RequestType
<1>6. TreeInv'
  BY <1>1 DEF MapInv, TreeInv, CallTyped, vars, Nodes
<1>7. CellsTyped(key_cell', value_cell)
  BY <1>2, <1>4, WithWithout DEF MapInv, CellsTyped, With
<1>8. StageOK(req', kind, tree)
  BY <1>1, <1>3, <1>4, <1>5 DEF MapInv, StageOK, Inserting
<1>9. OneBorrows(req', entry)
  BY <1>3, <1>5 DEF MapInv, OneBorrows, Inserting
<1>10. Owned(key_cell', KeyPtrs(entry), k)
  BY <1>2, <1>3, <1>4, AllocateLocal DEF MapInv
<1>11. KeysMatch(entry, tree, key_cell')
  <2>1. \A n \in Holding(entry) : entry[n].key \in DOMAIN key_cell
    BY MapInvFacts DEF MapInv, Owned, Pointers
  <2>2. \A c \in DOMAIN key_cell \ {k} : With(key_cell, k, UNINIT)[c] = key_cell[c]
    BY DEF With
  <2> QED BY <1>2, <1>4, <2>1, <2>2 DEF MapInv, KeysMatch
<1>12. tree' = tree
  BY <1>1 DEF vars
<1> QED BY <1>1, <1>5, <1>6, <1>7, <1>8, <1>9, <1>10, <1>11, <1>12 DEF MapInv, Nodes

(* The cell k for the key and, in a map, the cell v for the value are      *)
(* stored in the entry that waits for them.                                *)
LEMMA StoreEntryKeepsInv ==
  ASSUME MapInv, Inserting(req), NEW k \in Cells, NEW v \in Cells \cup {NULL}, store_entry(k, v),
         Owned(key_cell', KeyPtrs(entry), k),
         \A c \in DOMAIN key_cell \ {k} : key_cell'[c] = key_cell[c],
         IF kind = "map" THEN v \in Cells \ DOMAIN value_cell ELSE v = NULL
  PROVE  /\ MapInv' /\ EntriesFollow(tree, entry, tree', entry')
         /\ req.key \notin HeldKeys(tree, entry) /\ req.key \in Keys /\ req.value \in Storable
         /\ HeldKeys(tree', entry') = HeldKeys(tree, entry) \cup {req.key}
         /\ req.node \in Holding(entry') /\ Key(tree', req.node) = req.key
         /\ kind = "map" => value_cell'[entry'[req.node].value] = req.value
         /\ ValuesStay(entry, kind, value_cell, value_cell')
<1> DEFINE n == req.node
<1>1. /\ entry' = [entry EXCEPT ![n] = [key |-> k, value |-> v]]
      /\ key_cell' = With(key_cell, k, req.key)
      /\ value_cell' = IF v = NULL THEN value_cell ELSE With(value_cell, v, req.value)
      /\ req' = Idle /\ UNCHANGED <<vars, kind>>
  BY DEF store_entry
<1>2. /\ req.key \in Keys /\ req.value \in Storable /\ req.value_to_delete = NULL
      /\ n \in Nodes(tree) /\ Key(tree, n) = req.key /\ req \in RequestType /\ tree.alive
  BY DEF MapInv, StageOK, Inserting, Storable
<1>3. /\ DOMAIN entry = Nodes(tree) /\ Holding(entry) = Nodes(tree) \ {n}
      /\ \A l, m \in Nodes(tree) : Key(tree, l) = Key(tree, m) => l = m
      /\ \A l \in Nodes(tree) : entry[l] \in EntryType
      /\ NULL \notin Cells /\ CALLER \notin Cells
  <2>1. DOMAIN entry = Nodes(tree) /\ Holding(entry) \subseteq Nodes(tree)
    BY MapInvFacts
  <2>2. \A l \in Nodes(tree) : l \notin Holding(entry) <=> l = n
    BY <2>1 DEF MapInv, OneBorrows
  <2> QED BY <1>2, <2>1, <2>2, MapInvFacts, OneNodeEach, AvlTreeAssumption, MapAssumption
<1>4. /\ DOMAIN entry' = Nodes(tree) /\ entry'[n] = [key |-> k, value |-> v]
      /\ \A l \in Nodes(tree) \ {n} : entry'[l] = entry[l]
      /\ entry' = [l \in DOMAIN entry' |-> entry'[l]]
  BY <1>1, <1>2, <1>3
<1>5. Holding(entry') = Nodes(tree)
  BY <1>2, <1>3, <1>4 DEF Holding
<1>6. tree' = tree /\ TreeInv' /\ kind' = kind
  BY <1>1 DEF MapInv, TreeInv, CallTyped, vars, Nodes
<1> HIDE DEF n
<1>7. EntriesTyped(entry', kind, Nodes(tree))
  <2>1. [key |-> k, value |-> v] \in EntryType
    BY DEF EntryType
  <2>2. entry' \in [Nodes(tree) -> EntryType]
    BY <1>2, <1>3, <1>4, <2>1
  <2>3. kind = "set" => v = NULL
    OBVIOUS
  <2> QED BY <1>4, <2>2, <2>3 DEF EntriesTyped, MapInv
<1>8. CellsTyped(key_cell', value_cell')
  <2>1. v # NULL => req.value \in Values
    BY <1>2 DEF Storable
  <2>2. DOMAIN key_cell' \subseteq Cells /\ key_cell' \in [DOMAIN key_cell' -> Keys \cup {UNINIT}]
    BY <1>1, <1>2 DEF MapInv, CellsTyped, With
  <2>3. DOMAIN value_cell' \subseteq Cells /\ value_cell' \in [DOMAIN value_cell' -> Values]
    <3>1. CASE v = NULL
      BY <1>1, <3>1 DEF MapInv, CellsTyped
    <3>2. CASE v # NULL
      BY <1>1, <2>1, <3>2 DEF MapInv, CellsTyped, With
    <3> QED BY <3>1, <3>2
  <2> QED BY <2>2, <2>3 DEF CellsTyped
<1>9. req' \in RequestType /\ ~Inserting(req') /\ StageOK(req', kind, tree)
  BY <1>1 DEF RequestType, Idle, Inserting, StageOK
<1>10. OneBorrows(req', entry')
  BY <1>4, <1>5, <1>9 DEF OneBorrows
<1>11. Owned(key_cell', KeyPtrs(entry'), NULL)
  <2>1. DOMAIN KeyPtrs(entry) = Holding(entry) /\ DOMAIN KeyPtrs(entry') = Nodes(tree)
    BY <1>5 DEF KeyPtrs
  <2>2. KeyPtrs(entry')[n] = k /\ \A l \in Holding(entry) : KeyPtrs(entry')[l] = KeyPtrs(entry)[l]
    BY <1>2, <1>3, <1>4, <1>5 DEF KeyPtrs
  <2>3. NULL \notin DOMAIN key_cell'
    BY <1>3, <1>8 DEF CellsTyped
  <2> HIDE DEF KeyPtrs
  <2> QED BY <1>2, <1>3, <2>1, <2>2, <2>3, StoreLocal
<1>12. Owned(value_cell', ValuePtrs(entry', kind), NULL)
  <2>1. CASE kind = "map"
    <3>1. DOMAIN ValuePtrs(entry, kind) = Holding(entry) /\ DOMAIN ValuePtrs(entry', kind) = Nodes(tree)
      BY <1>5, <2>1 DEF ValuePtrs
    <3>2. /\ ValuePtrs(entry', kind)[n] = v
          /\ \A l \in Holding(entry) : ValuePtrs(entry', kind)[l] = ValuePtrs(entry, kind)[l]
      BY <1>2, <1>3, <1>4, <1>5, <2>1 DEF ValuePtrs
    <3>3. NULL \notin DOMAIN value_cell' /\ v # NULL
      BY <1>3, <1>8, <2>1 DEF CellsTyped
    <3>4. Owned(value_cell', ValuePtrs(entry, kind), v)
      BY <1>1, <1>2, <2>1, <3>3, AllocateLocal DEF MapInv
    <3> HIDE DEF ValuePtrs
    <3> QED BY <1>2, <1>3, <3>1, <3>2, <3>3, <3>4, StoreLocal
  <2>2. CASE kind # "map"
    <3>1. ValuePtrs(entry', kind) = ValuePtrs(entry, kind)
      BY <2>2 DEF ValuePtrs
    <3> QED BY <1>1, <1>2, <2>2, <3>1 DEF MapInv
  <2> QED BY <2>1, <2>2
<1>13. KeysMatch(entry', tree, key_cell')
  <2>1. key_cell'[k] = req.key /\ DOMAIN key_cell' = DOMAIN key_cell \cup {k}
    <3>1. With(key_cell, k, req.key)[k] = req.key
      BY DEF With
    <3>2. DOMAIN With(key_cell, k, req.key) = DOMAIN key_cell \cup {k}
      BY DEF With
    <3> QED BY <1>1, <3>1, <3>2
  <2>2. \A l \in Holding(entry) : entry[l].key \in DOMAIN key_cell' /\ entry[l].key # k
    BY MapInvFacts DEF Owned, Pointers
  <2>3. \A l \in Holding(entry) : key_cell'[entry[l].key] = Key(tree, l)
    <3>1. \A l \in Holding(entry) : entry[l].key \in DOMAIN key_cell
      BY <2>1, <2>2
    <3> QED BY <2>2, <3>1 DEF MapInv, KeysMatch
  <2> QED BY <1>2, <1>3, <1>4, <1>5, <2>1, <2>3 DEF KeysMatch
<1>14. MapInv'
  BY <1>1, <1>6, <1>7, <1>8, <1>9, <1>10, <1>11, <1>12, <1>13 DEF MapInv, Nodes, Idle
<1>15. EntriesFollow(tree, entry, tree', entry')
  BY <1>3, <1>4, <1>5, <1>6 DEF EntriesFollow
<1>16. req.key \notin HeldKeys(tree, entry) /\ HeldKeys(tree', entry') = HeldKeys(tree, entry) \cup {req.key}
  BY <1>2, <1>3, <1>5, <1>6 DEF HeldKeys
<1>17. ASSUME kind = "map"
       PROVE  /\ value_cell'[v] = req.value
              /\ \A l \in Holding(entry) : value_cell'[entry[l].value] = value_cell[entry[l].value]
  <2>1. v # NULL /\ value_cell' = With(value_cell, v, req.value) /\ v \notin DOMAIN value_cell
    BY <1>1, <1>3, <1>17
  <2>2. \A l \in Holding(entry) : entry[l].value \in DOMAIN value_cell
    BY <1>17, MapInvFacts DEF MapInv, Owned, Pointers
  <2>3. /\ With(value_cell, v, req.value)[v] = req.value
        /\ \A c \in DOMAIN value_cell \ {v} : With(value_cell, v, req.value)[c] = value_cell[c]
    BY DEF With
  <2> QED BY <2>1, <2>2, <2>3
<1> QED BY <1>2, <1>4, <1>5, <1>6, <1>14, <1>15, <1>16, <1>17 DEF ValuesStay, n

-----------------------------------------------------------------------------
(* Erasing a node.                                                         *)

(* Every entry that is left is the one that its key had before, although   *)
(* the tree has moved an entry from the freed node to another one.         *)
LEMMA EraseEntry ==
  ASSUME MapInv, NEW key \in Keys, erase(key), find(tree, key) # NULL,
         entry' = entry_without(key), kind' = kind, NEW n, n = find(tree, key),
         NEW v, v = victim(n)
  PROVE  /\ n \in Nodes(tree) /\ v \in Nodes(tree) /\ Key(tree, n) = key
         /\ TreeInv' /\ tree'.alive /\ tree.alive
         /\ Nodes(tree') = Nodes(tree) \ {v} /\ DOMAIN entry' = Nodes(tree')
         /\ \A m \in Nodes(tree') : /\ Source(m, n, v) \in Nodes(tree) \ {n}
                                    /\ entry'[m] = entry[Source(m, n, v)]
                                    /\ Key(tree', m) = Key(tree, Source(m, n, v))
         /\ Holding(entry') = {m \in Nodes(tree) \ {v} : Source(m, n, v) \in Holding(entry)}
         /\ Moved(KeyPtrs(entry), KeyPtrs(entry'), Nodes(tree), n, v)
         /\ Moved(ValuePtrs(entry, kind), ValuePtrs(entry', kind), Nodes(tree), n, v)
         /\ EntriesTyped(entry', kind, Nodes(tree'))
         /\ KindOK(kind, tree')
         /\ EntriesFollow(tree, entry, tree', entry')
         /\ HeldKeys(tree', entry') = HeldKeys(tree, entry) \ {key}
<1>1. /\ n \in Nodes(tree) /\ Key(tree, n) = key /\ Erased(tree, tree', n, v)
      /\ TreeInv' /\ tree'.alive /\ tree.alive
  BY EraseKeepsInv DEF MapInv, erase, Callable
<1>2. /\ v \in Nodes(tree) /\ Nodes(tree') = Nodes(tree) \ {v}
      /\ \A m \in Nodes(tree') : Key(tree', m) = IF m = n THEN Key(tree, v) ELSE Key(tree, m)
  BY <1>1 DEF Erased
<1>3. /\ DOMAIN entry = Nodes(tree) /\ Holding(entry) \subseteq Nodes(tree)
      /\ \A l, m \in Nodes(tree) : Key(tree, l) = Key(tree, m) => l = m
      /\ \A l \in Nodes(tree) : entry[l] \in EntryType
  BY MapInvFacts, OneNodeEach
<1>4. entry' = Without([entry EXCEPT ![n] = entry[v]], v)
  BY DEF entry_without
<1>5. /\ entry' = [m \in DOMAIN entry' |-> entry'[m]] /\ DOMAIN entry' = Nodes(tree) \ {v}
      /\ \A m \in Nodes(tree) \ {v} : entry'[m] = entry[Source(m, n, v)]
  <2> DEFINE moved == [entry EXCEPT ![n] = entry[v]]
  <2>1. /\ DOMAIN moved = Nodes(tree) /\ moved[n] = entry[v]
        /\ \A m \in Nodes(tree) \ {n} : moved[m] = entry[m]
    BY <1>1, <1>3
  <2>2. entry' = [m \in DOMAIN moved \ {v} |-> moved[m]]
    BY <1>4 DEF Without
  <2> HIDE DEF moved
  <2> QED BY <2>1, <2>2 DEF Source
<1>6. \A m \in Nodes(tree') : /\ Source(m, n, v) \in Nodes(tree) \ {n}
                              /\ Key(tree', m) = Key(tree, Source(m, n, v))
  BY <1>2 DEF Source
<1>7. Holding(entry') = {m \in Nodes(tree) \ {v} : Source(m, n, v) \in Holding(entry)}
  BY <1>2, <1>3, <1>5, <1>6 DEF Holding
<1>8. Moved(KeyPtrs(entry), KeyPtrs(entry'), Nodes(tree), n, v)
  BY <1>5, <1>7 DEF Moved, KeyPtrs
<1>9. Moved(ValuePtrs(entry, kind), ValuePtrs(entry', kind), Nodes(tree), n, v)
  BY <1>5, <1>7 DEF Moved, ValuePtrs
<1>10. EntriesTyped(entry', kind, Nodes(tree'))
  <2>1. \A m \in Nodes(tree') : entry'[m] \in EntryType
    BY <1>2, <1>3, <1>5, <1>6
  <2>2. kind = "set" => \A m \in Nodes(tree') : entry'[m].value = NULL
    BY <1>2, <1>5, <1>6 DEF MapInv, EntriesTyped
  <2> QED BY <1>2, <1>5, <2>1, <2>2 DEF EntriesTyped
<1>11. KindOK(kind, tree')
  BY <1>1 DEF MapInv, KindOK
<1>12. EntriesFollow(tree, entry, tree', entry')
  <2> SUFFICES ASSUME NEW l \in Holding(entry), NEW m \in Holding(entry'),
                      Key(tree, l) = Key(tree', m)
               PROVE  entry'[m] = entry[l]
    BY DEF EntriesFollow
  <2>1. m \in Nodes(tree') /\ Source(m, n, v) \in Nodes(tree) /\ l \in Nodes(tree)
    BY <1>2, <1>3, <1>6, <1>7
  <2>2. l = Source(m, n, v)
    BY <1>3, <1>6, <2>1
  <2> QED BY <1>2, <1>5, <2>1, <2>2
<1>13. HeldKeys(tree', entry') = HeldKeys(tree, entry) \ {key}
  <2>1. ASSUME NEW m \in Holding(entry')
        PROVE  Key(tree', m) \in HeldKeys(tree, entry) \ {key}
    <3>1. /\ m \in Nodes(tree') /\ Source(m, n, v) \in Holding(entry)
          /\ Source(m, n, v) \in Nodes(tree) \ {n}
          /\ Key(tree', m) = Key(tree, Source(m, n, v))
      BY <1>2, <1>6, <1>7
    <3> QED BY <1>1, <1>3, <3>1 DEF HeldKeys
  <2>2. ASSUME NEW l \in Holding(entry), Key(tree, l) # key
        PROVE  \E m \in Holding(entry') : Key(tree', m) = Key(tree, l)
    <3>1. l \in Nodes(tree) /\ l # n
      BY <1>1, <1>3, <2>2
    <3>2. CASE l = v
      <4>1. n \in Holding(entry') /\ Source(n, n, v) = l
        BY <1>1, <1>7, <3>1, <3>2 DEF Source
      <4> QED BY <1>2, <1>6, <1>7, <4>1
    <3>3. CASE l # v
      <4>1. l \in Holding(entry') /\ Source(l, n, v) = l
        BY <1>7, <3>1, <3>3 DEF Source
      <4> QED BY <1>2, <1>6, <1>7, <4>1
    <3> QED BY <3>2, <3>3
  <2> QED BY <2>1, <2>2 DEF HeldKeys
<1> QED BY <1>1, <1>2, <1>5, <1>6, <1>7, <1>8, <1>9, <1>10, <1>11, <1>12, <1>13

(* The keys stay in the cells, at the addresses that have moved.           *)
LEMMA EraseKeepsKeys ==
  ASSUME MapInv, NEW n, NEW v, NEW u, NEW ent,
         Holding(ent) = {m \in Nodes(tree) \ {v} : Source(m, n, v) \in Holding(entry)},
         \A m \in Nodes(tree) \ {v} : /\ ent[m] = entry[Source(m, n, v)]
                                      /\ Key(u, m) = Key(tree, Source(m, n, v))
  PROVE  KeysMatch(ent, u, key_cell)
BY DEF MapInv, KeysMatch

(* An insertion that fails half way erases its node again.                 *)
LEMMA AllocationFailsKeepsInv ==
  ASSUME MapInv, allocation_fails
  PROVE  /\ MapInv' /\ EntriesFollow(tree, entry, tree', entry')
         /\ HeldKeys(tree', entry') = HeldKeys(tree, entry)
         /\ UNCHANGED <<kind, value_cell, last>>
<1> DEFINE key == req.key
           n == find(tree, key)
           v == victim(n)
<1>1. /\ Inserting(req) /\ erase(key) /\ entry' = entry_without(key)
      /\ req' = [req EXCEPT !.stage = "undone", !.node = NULL]
      /\ UNCHANGED <<kind, key_cell, value_cell, last>>
  BY DEF allocation_fails, Continues, Inserting
<1>2. /\ key \in Keys /\ req.node \in Nodes(tree) /\ Key(tree, req.node) = key
      /\ req.value_to_delete = NULL /\ req \in RequestType
      /\ req.value \in (IF kind = "map" THEN Values ELSE {NULL})
  BY <1>1 DEF MapInv, StageOK, Inserting
<1>3. n = req.node /\ n # NULL
  <2>1. PICK bound : InOrder(tree, bound)
    BY DEF MapInv, TreeInv, TreeInOrder
  <2>2. find(tree, Key(tree, req.node)) = req.node
    BY <1>2, <2>1, FindStored DEF MapInv, TreeInv, TreeInOrder
  <2> QED BY <1>2, <2>2, MapInvFacts
<1>4. n \notin Holding(entry)
  BY <1>1, <1>2, <1>3, MapInvFacts DEF MapInv, OneBorrows
<1> HIDE DEF key, n, v
<1>5. /\ n \in Nodes(tree) /\ v \in Nodes(tree) /\ Key(tree, n) = key
      /\ TreeInv' /\ tree'.alive
      /\ Nodes(tree') = Nodes(tree) \ {v} /\ DOMAIN entry' = Nodes(tree')
      /\ \A m \in Nodes(tree') : /\ Source(m, n, v) \in Nodes(tree) \ {n}
                                 /\ entry'[m] = entry[Source(m, n, v)]
                                 /\ Key(tree', m) = Key(tree, Source(m, n, v))
      /\ Holding(entry') = {m \in Nodes(tree) \ {v} : Source(m, n, v) \in Holding(entry)}
      /\ Moved(KeyPtrs(entry), KeyPtrs(entry'), Nodes(tree), n, v)
      /\ Moved(ValuePtrs(entry, kind), ValuePtrs(entry', kind), Nodes(tree), n, v)
      /\ EntriesTyped(entry', kind, Nodes(tree')) /\ KindOK(kind, tree')
      /\ EntriesFollow(tree, entry, tree', entry')
      /\ HeldKeys(tree', entry') = HeldKeys(tree, entry) \ {key}
  <2>1. erase(key) /\ find(tree, key) # NULL /\ entry' = entry_without(key) /\ kind' = kind
        /\ n = find(tree, key) /\ v = victim(n) /\ key \in Keys
    BY <1>1, <1>2, <1>3 DEF key, n, v
  <2> QED BY <2>1, EraseEntry
<1>6. /\ req'.stage = "undone" /\ req'.node = NULL /\ req'.key = key /\ req' \in RequestType
      /\ req'.value = req.value /\ req'.allocated_key = req.allocated_key
      /\ req'.value_to_delete = NULL
  BY <1>1, <1>2 DEF RequestType, key
<1>7. /\ DOMAIN entry = Nodes(tree) /\ Holding(entry) \subseteq Nodes(tree)
      /\ DOMAIN KeyPtrs(entry) = Holding(entry)
      /\ DOMAIN ValuePtrs(entry, kind) \subseteq Holding(entry)
      /\ \A l, m \in Nodes(tree) : Key(tree, l) = Key(tree, m) => l = m
  BY MapInvFacts, OneNodeEach
<1>8. HeldKeys(tree', entry') = HeldKeys(tree, entry)
  <2>1. \A l \in Holding(entry) : l \in Nodes(tree) /\ l # n
    BY <1>4, <1>7
  <2>2. \A l \in Holding(entry) : Key(tree, l) # key
    BY <1>5, <1>7, <2>1
  <2>3. key \notin HeldKeys(tree, entry)
    BY <2>2 DEF HeldKeys
  <2> QED BY <1>5, <2>3
<1>9. StageOK(req', kind, tree')
  <2>1. \A m \in Nodes(tree') : Key(tree', m) # key
    BY <1>5, <1>7
  <2> QED BY <1>2, <1>5, <1>6, <2>1 DEF StageOK, Inserting
<1>10. OneBorrows(req', entry')
  <2>1. ~Inserting(req')
    BY <1>6 DEF Inserting
  <2>2. \A m \in Nodes(tree) \ {n} : m \in Holding(entry)
    BY <1>3, <1>7 DEF MapInv, OneBorrows
  <2>3. \A m \in DOMAIN entry' : m \in Holding(entry')
    BY <1>5, <2>2
  <2> QED BY <2>1, <2>3 DEF OneBorrows
<1>11. Owned(key_cell, KeyPtrs(entry'), req.allocated_key)
  BY <1>4, <1>5, <1>7, MoveKeepsOwners DEF MapInv
<1>12. Owned(value_cell, ValuePtrs(entry', kind), NULL)
  BY <1>2, <1>4, <1>5, <1>7, MoveKeepsOwners DEF MapInv
<1>13. KeysMatch(entry', tree', key_cell)
  BY <1>5, EraseKeepsKeys
<1>14. MapInv'
  BY <1>1, <1>2, <1>5, <1>6, <1>9, <1>10, <1>11, <1>12, <1>13 DEF MapInv, Nodes
<1> QED BY <1>1, <1>5, <1>8, <1>14

(* A call of the tree between two states of the container.                 *)
LEMMA TreeUnchanged ==
  ASSUME TreeInv, UNCHANGED vars
  PROVE  TreeInv' /\ tree' = tree
BY DEF TreeInv, CallTyped, vars, Nodes

(* Then the key cell is released, if there is one.                         *)
LEMMA InsertReturnsNullKeepsInv ==
  ASSUME MapInv, insert_returns_null
  PROVE  /\ MapInv' /\ UNCHANGED <<tree, kind, entry, value_cell>>
         /\ req.key \in Keys /\ req.value \in Storable /\ req.key \notin HeldKeys(tree, entry)
<1>1. /\ req.stage = "undone" /\ key_cell' = Freed(key_cell, req.allocated_key) /\ req' = Idle
      /\ UNCHANGED <<vars, kind, entry, value_cell>>
  BY DEF insert_returns_null, Continues
<1>2. TreeInv' /\ tree' = tree
  BY <1>1, TreeUnchanged DEF MapInv
<1>3. /\ req.key \in Keys /\ req.value \in Storable /\ req.value_to_delete = NULL
      /\ \A n \in Nodes(tree) : Key(tree, n) # req.key
  BY <1>1 DEF MapInv, StageOK, Storable
<1>4. req' \in RequestType /\ StageOK(req', kind, tree) /\ ~Inserting(req')
  BY <1>1 DEF RequestType, Idle, StageOK, Inserting
<1>5. OneBorrows(req', entry)
  <2>1. ~Inserting(req)
    BY <1>1 DEF Inserting
  <2> QED BY <1>4, <2>1 DEF MapInv, OneBorrows
<1>6. Owned(key_cell', KeyPtrs(entry), NULL)
  BY <1>1, FreeLocal, MapInvFacts DEF MapInv
<1>7. CellsTyped(key_cell', value_cell)
  BY <1>1 DEF MapInv, CellsTyped, Freed, Without
<1>8. KeysMatch(entry, tree, key_cell')
  <2>1. \A n \in Holding(entry) : entry[n].key \in DOMAIN key_cell /\ entry[n].key # req.allocated_key
    BY MapInvFacts DEF MapInv, Owned, Pointers
  <2>2. \A c \in DOMAIN key_cell \ {req.allocated_key} : key_cell'[c] = key_cell[c]
    BY <1>1 DEF Freed, Without
  <2> QED BY <2>1, <2>2 DEF MapInv, KeysMatch
<1>9. MapInv'
  BY <1>1, <1>2, <1>3, <1>4, <1>5, <1>6, <1>7, <1>8 DEF MapInv, Idle, Nodes
<1>10. req.key \notin HeldKeys(tree, entry)
  BY <1>3, MapInvFacts DEF HeldKeys
<1> QED BY <1>1, <1>2, <1>3, <1>9, <1>10

(* erase takes the cells of the entry into its local variables.            *)
LEMMA MapEraseKeepsInv ==
  ASSUME MapInv, NEW key \in Keys, map_erase(key)
  PROVE  /\ MapInv' /\ tree.alive /\ tree'.alive /\ EntriesFollow(tree, entry, tree', entry')
         /\ HeldKeys(tree', entry') = HeldKeys(tree, entry) \ {key}
         /\ UNCHANGED <<kind, value_cell>>
<1> DEFINE n == find(tree, key)
           v == victim(n)
<1>1. /\ req = Idle /\ find(tree, key) # NULL /\ erase(key) /\ entry' = entry_without(key)
      /\ req' = [Idle EXCEPT !.stage = "erased", !.allocated_key = entry[n].key,
                             !.value_to_delete = entry[n].value]
      /\ UNCHANGED <<kind, key_cell, value_cell>>
  BY DEF map_erase, Ready
<1> HIDE DEF n, v
<1>2. /\ n \in Nodes(tree) /\ v \in Nodes(tree) /\ Key(tree, n) = key
      /\ TreeInv' /\ tree'.alive /\ tree.alive
      /\ Nodes(tree') = Nodes(tree) \ {v} /\ DOMAIN entry' = Nodes(tree')
      /\ \A m \in Nodes(tree') : /\ Source(m, n, v) \in Nodes(tree) \ {n}
                                 /\ entry'[m] = entry[Source(m, n, v)]
                                 /\ Key(tree', m) = Key(tree, Source(m, n, v))
      /\ Holding(entry') = {m \in Nodes(tree) \ {v} : Source(m, n, v) \in Holding(entry)}
      /\ Moved(KeyPtrs(entry), KeyPtrs(entry'), Nodes(tree), n, v)
      /\ Moved(ValuePtrs(entry, kind), ValuePtrs(entry', kind), Nodes(tree), n, v)
      /\ EntriesTyped(entry', kind, Nodes(tree')) /\ KindOK(kind, tree')
      /\ EntriesFollow(tree, entry, tree', entry')
      /\ HeldKeys(tree', entry') = HeldKeys(tree, entry) \ {key}
  <2>1. n = find(tree, key) /\ v = victim(n)
    BY DEF n, v
  <2> QED BY <1>1, <2>1, EraseEntry
<1>3. /\ DOMAIN entry = Nodes(tree) /\ Holding(entry) = Nodes(tree)
      /\ DOMAIN KeyPtrs(entry) = Nodes(tree) /\ KeyPtrs(entry)[n] = entry[n].key
      /\ entry[n] \in EntryType /\ entry[n].key # CALLER
  <2>1. Holding(entry) = Nodes(tree)
    BY <1>1, MapInvFacts DEF MapInv, OneBorrows, Inserting, Idle
  <2> QED BY <1>2, <2>1, MapInvFacts DEF Holding
<1>4. req' = [stage |-> "erased", key |-> NULL, value |-> NULL, node |-> NULL,
              allocated_key |-> entry[n].key, value_to_delete |-> entry[n].value]
  BY <1>1 DEF Idle
<1>5. req' \in RequestType /\ StageOK(req', kind, tree') /\ ~Inserting(req')
  BY <1>2, <1>3, <1>4 DEF RequestType, EntryType, StageOK, Inserting
<1>6. OneBorrows(req', entry')
  BY <1>2, <1>3, <1>5 DEF OneBorrows
<1>7. Owned(key_cell, KeyPtrs(entry'), entry[n].key)
  <2>1. Owned(key_cell, KeyPtrs(entry), NULL)
    BY <1>1 DEF MapInv, Idle
  <2>2. Owned(key_cell, KeyPtrs(entry'), KeyPtrs(entry)[n])
    BY <1>2, <1>3, <2>1, MoveLeavesCell, MapInvFacts
  <2> QED BY <1>3, <2>2
<1>8. Owned(value_cell, ValuePtrs(entry', kind), entry[n].value)
  <2>1. Owned(value_cell, ValuePtrs(entry, kind), NULL)
    BY <1>1 DEF MapInv, Idle
  <2>2. CASE kind = "map"
    <3>1. DOMAIN ValuePtrs(entry, kind) = Nodes(tree) /\ ValuePtrs(entry, kind)[n] = entry[n].value
      BY <1>2, <1>3, <2>2, MapInvFacts
    <3>2. Owned(value_cell, ValuePtrs(entry', kind), ValuePtrs(entry, kind)[n])
      BY <1>2, <2>1, <3>1, MoveLeavesCell, MapInvFacts
    <3> QED BY <3>1, <3>2
  <2>3. CASE kind # "map"
    <3>1. entry[n].value = NULL
      BY <1>2, <2>3 DEF MapInv, KindOK, EntriesTyped
    <3>2. DOMAIN ValuePtrs(entry, kind) = {}
      BY <2>3, MapInvFacts
    <3>3. Owned(value_cell, ValuePtrs(entry', kind), NULL)
      BY <1>2, <2>1, <3>2, MoveKeepsOwners
    <3> QED BY <3>1, <3>3
  <2> QED BY <2>2, <2>3
<1>9. KeysMatch(entry', tree', key_cell)
  BY <1>2, EraseKeepsKeys
<1>10. MapInv'
  BY <1>1, <1>2, <1>4, <1>5, <1>6, <1>7, <1>8, <1>9 DEF MapInv, Nodes
<1> QED BY <1>1, <1>2, <1>10

(* Then both cells are released.                                           *)
LEMMA FreeErasedKeepsInv ==
  ASSUME MapInv, free_erased
  PROVE  /\ MapInv' /\ UNCHANGED <<tree, kind, entry, last>>
         /\ ValuesStay(entry, kind, value_cell, value_cell')
<1>1. /\ req.stage = "erased" /\ req' = Idle
      /\ key_cell' = Freed(key_cell, req.allocated_key)
      /\ value_cell' = Freed(value_cell, req.value_to_delete)
      /\ UNCHANGED <<vars, kind, entry, last>>
  BY DEF free_erased, Continues
<1>2. TreeInv' /\ tree' = tree
  BY <1>1, TreeUnchanged DEF MapInv
<1>3. req' \in RequestType /\ StageOK(req', kind, tree) /\ ~Inserting(req') /\ ~Inserting(req)
  BY <1>1 DEF RequestType, Idle, StageOK, Inserting
<1>4. OneBorrows(req', entry)
  BY <1>3 DEF MapInv, OneBorrows
<1>5. Owned(key_cell', KeyPtrs(entry), NULL) /\ Owned(value_cell', ValuePtrs(entry, kind), NULL)
  BY <1>1, FreeLocal, MapInvFacts DEF MapInv
<1>6. CellsTyped(key_cell', value_cell')
  BY <1>1 DEF MapInv, CellsTyped, Freed, Without
<1>7. KeysMatch(entry, tree, key_cell')
  <2>1. \A n \in Holding(entry) : entry[n].key \in DOMAIN key_cell /\ entry[n].key # req.allocated_key
    BY MapInvFacts DEF MapInv, Owned, Pointers
  <2>2. \A c \in DOMAIN key_cell \ {req.allocated_key} : key_cell'[c] = key_cell[c]
    BY <1>1 DEF Freed, Without
  <2> QED BY <2>1, <2>2 DEF MapInv, KeysMatch
<1>8. ValuesStay(entry, kind, value_cell, value_cell')
  <2> SUFFICES ASSUME kind = "map", NEW n \in Holding(entry)
               PROVE  value_cell'[entry[n].value] = value_cell[entry[n].value]
    BY DEF ValuesStay
  <2>1. entry[n].value \in DOMAIN value_cell /\ entry[n].value # req.value_to_delete
    BY MapInvFacts DEF MapInv, Owned, Pointers
  <2>2. \A c \in DOMAIN value_cell \ {req.value_to_delete} : value_cell'[c] = value_cell[c]
    BY <1>1 DEF Freed, Without
  <2> QED BY <2>1, <2>2
<1>9. MapInv'
  BY <1>1, <1>2, <1>3, <1>4, <1>5, <1>6, <1>7 DEF MapInv, Idle, Nodes
<1> QED BY <1>1, <1>2, <1>8, <1>9

(* An assignment through an iterator writes to one value cell.             *)
LEMMA AssignKeepsInv ==
  ASSUME MapInv, NEW n \in Nodes(tree), NEW value \in Values, assign(n, value)
  PROVE  /\ MapInv' /\ UNCHANGED <<tree, kind, entry>> /\ kind = "map" /\ tree.alive
         /\ n \in Holding(entry) /\ value_cell'[entry[n].value] = value
         /\ \A m \in Holding(entry) \ {n} : value_cell'[entry[m].value] = value_cell[entry[m].value]
<1>1. /\ req = Idle /\ kind = "map" /\ tree.alive
      /\ value_cell' = [value_cell EXCEPT ![entry[n].value] = value]
      /\ UNCHANGED <<vars, kind, entry, key_cell, req>>
  BY DEF assign, Ready
<1>2. TreeInv' /\ tree' = tree
  BY <1>1, TreeUnchanged DEF MapInv
<1>3. n \in Holding(entry)
  BY <1>1, MapInvFacts DEF MapInv, OneBorrows, Inserting, Idle
<1>4. /\ \A m \in Holding(entry) : entry[m].value \in DOMAIN value_cell
      /\ \A m \in Holding(entry) : entry[m].value = entry[n].value => m = n
  BY <1>1, <1>3, MapInvFacts DEF MapInv, Owned, Pointers
<1>5. DOMAIN value_cell' = DOMAIN value_cell /\ CellsTyped(key_cell, value_cell')
  BY <1>1, <1>3, <1>4 DEF MapInv, CellsTyped
<1>6. Owned(value_cell', ValuePtrs(entry, kind), req.value_to_delete)
  BY <1>5, SameOwners DEF MapInv
<1>7. MapInv'
  BY <1>1, <1>2, <1>5, <1>6 DEF MapInv, Nodes
<1>8. value_cell'[entry[n].value] = value
  BY <1>1, <1>3, <1>4
<1>9. \A m \in Holding(entry) \ {n} : value_cell'[entry[m].value] = value_cell[entry[m].value]
  BY <1>1, <1>3, <1>4 DEF MapInv, CellsTyped
<1> QED BY <1>1, <1>2, <1>3, <1>7, <1>8, <1>9

-----------------------------------------------------------------------------
(* Clearing.                                                               *)

(* A set of nodes has one with the greatest key.                           *)
LEMMA GreatestNode ==
  ASSUME NEW t, IsTree(t), NEW S \in SUBSET Nodes(t), S # {}
  PROVE  \E m \in S : \A x \in S : ~(Key(t, x) > Key(t, m))
<1> DEFINE Sub(m) == {x \in Nodes(t) : Key(t, x) > Key(t, m)}
           T == {Sub(m) : m \in S}
           R == StrictSubsetOrdering(Nodes(t))
<1>1. IsWellFoundedOn(R, SUBSET Nodes(t))
  BY FS_StrictSubsetOrderingWellFounded, FS_FiniteSubsetsOfFinite DEF IsTree, Nodes
<1>2. T \subseteq SUBSET Nodes(t) /\ T # {}
  OBVIOUS
<1>3. PICK least \in T : \A y \in T : <<y, least>> \notin R
  <2> HIDE DEF T, R
  <2> QED BY <1>1, <1>2, WFMin
<1>4. PICK m \in S : least = Sub(m)
  OBVIOUS
<1>5. ASSUME NEW x \in S, Key(t, x) > Key(t, m)
      PROVE  FALSE
  <2>1. \A y \in Nodes(t) : Key(t, y) \in Int
    BY FieldTypes
  <2>2. Sub(x) \subseteq Sub(m) /\ x \in Sub(m) /\ x \notin Sub(x)
    BY <1>5, <2>1
  <2>3. <<Sub(x), Sub(m)>> \in R
    BY <2>2 DEF StrictSubsetOrdering
  <2>4. Sub(x) \in T
    OBVIOUS
  <2> QED BY <1>3, <1>4, <2>3, <2>4
<1> QED BY <1>5

(* The nodes from n on, in the order of the iterators.                     *)
FromOn(t, n) == IF n = NULL THEN {} ELSE {m \in Nodes(t) : Key(t, m) >= Key(t, n)}

(* next leads from each node to the ones after it.                         *)
LEMMA FromOnStep ==
  ASSUME MapInv, NEW n \in Nodes(tree)
  PROVE  /\ iterator_next(tree, n) \in Nodes(tree) \cup {NULL}
         /\ iterator_next(tree, n) # NULL => Key(tree, iterator_next(tree, n)) > Key(tree, n)
         /\ FromOn(tree, n) = {n} \cup FromOn(tree, iterator_next(tree, n))
<1> DEFINE o == iterator_step(tree, n, "right_kid", Other("right_kid"))
<1>1. /\ o \in Nodes(tree) \cup {NULL}
      /\ o = NULL => \A m \in Nodes(tree) : ~Toward("right_kid", Key(tree, m), Key(tree, n))
      /\ o # NULL => /\ Toward("right_kid", Key(tree, o), Key(tree, n))
                     /\ \A m \in Nodes(tree) : Toward("right_kid", Key(tree, m), Key(tree, n)) /\ m # o =>
                          Toward("right_kid", Key(tree, m), Key(tree, o))
  BY SideFacts, IteratorStepExact DEF MapInv, TreeInv, TreeInOrder
<1>2. iterator_next(tree, n) = o
  BY SideFacts DEF iterator_next
<1> HIDE DEF o
<1>3. /\ \A m \in Nodes(tree) : Key(tree, m) \in Int /\ m # NULL
      /\ \A m \in Nodes(tree) : Key(tree, m) = Key(tree, n) => m = n
  BY FieldTypes, OneNodeEach DEF MapInv, TreeInv, TreeInOrder
<1>4. /\ o = NULL => \A m \in Nodes(tree) : ~(Key(tree, n) < Key(tree, m))
      /\ o # NULL => /\ Key(tree, n) < Key(tree, o)
                     /\ \A m \in Nodes(tree) : Key(tree, n) < Key(tree, m) /\ m # o =>
                          Key(tree, o) < Key(tree, m)
  BY <1>1 DEF Toward
<1>5. FromOn(tree, n) = {n} \cup FromOn(tree, o)
  <2>1. CASE o = NULL
    BY <1>3, <1>4, <2>1 DEF FromOn
  <2>2. CASE o # NULL
    BY <1>1, <1>3, <1>4, <2>2 DEF FromOn
  <2> QED BY <2>1, <2>2
<1> QED BY <1>1, <1>2, <1>3, <1>4, <1>5

IsVisit(f, t) ==
  f = [n \in DOMAIN t.node \cup {NULL} |-> IF n = NULL THEN {} ELSE {n} \cup f[iterator_next(t, n)]]

(* The loop over first and next visits every node.                         *)
LEMMA VisitedAll ==
  ASSUME MapInv
  PROVE  Visited = Nodes(tree)
<1> DEFINE on == CHOOSE f : IsVisit(f, tree)
<1>0. /\ NULL \notin Nodes(tree) /\ IsTree(tree)
      /\ \A m \in Nodes(tree) : Key(tree, m) \in Int
  BY MapInvFacts, FieldTypes DEF MapInv, TreeInv, TreeInOrder
<1>1. \E f : IsVisit(f, tree)
  <2> DEFINE f == [n \in DOMAIN tree.node \cup {NULL} |-> FromOn(tree, n)]
             g == [n \in DOMAIN tree.node \cup {NULL} |->
                     IF n = NULL THEN {} ELSE {n} \cup f[iterator_next(tree, n)]]
  <2>1. ASSUME NEW n \in DOMAIN tree.node \cup {NULL} PROVE f[n] = g[n]
    <3>1. CASE n = NULL
      BY <3>1 DEF FromOn
    <3>2. CASE n # NULL
      <4>1. /\ iterator_next(tree, n) \in DOMAIN tree.node \cup {NULL}
            /\ FromOn(tree, n) = {n} \cup FromOn(tree, iterator_next(tree, n))
        BY <3>2, FromOnStep DEF Nodes
      <4> QED BY <3>2, <4>1
    <3> QED BY <3>1, <3>2
  <2>2. f = g
    <3>1. f = [n \in DOMAIN tree.node \cup {NULL} |-> f[n]] /\ g = [n \in DOMAIN tree.node \cup {NULL} |-> g[n]]
      OBVIOUS
    <3> HIDE DEF f, g
    <3> QED BY <2>1, <3>1
  <2>3. IsVisit(f, tree)
    <3> HIDE DEF f
    <3> QED BY <2>2 DEF IsVisit, g
  <2> QED BY <2>3
<1>2. IsVisit(on, tree)
  BY <1>1
<1>3. Visited = on[tree_first(tree)]
  BY DEF Visited, IsVisit
<1> HIDE DEF on
<1>4. /\ on[NULL] = {}
      /\ \A n \in Nodes(tree) : on[n] = {n} \cup on[iterator_next(tree, n)]
  BY <1>0, <1>2 DEF IsVisit, Nodes
<1>5. \A n \in Nodes(tree) : on[n] = FromOn(tree, n)
  <2> DEFINE missed == {n \in Nodes(tree) : on[n] # FromOn(tree, n)}
  <2> SUFFICES ASSUME missed # {} PROVE FALSE
    OBVIOUS
  <2>1. PICK m \in missed : \A x \in missed : ~(Key(tree, x) > Key(tree, m))
    <3>1. missed \in SUBSET Nodes(tree)
      OBVIOUS
    <3> HIDE DEF missed
    <3> QED BY <1>0, <3>1, GreatestNode
  <2> DEFINE o == iterator_next(tree, m)
  <2>2. /\ o \in Nodes(tree) \cup {NULL} /\ (o # NULL => Key(tree, o) > Key(tree, m))
        /\ FromOn(tree, m) = {m} \cup FromOn(tree, o)
    BY FromOnStep
  <2>3. on[m] = {m} \cup on[o]
    BY <1>4
  <2> HIDE DEF o
  <2>4. on[o] = FromOn(tree, o)
    BY <1>4, <2>1, <2>2 DEF FromOn
  <2>5. on[m] = FromOn(tree, m)
    BY <2>2, <2>3, <2>4
  <2> QED BY <2>5
<1>6. CASE tree.root = NULL
  <2>1. Nodes(tree) = {}
    BY <1>0, <1>6, RootExists DEF MapInv, TreeInv, TreeInOrder
  <2> QED BY <1>3, <1>4, <1>6, <2>1 DEF tree_first
<1>7. CASE tree.root # NULL
  <2> DEFINE o == outermost(tree, tree.root, "left_kid")
  <2>1. tree_first(tree) = o
    BY <1>7 DEF tree_first
  <2>2. Nodes(tree) # {}
    BY <1>7 DEF MapInv, TreeInv, TreeInOrder, Linked
  <2>3. \A m \in Nodes(tree) : o \in Nodes(tree) /\ ~Toward("left_kid", Key(tree, m), Key(tree, o))
    BY <1>7, SideFacts, OutermostExact DEF MapInv, TreeInv, TreeInOrder
  <2> HIDE DEF o
  <2>4. o \in Nodes(tree) /\ \A m \in Nodes(tree) : Key(tree, m) >= Key(tree, o)
    BY <1>0, <2>2, <2>3 DEF Toward
  <2>5. FromOn(tree, o) = Nodes(tree)
    BY <1>0, <2>4 DEF FromOn
  <2> QED BY <1>3, <1>5, <2>1, <2>4, <2>5
<1> QED BY <1>6, <1>7

(* clear and free release every cell.                                      *)
LEMMA MapClearKeepsInv ==
  ASSUME MapInv, map_clear \/ map_free
  PROVE  /\ MapInv' /\ Holding(entry') = {} /\ tree.alive
         /\ (tree'.alive <=> map_clear) /\ (map_clear => kind' = kind)
<1>1. /\ req = Idle /\ req' = req /\ tree.alive /\ clear_entries
      /\ map_clear => clear /\ kind' = kind
      /\ map_free => free /\ kind' = NULL
  BY DEF map_clear, map_free, Ready
<1>2. TreeInv' /\ Nodes(tree') = {} /\ (tree'.alive <=> clear)
  BY <1>1, ClearKeepsInv DEF MapInv
<1>3. tree'.alive <=> map_clear
  BY <1>1, <1>2 DEF clear, free
<1>4. kind # NULL
  BY <1>1 DEF MapInv, KindOK
<1>5. KindOK(kind', tree')
  BY <1>1, <1>3, <1>4 DEF MapInv, KindOK
<1>6. Holding(entry) = Nodes(tree) /\ DOMAIN entry = Nodes(tree)
  BY <1>1, MapInvFacts DEF MapInv, OneBorrows, Inserting, Idle
<1>7. key_cell' = [c \in DOMAIN key_cell \ {entry[n].key : n \in Nodes(tree)} |-> key_cell[c]]
  BY <1>1, VisitedAll DEF clear_entries
<1>8. value_cell' = [c \in DOMAIN value_cell \ {entry[n].value : n \in Nodes(tree)} |-> value_cell[c]]
  BY <1>1, VisitedAll DEF clear_entries
<1>9. entry' \in [{} -> EntryType] /\ Holding(entry') = {}
  BY <1>1, <1>2 DEF clear_entries, Nodes, Holding
<1>10. DOMAIN key_cell' = {}
  <2>1. DOMAIN key_cell = Pointers(KeyPtrs(entry))
    BY <1>1 DEF MapInv, Owned, Idle
  <2>2. Pointers(KeyPtrs(entry)) = {entry[n].key : n \in Nodes(tree)}
    BY <1>6, MapInvFacts DEF Pointers
  <2> QED BY <1>7, <2>1, <2>2
<1>11. DOMAIN value_cell' = {}
  <2>1. DOMAIN value_cell = Pointers(ValuePtrs(entry, kind))
    BY <1>1 DEF MapInv, Owned, Idle
  <2>2. Pointers(ValuePtrs(entry, kind)) \subseteq {entry[n].value : n \in Nodes(tree)}
    BY <1>6, MapInvFacts DEF Pointers
  <2> QED BY <1>8, <2>1, <2>2
<1>12. CellsTyped(key_cell', value_cell')
  BY <1>7, <1>8, <1>10, <1>11 DEF CellsTyped
<1>13. EntriesTyped(entry', kind', Nodes(tree'))
  BY <1>2, <1>9 DEF EntriesTyped
<1>14. /\ req' \in RequestType /\ StageOK(req', kind', tree') /\ OneBorrows(req', entry')
       /\ req'.allocated_key = NULL /\ req'.value_to_delete = NULL
  BY <1>1, <1>9 DEF RequestType, Idle, StageOK, Inserting, OneBorrows
<1>15. KeysMatch(entry', tree', key_cell')
  BY <1>9 DEF KeysMatch
<1>16. /\ DOMAIN KeyPtrs(entry') = {} /\ Pointers(KeyPtrs(entry')) = {}
       /\ DOMAIN ValuePtrs(entry', kind') = {} /\ Pointers(ValuePtrs(entry', kind')) = {}
  BY <1>9 DEF KeyPtrs, ValuePtrs, Pointers
<1>17. Owned(key_cell', KeyPtrs(entry'), req'.allocated_key)
  BY <1>10, <1>14, <1>16 DEF Owned
<1>18. Owned(value_cell', ValuePtrs(entry', kind'), req'.value_to_delete)
  BY <1>11, <1>14, <1>16 DEF Owned
<1>19. MapInv'
  BY <1>2, <1>5, <1>12, <1>13, <1>14, <1>15, <1>17, <1>18 DEF MapInv, Nodes
<1> QED BY <1>1, <1>3, <1>9, <1>19

-----------------------------------------------------------------------------
(* Steps.                                                                  *)

(* Calls that find nothing to do, and the loop of the tree.                *)
NothingToDo ==
  \/ map_new_fails
  \/ \E key \in Keys, value \in Storable :
       map_insert_existing(key, value) \/ map_insert_without_node(key, value)
  \/ \E key \in Keys : map_erase_missing(key)

(* They change neither entries nor cells.                                  *)
LEMMA NothingToDoStep ==
  ASSUME MapInv, NothingToDo \/ (climb /\ UNCHANGED own_vars) \/ UNCHANGED map_vars
  PROVE  /\ MapInv' /\ EntriesFollow(tree, entry, tree', entry')
         /\ HeldKeys(tree', entry') = HeldKeys(tree, entry)
         /\ UNCHANGED <<kind, value_cell>> /\ tree'.alive = tree.alive
<1>1. ASSUME UNCHANGED vars PROVE TreeInv' /\ SameContents(tree, tree')
  BY <1>1, TreeUnchanged DEF MapInv, SameContents
<1>2. ASSUME NEW key \in Keys, insert_existing(key) \/ insert_fails(key)
      PROVE  TreeInv' /\ SameContents(tree, tree')
  BY <1>2, NothingToDoKeepsInv DEF MapInv, SameContents
<1>3. ASSUME climb PROVE TreeInv' /\ SameContents(tree, tree')
  BY <1>3, ClimbKeepsInv DEF MapInv
<1> DEFINE Quiet == /\ TreeInv' /\ SameContents(tree, tree')
                    /\ UNCHANGED <<kind, entry, key_cell, value_cell, req>>
<1>4. Quiet
  <2>1. CASE map_new_fails
    BY <1>1, <2>1 DEF map_new_fails
  <2>2. ASSUME NEW key \in Keys, NEW value \in Storable, map_insert_existing(key, value)
        PROVE  Quiet
    BY <1>2, <2>2 DEF map_insert_existing
  <2>3. ASSUME NEW key \in Keys, NEW value \in Storable, map_insert_without_node(key, value)
        PROVE  Quiet
    BY <1>2, <2>3 DEF map_insert_without_node
  <2>4. ASSUME NEW key \in Keys, map_erase_missing(key)
        PROVE  Quiet
    BY <1>1, <2>4 DEF map_erase_missing
  <2>5. CASE climb /\ UNCHANGED own_vars
    BY <1>3, <2>5 DEF own_vars
  <2>6. CASE UNCHANGED map_vars
    BY <1>1, <2>6 DEF map_vars, own_vars
  <2> QED BY <2>1, <2>2, <2>3, <2>4, <2>5, <2>6 DEF NothingToDo
<1> QED BY <1>4, QuietStep DEF SameContents

(* The last step of an insertion.                                          *)
Completes == set_allocate_key \/ map_allocate_value

(* It adds the key with its value.                                         *)
LEMMA CompletesStep ==
  ASSUME MapInv, Completes
  PROVE  /\ MapInv' /\ EntriesFollow(tree, entry, tree', entry')
         /\ req.key \notin HeldKeys(tree, entry) /\ req.key \in Keys /\ req.value \in Storable
         /\ HeldKeys(tree', entry') = HeldKeys(tree, entry) \cup {req.key}
         /\ req.node \in Holding(entry') /\ Key(tree', req.node) = req.key
         /\ kind = "map" => value_cell'[entry'[req.node].value] = req.value
         /\ ValuesStay(entry, kind, value_cell, value_cell')
         /\ UNCHANGED <<tree, kind>> /\ tree.alive
         /\ last' = [op |-> "insert", key |-> req.key, value |-> req.value, answer |-> "inserted"]
<1>1. \A k, v : store_entry(k, v) =>
        /\ UNCHANGED <<tree, kind>>
        /\ key_cell' = With(key_cell, k, req.key)
        /\ last' = [op |-> "insert", key |-> req.key, value |-> req.value, answer |-> "inserted"]
  BY DEF store_entry, vars, Answer
<1>2. CASE set_allocate_key
  <2>1. req.stage = "linked" /\ kind = "set"
    BY <1>2 DEF set_allocate_key, Continues
  <2>2. Inserting(req) /\ req.key \in Keys /\ req.allocated_key = NULL /\ tree.alive
    BY <2>1 DEF MapInv, StageOK, Inserting
  <2>3. PICK k \in FreshCells(DOMAIN key_cell, req.key) : store_entry(k, NULL)
    BY <1>2 DEF set_allocate_key
  <2>4. k \in Cells \ DOMAIN key_cell /\ k # NULL
    BY <2>2, AvlTreeAssumption DEF MapInv, CellsTyped
  <2>5. Owned(key_cell', KeyPtrs(entry), k)
    BY <1>1, <2>2, <2>3, <2>4, AllocateLocal DEF MapInv
  <2>6. \A c \in DOMAIN key_cell \ {k} : key_cell'[c] = key_cell[c]
    BY <1>1, <2>3, WithKeeps
  <2>7. store_entry(k, NULL) /\ k \in Cells /\ NULL \in Cells \cup {NULL} /\ kind # "map"
    BY <2>1, <2>3, <2>4
  <2> QED BY <1>1, <2>2, <2>5, <2>6, <2>7, StoreEntryKeepsInv
<1>3. CASE map_allocate_value
  <2>1. req.stage = "key_allocated"
    BY <1>3 DEF map_allocate_value, Continues
  <2>2. /\ Inserting(req) /\ req.key \in Keys /\ req.allocated_key # NULL /\ tree.alive
        /\ kind = "map"
    BY <2>1 DEF MapInv, StageOK, Inserting
  <2> DEFINE k == req.allocated_key
  <2>3. PICK v \in FreshCells(DOMAIN value_cell, req.key) : store_entry(k, v)
    BY <1>3 DEF map_allocate_value
  <2>4. v \in Cells \ DOMAIN value_cell
    BY <2>2, AvlTreeAssumption DEF MapInv, CellsTyped
  <2>5. k \in Cells /\ k \in DOMAIN key_cell
    BY <2>2 DEF MapInv, RequestType, Owned
  <2>6. DOMAIN key_cell' = DOMAIN key_cell
    BY <1>1, <2>3, <2>5 DEF With
  <2>7. Owned(key_cell', KeyPtrs(entry), k)
    BY <2>6, SameOwners DEF MapInv
  <2>8. \A c \in DOMAIN key_cell \ {k} : key_cell'[c] = key_cell[c]
    BY <1>1, <2>3, WithKeeps
  <2> HIDE DEF k
  <2> QED BY <1>1, <2>2, <2>3, <2>4, <2>5, <2>7, <2>8, StoreEntryKeepsInv
<1> QED BY <1>2, <1>3 DEF Completes

(* The steps of the container, grouped by what they do to its contents.    *)
LEMMA StepCases ==
  ASSUME [MapNext]_map_vars
  PROVE  \/ NothingToDo \/ (climb /\ UNCHANGED own_vars) \/ UNCHANGED map_vars
         \/ \E k \in {"map", "set"} : map_new(k)
         \/ \E key \in Keys, value \in Storable : map_insert(key, value)
         \/ \E key \in Keys : map_erase(key)
         \/ \E n \in Nodes(tree), value \in Values : assign(n, value)
         \/ map_clear \/ map_free
         \/ map_allocate_key \/ Completes \/ allocation_fails \/ insert_returns_null \/ free_erased
BY DEF MapNext, NothingToDo, Running, Completes, Nodes

(* Every step keeps the invariant, and entries follow their keys.          *)
LEMMA MapNextKeepsInv ==
  ASSUME MapInv, [MapNext]_map_vars
  PROVE  MapInv' /\ EntriesFollow(tree, entry, tree', entry')
<1>1. ASSUME tree' = tree, entry' = entry PROVE EntriesFollow(tree, entry, tree', entry')
  BY <1>1, MapInvFacts, OneNodeEach DEF EntriesFollow
<1>2. ASSUME Holding(entry') = {} PROVE EntriesFollow(tree, entry, tree', entry')
  BY <1>2 DEF EntriesFollow
<1>3. CASE NothingToDo \/ (climb /\ UNCHANGED own_vars) \/ UNCHANGED map_vars
  BY <1>3, NothingToDoStep
<1>4. CASE \E k \in {"map", "set"} : map_new(k)
  BY <1>2, <1>4, MapNewKeepsInv
<1>5. CASE \E key \in Keys, value \in Storable : map_insert(key, value)
  BY <1>5, MapInsertKeepsInv
<1>6. CASE \E key \in Keys : map_erase(key)
  BY <1>6, MapEraseKeepsInv
<1>7. CASE \E n \in Nodes(tree), value \in Values : assign(n, value)
  BY <1>1, <1>7, AssignKeepsInv
<1>8. CASE map_clear \/ map_free
  BY <1>2, <1>8, MapClearKeepsInv
<1>9. CASE map_allocate_key
  BY <1>1, <1>9, MapAllocateKeyKeepsInv
<1>10. CASE Completes
  BY <1>10, CompletesStep
<1>11. CASE allocation_fails
  BY <1>11, AllocationFailsKeepsInv
<1>12. CASE insert_returns_null
  BY <1>1, <1>12, InsertReturnsNullKeepsInv
<1>13. CASE free_erased
  BY <1>1, <1>13, FreeErasedKeepsInv
<1> QED BY <1>3, <1>4, <1>5, <1>6, <1>7, <1>8, <1>9, <1>10, <1>11, <1>12, <1>13, StepCases

(* The invariant holds in every state.                                     *)
LEMMA MapInvariance == MapSpec => []MapInv
<1>1. MapInv /\ [MapNext]_map_vars => MapInv'
  BY MapNextKeepsInv
<1> QED BY <1>1, MapInitInv, PTL DEF MapSpec

-----------------------------------------------------------------------------
(* The theorems.                                                           *)

(* The variables have their types, and there is a kind of container        *)
(* exactly while there is a tree.                                          *)
THEOREM MapTypeCorrect == MapSpec => []MapTypeOK
<1>1. MapInv => MapTypeOK
  <2> SUFFICES ASSUME MapInv PROVE MapTypeOK
    OBVIOUS
  <2>1. kind \in {"map", "set", NULL} /\ (kind = NULL <=> ~tree.alive)
    BY DEF MapInv, KindOK
  <2>2. entry \in [DOMAIN tree.node -> [key : Cells \cup {CALLER}, value : Cells \cup {NULL}]]
    BY DEF MapInv, EntriesTyped, EntryType, Nodes
  <2>3. req.stage \in {"idle", "linked", "key_allocated", "undone", "erased"}
    BY DEF MapInv, RequestType
  <2> QED BY <2>1, <2>2, <2>3 DEF MapTypeOK, MapInv, CellsTyped
<1> QED BY <1>1, MapInvariance, PTL

(* In every step of every call, also when an insertion is undone half way  *)
(* or the tree moves the pointers of an entry to another node, each cell   *)
(* has exactly one owner: no cell leaks, is shared or is released too      *)
(* early.                                                                  *)
THEOREM CellsOwnedOnce == MapSpec => []EveryCellOwnedOnce
<1>1. MapInv => EveryCellOwnedOnce
  <2> SUFFICES ASSUME MapInv PROVE EveryCellOwnedOnce
    OBVIOUS
  <2>1. Stored = Holding(entry)
    BY MapInvFacts
  <2>2. /\ DOMAIN key_cell = {entry[n].key : n \in Stored} \cup ({req.allocated_key} \ {NULL})
        /\ \A n \in Stored : /\ entry[n].key # req.allocated_key
                             /\ \A m \in Stored \ {n} : entry[m].key # entry[n].key
    BY <2>1, MapInvFacts DEF MapInv, Owned, Pointers
  <2> DEFINE owners == IF kind = "map" THEN Stored ELSE {}
  <2>3. DOMAIN ValuePtrs(entry, kind) = owners
    BY <2>1, MapInvFacts
  <2> HIDE DEF owners
  <2>4. /\ DOMAIN value_cell = {entry[n].value : n \in owners} \cup ({req.value_to_delete} \ {NULL})
        /\ \A n \in owners : /\ entry[n].value # req.value_to_delete
                             /\ \A m \in owners \ {n} : entry[m].value # entry[n].value
    BY <2>3, MapInvFacts DEF MapInv, Owned, Pointers
  <2> QED BY <2>2, <2>4 DEF EveryCellOwnedOnce, OwnedOnce, owners
<1> QED BY <1>1, MapInvariance, PTL

(* The comparator reads in each key cell the key by which the tree orders  *)
(* its node, and only the node that is being inserted has no cells yet.    *)
THEOREM KeysStayInPlace == MapSpec => []KeysInPlace
<1>1. MapInv => KeysInPlace
  <2> SUFFICES ASSUME MapInv PROVE KeysInPlace
    OBVIOUS
  <2>1. Stored = Holding(entry) /\ DOMAIN entry = Nodes(tree)
    BY MapInvFacts
  <2>2. \A n \in Stored : key_cell[entry[n].key] = tree.node[n].key
    BY <2>1 DEF MapInv, KeysMatch, Key
  <2>3. Inserting(req) => req.node \in Nodes(tree) /\ Key(tree, req.node) = req.key
    BY DEF MapInv, StageOK
  <2>4. \A n \in DOMAIN entry : n \notin Stored <=> Inserting(req) /\ n = req.node
    BY <2>1 DEF MapInv, OneBorrows
  <2>5. DOMAIN entry \ Stored = IF Inserting(req) THEN {req.node} ELSE {}
    BY <2>1, <2>3, <2>4
  <2> QED BY <2>2, <2>3, <2>5 DEF KeysInPlace, Inserting, Key
<1> QED BY <1>1, MapInvariance, PTL

(* NodeOf finds the node of a stored key.                                  *)
NodesFound ==
  /\ KeysStored = HeldKeys(tree, entry)
  /\ \A key \in KeysStored : NodeOf(key) \in Holding(entry) /\ Key(tree, NodeOf(key)) = key
  /\ \A n \in Holding(entry) : NodeOf(Key(tree, n)) = n

(* So it does in every state.                                              *)
LEMMA NodesAreFound == MapInv => NodesFound
<1> SUFFICES ASSUME MapInv PROVE NodesFound
  OBVIOUS
<1>1. Stored = Holding(entry) /\ Holding(entry) \subseteq Nodes(tree)
  BY MapInvFacts
<1>2. KeysStored = HeldKeys(tree, entry)
  BY <1>1 DEF KeysStored, HeldKeys, Key
<1>3. \A key \in KeysStored : NodeOf(key) \in Holding(entry) /\ Key(tree, NodeOf(key)) = key
  BY <1>1 DEF KeysStored, NodeOf, Key
<1>4. ASSUME NEW n \in Holding(entry) PROVE NodeOf(Key(tree, n)) = n
  <2>1. Key(tree, n) \in KeysStored
    BY <1>2 DEF HeldKeys
  <2>2. NodeOf(Key(tree, n)) \in Holding(entry) /\ Key(tree, NodeOf(Key(tree, n))) = Key(tree, n)
    BY <1>3, <2>1
  <2> QED BY <1>1, <2>2, OneNodeEach
<1> QED BY <1>2, <1>3, <1>4 DEF NodesFound

(* Also in the next one.                                                   *)
LEMMA NodesAreFoundNext == MapInv' => NodesFound'
BY NodesAreFound, PTL

(* The addresses of a key and of its value never change while the key is   *)
(* in the container, whatever other keys come, go or fail to come.         *)
THEOREM CellsStayInPlace == MapSpec => CellsStay
<1> DEFINE Stay == \A key \in KeysStored \cap KeysStored' : entry'[NodeOf(key)'] = entry[NodeOf(key)]
<1>1. ASSUME MapInv, MapInv', [MapNext]_map_vars PROVE Stay
  <2> SUFFICES ASSUME NEW key \in KeysStored \cap KeysStored'
               PROVE  entry'[NodeOf(key)'] = entry[NodeOf(key)]
    OBVIOUS
  <2>1. NodeOf(key) \in Holding(entry) /\ Key(tree, NodeOf(key)) = key
    BY <1>1, NodesAreFound DEF NodesFound
  <2>2. NodeOf(key)' \in Holding(entry') /\ Key(tree', NodeOf(key)') = key
    BY <1>1, NodesAreFoundNext DEF NodesFound, Holding, Key
  <2>3. EntriesFollow(tree, entry, tree', entry')
    BY <1>1, MapNextKeepsInv
  <2> QED BY <2>1, <2>2, <2>3 DEF EntriesFollow
<1>2. MapInv /\ MapInv' /\ [MapNext]_map_vars => [Stay]_map_vars
  BY <1>1
<1> QED BY <1>2, MapInvariance, PTL DEF MapSpec, CellsStay

-----------------------------------------------------------------------------
(* Refinement.                                                             *)

ValueOf(n) == IF kind = "map" THEN value_cell[entry[n].value] ELSE NULL

(* The contents are a function from the stored keys to their values.       *)
ContentsShown ==
  /\ Contents = [key \in HeldKeys(tree, entry) |-> Contents[key]]
  /\ \A n \in Holding(entry) : Contents[Key(tree, n)] = ValueOf(n)
  /\ Contents # NULL

(* So they are in every state.                                             *)
LEMMA ContentsAreShown == MapInv => ContentsShown
<1> SUFFICES ASSUME MapInv PROVE ContentsShown
  OBVIOUS
<1>1. NodesFound
  BY NodesAreFound
<1>2. Contents = [key \in HeldKeys(tree, entry) |-> ValueOf(NodeOf(key))]
  BY <1>1 DEF NodesFound, Contents, ValueOf
<1>3. \A n \in Holding(entry) : Contents[Key(tree, n)] = ValueOf(n)
  BY <1>1, <1>2 DEF NodesFound, HeldKeys
<1>4. \A n \in Holding(entry) : ValueOf(n) \in Values \cup {NULL}
  <2> SUFFICES ASSUME NEW n \in Holding(entry), kind = "map"
               PROVE  value_cell[entry[n].value] \in Values
    BY DEF ValueOf
  <2>1. entry[n].value \in DOMAIN value_cell
    BY MapInvFacts DEF MapInv, Owned, Pointers
  <2> QED BY <2>1 DEF MapInv, CellsTyped
<1>5. HeldKeys(tree, entry) \subseteq Keys
  BY MapInvFacts, InvFacts DEF MapInv, HeldKeys
<1>6. Contents \in [HeldKeys(tree, entry) -> Values \cup {NULL}]
  BY <1>1, <1>2, <1>4 DEF NodesFound
<1>7. Contents # NULL
  BY <1>5, <1>6, MapAssumption
<1> QED BY <1>2, <1>3, <1>7 DEF ContentsShown

(* Also in the next one.                                                   *)
LEMMA ContentsAreShownNext ==
  MapInv' => /\ Contents' = [key \in HeldKeys(tree', entry') |-> Contents'[key]]
             /\ \A n \in Holding(entry') :
                  Contents'[Key(tree', n)] = IF kind' = "map" THEN value_cell'[entry'[n].value] ELSE NULL
<1>1. MapInv' => ContentsShown'
  BY ContentsAreShown, PTL
<1> QED BY <1>1 DEF ContentsShown, ValueOf, HeldKeys, Holding, Key

(* A step in which entries follow their keys and values stay changes the   *)
(* value of no key that stays.                                             *)
LEMMA ContentsFollow ==
  ASSUME MapInv, MapInv', kind' = kind, EntriesFollow(tree, entry, tree', entry'),
         ValuesStay(entry, kind, value_cell, value_cell'),
         NEW key \in HeldKeys(tree, entry), key \in HeldKeys(tree', entry')
  PROVE  Contents'[key] = Contents[key]
<1>1. PICK n \in Holding(entry) : key = Key(tree, n)
  BY DEF HeldKeys
<1>2. PICK m \in Holding(entry') : key = Key(tree', m)
  BY DEF HeldKeys
<1>3. entry'[m] = entry[n]
  BY <1>1, <1>2 DEF EntriesFollow
<1>4. Contents'[key] = IF kind = "map" THEN value_cell'[entry[n].value] ELSE NULL
  BY <1>2, <1>3, ContentsAreShownNext
<1>5. Contents[key] = IF kind = "map" THEN value_cell[entry[n].value] ELSE NULL
  BY <1>1, ContentsAreShown DEF ContentsShown, ValueOf
<1> QED BY <1>4, <1>5 DEF ValuesStay

(* When it neither adds nor removes a key, the contents are the same.      *)
LEMMA ContentsSame ==
  ASSUME MapInv, MapInv', kind' = kind, EntriesFollow(tree, entry, tree', entry'),
         ValuesStay(entry, kind, value_cell, value_cell'),
         HeldKeys(tree', entry') = HeldKeys(tree, entry)
  PROVE  Contents' = Contents
<1>1. \A key \in HeldKeys(tree, entry) : Contents'[key] = Contents[key]
  BY ContentsFollow
<1>2. Contents = [key \in HeldKeys(tree, entry) |-> Contents[key]]
  BY ContentsAreShown DEF ContentsShown
<1>3. Contents' = [key \in HeldKeys(tree, entry) |-> Contents'[key]]
  BY ContentsAreShownNext
<1> QED BY <1>1, <1>2, <1>3

dictionary == IF tree.alive THEN Contents ELSE NULL

(* Values that are not touched stay.                                       *)
LEMMA UntouchedStay ==
  ASSUME value_cell' = value_cell
  PROVE  ValuesStay(entry, kind, value_cell, value_cell')
BY DEF ValuesStay

(* Steps that change neither the contents nor the answer.                  *)
LEMMA StutterRefines ==
  ASSUME MapInv, MapInv', tree.alive, tree'.alive, kind' = kind,
         EntriesFollow(tree, entry, tree', entry'),
         ValuesStay(entry, kind, value_cell, value_cell'),
         HeldKeys(tree', entry') = HeldKeys(tree, entry)
  PROVE  dictionary' = dictionary /\ dictionary # NULL /\ dictionary = Contents
<1>1. Contents' = Contents
  BY ContentsSame
<1>2. Contents # NULL
  BY ContentsAreShown DEF ContentsShown
<1> QED BY <1>1, <1>2 DEF dictionary

(* The last step of an insertion inserts.                                  *)
LEMMA CompletesRefines ==
  ASSUME MapInv, Completes
  PROVE  \E key \in Keys, value \in Values \cup {NULL} :
           /\ dictionary # NULL /\ key \notin DOMAIN dictionary
           /\ dictionary' = [k \in DOMAIN dictionary \cup {key} |->
                               IF k = key THEN value ELSE dictionary[k]]
           /\ last' = [op |-> "insert", key |-> key, value |-> value, answer |-> "inserted"]
<1> DEFINE key == req.key
           value == req.value
           Held == HeldKeys(tree, entry)
<1>1. /\ MapInv' /\ EntriesFollow(tree, entry, tree', entry')
      /\ key \notin Held /\ key \in Keys /\ value \in Storable
      /\ HeldKeys(tree', entry') = Held \cup {key}
      /\ req.node \in Holding(entry') /\ Key(tree', req.node) = key
      /\ kind = "map" => value_cell'[entry'[req.node].value] = value
      /\ ValuesStay(entry, kind, value_cell, value_cell')
      /\ tree' = tree /\ kind' = kind /\ tree.alive
      /\ last' = [op |-> "insert", key |-> key, value |-> value, answer |-> "inserted"]
  BY CompletesStep
<1>2. Contents = [k \in Held |-> Contents[k]] /\ Contents # NULL
  BY ContentsAreShown DEF ContentsShown
<1>3. Contents' = [k \in Held \cup {key} |-> Contents'[k]]
  BY <1>1, ContentsAreShownNext
<1>4. Contents'[key] = value
  <2>1. Contents'[key] = IF kind = "map" THEN value_cell'[entry'[req.node].value] ELSE NULL
    BY <1>1, ContentsAreShownNext
  <2> QED BY <1>1, <2>1 DEF Storable
<1>5. \A k \in Held : Contents'[k] = Contents[k]
  BY <1>1, ContentsFollow
<1>6. dictionary = Contents /\ dictionary' = Contents'
  BY <1>1 DEF dictionary
<1>7. value \in Values \cup {NULL}
  BY <1>1 DEF Storable
<1> HIDE DEF key, value, Held
<1>8. DOMAIN dictionary = Held
  BY <1>2, <1>6
<1>9. dictionary' = [k \in Held \cup {key} |-> IF k = key THEN value ELSE dictionary[k]]
  BY <1>1, <1>3, <1>4, <1>5, <1>6
<1> QED BY <1>1, <1>2, <1>6, <1>7, <1>8, <1>9

(* Erasing takes the key away.                                             *)
LEMMA MapEraseRefines ==
  ASSUME MapInv, NEW key \in Keys, map_erase(key)
  PROVE  /\ dictionary # NULL
         /\ dictionary' = [k \in DOMAIN dictionary \ {key} |-> dictionary[k]]
         /\ last' = [op |-> "erase", key |-> key, value |-> NULL, answer |-> "none"]
<1> DEFINE Held == HeldKeys(tree, entry)
<1>1. /\ MapInv' /\ tree.alive /\ tree'.alive /\ EntriesFollow(tree, entry, tree', entry')
      /\ HeldKeys(tree', entry') = Held \ {key} /\ kind' = kind
      /\ ValuesStay(entry, kind, value_cell, value_cell')
  BY MapEraseKeepsInv, UntouchedStay
<1>2. Contents = [k \in Held |-> Contents[k]] /\ Contents # NULL
  BY ContentsAreShown DEF ContentsShown
<1>3. Contents' = [k \in Held \ {key} |-> Contents'[k]]
  BY <1>1, ContentsAreShownNext
<1>4. \A k \in Held \ {key} : Contents'[k] = Contents[k]
  BY <1>1, ContentsFollow
<1>5. dictionary = Contents /\ dictionary' = Contents'
  BY <1>1 DEF dictionary
<1>6. last' = [op |-> "erase", key |-> key, value |-> NULL, answer |-> "none"]
  BY DEF map_erase, Answer
<1> HIDE DEF Held
<1>7. DOMAIN Contents = Held
  BY <1>2
<1> QED BY <1>2, <1>3, <1>4, <1>5, <1>6, <1>7

(* Assigning changes the value of one key.                                 *)
LEMMA AssignRefines ==
  ASSUME MapInv, NEW n \in Nodes(tree), NEW value \in Values, assign(n, value)
  PROVE  \E key \in Keys :
           /\ dictionary # NULL /\ key \in DOMAIN dictionary
           /\ dictionary' = [dictionary EXCEPT ![key] = value]
           /\ last' = [op |-> "assign", key |-> key, value |-> value, answer |-> "none"]
<1> DEFINE Held == HeldKeys(tree, entry)
           key == Key(tree, n)
<1>1. /\ MapInv' /\ UNCHANGED <<tree, kind, entry>> /\ kind = "map" /\ tree.alive
      /\ n \in Holding(entry) /\ value_cell'[entry[n].value] = value
      /\ \A m \in Holding(entry) \ {n} : value_cell'[entry[m].value] = value_cell[entry[m].value]
  BY AssignKeepsInv
<1>2. Contents = [k \in Held |-> Contents[k]] /\ Contents # NULL
  BY ContentsAreShown DEF ContentsShown
<1>3. Contents' = [k \in Held |-> Contents'[k]]
  BY <1>1, ContentsAreShownNext
<1>4. \A m \in Holding(entry) : /\ Contents'[Key(tree, m)] = value_cell'[entry[m].value]
                                /\ Contents[Key(tree, m)] = value_cell[entry[m].value]
  BY <1>1, ContentsAreShown, ContentsAreShownNext DEF ContentsShown, ValueOf
<1>5. \A k \in Held : Contents'[k] = IF k = key THEN value ELSE Contents[k]
  <2> SUFFICES ASSUME NEW m \in Holding(entry)
               PROVE  Contents'[Key(tree, m)] = IF Key(tree, m) = key THEN value ELSE Contents[Key(tree, m)]
    BY DEF HeldKeys
  <2>1. CASE m = n
    BY <1>1, <1>4, <2>1
  <2>2. CASE m # n
    <3>1. Key(tree, m) # key
      BY <1>1, <2>2, MapInvFacts, OneNodeEach
    <3> QED BY <1>1, <1>4, <2>2, <3>1
  <2> QED BY <2>1, <2>2
<1>6. key \in Held /\ key \in Keys
  BY <1>1, MapInvFacts, InvFacts DEF HeldKeys, MapInv
<1>7. dictionary = Contents /\ dictionary' = Contents'
  BY <1>1 DEF dictionary
<1>8. last' = [op |-> "assign", key |-> key, value |-> value, answer |-> "none"]
  BY DEF assign, Answer, Key
<1> HIDE DEF Held, key
<1>9. DOMAIN Contents = Held
  BY <1>2
<1>10. Contents' = [Contents EXCEPT ![key] = value]
  BY <1>2, <1>3, <1>5, <1>9
<1> QED BY <1>2, <1>6, <1>7, <1>8, <1>9, <1>10

(* A container without entries shows an empty dictionary.                  *)
LEMMA EmptyContents ==
  ASSUME MapInv', Holding(entry') = {}
  PROVE  Contents' = [key \in {} |-> NULL]
<1>1. Contents' = [key \in HeldKeys(tree', entry') |-> Contents'[key]]
  BY ContentsAreShownNext
<1>2. HeldKeys(tree', entry') = {}
  BY DEF HeldKeys
<1>3. Contents' = [key \in {} |-> Contents'[key]]
  BY <1>1, <1>2
<1> QED BY <1>3

(* Each step of the container is a step of the dictionary or a stutter.    *)
LEMMA MapNextRefines ==
  ASSUME MapInv, [MapNext]_map_vars
  PROVE  [D!Next]_<<IF tree.alive THEN Contents ELSE NULL, last>>
<1>0. MapInv' /\ EntriesFollow(tree, entry, tree', entry')
  BY MapNextKeepsInv
<1>1. ~tree.alive => dictionary = NULL
  BY DEF dictionary
<1>2. tree.alive => dictionary = Contents /\ Contents # NULL
        /\ Contents = [key \in HeldKeys(tree, entry) |-> Contents[key]]
  BY ContentsAreShown DEF dictionary, ContentsShown
<1>3. ASSUME NothingToDo \/ (climb /\ UNCHANGED own_vars) \/ UNCHANGED map_vars
      PROVE  dictionary' = dictionary
  <2>1. /\ kind' = kind /\ tree'.alive = tree.alive
        /\ HeldKeys(tree', entry') = HeldKeys(tree, entry)
        /\ ValuesStay(entry, kind, value_cell, value_cell')
    BY <1>3, NothingToDoStep, UntouchedStay
  <2>2. Contents' = Contents
    BY <1>0, <2>1, ContentsSame
  <2> QED BY <2>1, <2>2 DEF dictionary
<1>4. ASSUME NEW k \in {"map", "set"}, map_new(k) PROVE D!New
  <2>1. ~tree.alive /\ tree'.alive
    BY <1>4 DEF map_new, new, MapInv, TreeInv, TreeInOrder, IsTree
  <2>2. dictionary' = [key \in {} |-> NULL]
    BY <1>4, <2>1, MapNewKeepsInv, EmptyContents DEF dictionary
  <2>3. last' = [op |-> "new", key |-> NULL, value |-> NULL, answer |-> "created"]
    BY <1>4 DEF map_new, Answer
  <2> QED BY <1>1, <2>1, <2>2, <2>3 DEF D!New, D!Said, dictionary
<1>5. CASE map_new_fails
  <2>1. dictionary' = dictionary /\ dictionary = NULL
    BY <1>1, <1>3, <1>5 DEF NothingToDo, map_new_fails
  <2>2. last' = [op |-> "new", key |-> NULL, value |-> NULL, answer |-> "failed"]
    BY <1>5 DEF map_new_fails, Answer
  <2>3. D!New
    BY <2>1, <2>2 DEF D!New, D!Said, dictionary
  <2> QED BY <2>3 DEF D!Next
<1>6. ASSUME NEW key \in Keys, NEW value \in Storable,
             map_insert_existing(key, value) \/ map_insert_without_node(key, value)
      PROVE  D!Insert(key, value)
  <2>1. tree.alive /\ dictionary' = dictionary
    BY <1>3, <1>6 DEF NothingToDo, map_insert_existing, map_insert_without_node, Ready
  <2>2. PICK bound : InOrder(tree, bound)
    BY DEF MapInv, TreeInv, TreeInOrder
  <2>3. Holding(entry) = Nodes(tree)
    <3>1. req = Idle
      BY <1>6 DEF map_insert_existing, map_insert_without_node, Ready
    <3> QED BY <3>1, MapInvFacts DEF MapInv, OneBorrows, Inserting, Idle
  <2>4. DOMAIN dictionary = {Key(tree, n) : n \in Nodes(tree)} /\ dictionary # NULL
    BY <1>2, <2>1, <2>3 DEF HeldKeys
  <2>5. CASE map_insert_existing(key, value)
    <3>1. key \in DOMAIN dictionary
      <4>1. find(tree, key) # NULL /\ key \in Int
        BY <2>5, AvlTreeAssumption DEF map_insert_existing, insert_existing
      <4> QED BY <2>2, <2>4, <4>1, FindMissing DEF MapInv, TreeInv, TreeInOrder
    <3>2. last' = [op |-> "insert", key |-> key, value |-> value, answer |-> "already_exists"]
      BY <2>5 DEF map_insert_existing, Answer
    <3> QED BY <2>1, <2>4, <3>1, <3>2 DEF D!Insert, D!Said, dictionary
  <2>6. CASE map_insert_without_node(key, value)
    <3>1. key \notin DOMAIN dictionary
      <4>1. find(tree, key) = NULL
        BY <2>6 DEF map_insert_without_node, insert_fails
      <4>2. \A n \in Nodes(tree) : find(tree, Key(tree, n)) = n /\ n # NULL
        BY <2>2, FindStored, MapInvFacts DEF MapInv, TreeInv, TreeInOrder
      <4> QED BY <2>4, <4>1, <4>2
    <3>2. last' = [op |-> "insert", key |-> key, value |-> value, answer |-> "failed"]
      BY <2>6 DEF map_insert_without_node, Answer
    <3> QED BY <2>1, <2>4, <3>1, <3>2 DEF D!Insert, D!Said, dictionary
  <2> QED BY <1>6, <2>5, <2>6
<1>7. ASSUME NEW key \in Keys, map_erase_missing(key) PROVE D!Erase(key)
  <2>1. tree.alive /\ dictionary' = dictionary /\ find(tree, key) = NULL
    BY <1>3, <1>7 DEF NothingToDo, map_erase_missing, Ready
  <2>2. PICK bound : InOrder(tree, bound)
    BY DEF MapInv, TreeInv, TreeInOrder
  <2>3. \A n \in Nodes(tree) : find(tree, Key(tree, n)) = n /\ n # NULL
    BY <2>2, FindStored, MapInvFacts DEF MapInv, TreeInv, TreeInOrder
  <2>4. key \notin HeldKeys(tree, entry)
    BY <2>1, <2>3, MapInvFacts DEF HeldKeys
  <2>5. dictionary # NULL /\ dictionary' = [k \in DOMAIN dictionary \ {key} |-> dictionary[k]]
    BY <1>2, <2>1, <2>4
  <2>6. last' = [op |-> "erase", key |-> key, value |-> NULL, answer |-> "none"]
    BY <1>7 DEF map_erase_missing, Answer
  <2> QED BY <2>5, <2>6 DEF D!Erase, D!Said, dictionary
<1>8. ASSUME NEW key \in Keys, map_erase(key) PROVE D!Erase(key)
  BY <1>8, MapEraseRefines DEF D!Erase, D!Said, dictionary
<1>9. ASSUME NEW n \in Nodes(tree), NEW value \in Values, assign(n, value)
      PROVE  \E key \in Keys : D!Assign(key, value)
  BY <1>9, AssignRefines DEF D!Assign, D!Said, dictionary
<1>10. CASE map_clear
  <2>1. tree.alive /\ tree'.alive /\ Contents' = [key \in {} |-> NULL]
    BY <1>0, <1>10, MapClearKeepsInv, EmptyContents
  <2>2. last' = [op |-> "clear", key |-> NULL, value |-> NULL, answer |-> "none"]
    BY <1>10 DEF map_clear, Answer
  <2>3. dictionary # NULL /\ dictionary' = [key \in {} |-> NULL]
    BY <1>2, <2>1 DEF dictionary
  <2>4. D!Clear
    BY <2>2, <2>3 DEF D!Clear, D!Said, dictionary
  <2> QED BY <2>4 DEF D!Next
<1>11. CASE map_free
  <2>1. tree.alive /\ ~tree'.alive
    <3>1. ~map_clear
      BY <1>11, MapAssumption DEF map_free, map_clear, Ready, MapInv, KindOK
    <3>2. tree'.alive = FALSE
      BY <1>11 DEF map_free, free
    <3> QED BY <1>11, <3>2, MapClearKeepsInv
  <2>2. last' = [op |-> "free", key |-> NULL, value |-> NULL, answer |-> "none"]
    BY <1>11 DEF map_free, Answer
  <2>3. dictionary # NULL /\ dictionary' = NULL
    BY <1>2, <2>1 DEF dictionary
  <2>4. D!Free
    BY <2>2, <2>3 DEF D!Free, D!Said, dictionary
  <2> QED BY <2>4 DEF D!Next
<1>12. CASE Completes
  <2>1. PICK key \in Keys, value \in Values \cup {NULL} :
           /\ dictionary # NULL /\ key \notin DOMAIN dictionary
           /\ dictionary' = [k \in DOMAIN dictionary \cup {key} |->
                               IF k = key THEN value ELSE dictionary[k]]
           /\ last' = [op |-> "insert", key |-> key, value |-> value, answer |-> "inserted"]
    BY <1>12, CompletesRefines
  <2>2. D!Insert(key, value)
    BY <2>1 DEF D!Insert, D!Said, dictionary
  <2> QED BY <2>2 DEF D!Next
<1>13. CASE insert_returns_null
  <2>1. /\ UNCHANGED <<tree, kind, entry, value_cell>>
        /\ req.key \in Keys /\ req.value \in Storable /\ req.key \notin HeldKeys(tree, entry)
    BY <1>13, InsertReturnsNullKeepsInv
  <2>2. tree.alive
    BY <1>13 DEF insert_returns_null, Continues, MapInv, StageOK
  <2>3. dictionary' = dictionary /\ dictionary # NULL /\ req.key \notin DOMAIN dictionary
    <3>1. dictionary' = dictionary /\ dictionary # NULL
      BY <1>0, <2>1, <2>2, StutterRefines, UntouchedStay DEF HeldKeys, Holding
    <3> QED BY <1>2, <2>1, <2>2, <3>1
  <2>4. last' = [op |-> "insert", key |-> req.key, value |-> req.value, answer |-> "failed"]
    BY <1>13 DEF insert_returns_null, Answer
  <2>5. D!Insert(req.key, req.value)
    BY <2>3, <2>4 DEF D!Insert, D!Said, dictionary
  <2>6. req.value \in Values \cup {NULL}
    BY <2>1 DEF Storable
  <2> QED BY <2>1, <2>5, <2>6 DEF D!Next
<1>14. ASSUME \/ \E key \in Keys, value \in Storable : map_insert(key, value)
              \/ map_allocate_key \/ allocation_fails \/ free_erased
       PROVE  dictionary' = dictionary /\ last' = last
  <2>1. CASE \E key \in Keys, value \in Storable : map_insert(key, value)
    <3>1. /\ HeldKeys(tree', entry') = HeldKeys(tree, entry) /\ UNCHANGED <<kind, value_cell, last>>
      BY <2>1, MapInsertKeepsInv
    <3>2. tree.alive /\ tree'.alive
      BY <2>1, InsertNewKeepsInv DEF map_insert, Ready, MapInv
    <3> QED BY <1>0, <3>1, <3>2, StutterRefines, UntouchedStay
  <2>2. CASE map_allocate_key
    <3>1. UNCHANGED <<tree, kind, entry, value_cell, last>>
      BY <2>2, MapAllocateKeyKeepsInv
    <3>2. tree.alive
      BY <2>2 DEF map_allocate_key, Continues, MapInv, StageOK
    <3>3. HeldKeys(tree', entry') = HeldKeys(tree, entry)
      BY <3>1
    <3> QED BY <1>0, <3>1, <3>2, <3>3, StutterRefines, UntouchedStay
  <2>3. CASE allocation_fails
    <3>1. /\ HeldKeys(tree', entry') = HeldKeys(tree, entry) /\ UNCHANGED <<kind, value_cell, last>>
      BY <2>3, AllocationFailsKeepsInv
    <3>2. tree.alive
      BY <2>3 DEF allocation_fails, erase, Callable
    <3>3. tree'.alive
      BY <1>0, <3>1, <3>2 DEF MapInv, KindOK
    <3> QED BY <1>0, <3>1, <3>2, <3>3, StutterRefines, UntouchedStay
  <2>4. CASE free_erased
    <3>1. UNCHANGED <<tree, kind, entry, last>> /\ ValuesStay(entry, kind, value_cell, value_cell')
      BY <2>4, FreeErasedKeepsInv
    <3>2. tree.alive
      BY <2>4 DEF free_erased, Continues, MapInv, StageOK
    <3>3. HeldKeys(tree', entry') = HeldKeys(tree, entry)
      BY <3>1
    <3> QED BY <1>0, <3>1, <3>2, <3>3, StutterRefines
  <2> QED BY <1>14, <2>1, <2>2, <2>3, <2>4
<1>15. ASSUME (climb /\ UNCHANGED own_vars) \/ UNCHANGED map_vars
       PROVE  dictionary' = dictionary /\ last' = last
  BY <1>3, <1>15 DEF own_vars, map_vars
<1>16. ASSUME dictionary' = dictionary, last' = last
       PROVE  [D!Next]_<<IF tree.alive THEN Contents ELSE NULL, last>>
  BY <1>16 DEF dictionary
<1>17. ASSUME NEW key \in Keys, NEW value \in Values \cup {NULL},
              D!Insert(key, value) \/ D!Assign(key, value) \/ D!Erase(key) \/ D!New
       PROVE  D!Next
  BY <1>17 DEF D!Next
<1>18. Storable \subseteq Values \cup {NULL}
  BY DEF Storable
<1>19. CASE NothingToDo
  <2>1. \/ map_new_fails
        \/ \E key \in Keys, value \in Storable : D!Insert(key, value)
        \/ \E key \in Keys : D!Erase(key)
    BY <1>6, <1>7, <1>19 DEF NothingToDo
  <2> QED BY <1>5, <1>17, <1>18, <2>1
<1>20. CASE \E k \in {"map", "set"} : map_new(k)
  BY <1>4, <1>20 DEF D!Next
<1>21. CASE \E key \in Keys : map_erase(key)
  BY <1>8, <1>21 DEF D!Next
<1>22. CASE \E n \in Nodes(tree), value \in Values : assign(n, value)
  BY <1>9, <1>22 DEF D!Next
<1> QED BY <1>10, <1>11, <1>12, <1>13, <1>14, <1>15, <1>16, <1>19, <1>20, <1>21, <1>22, StepCases

(* Nodes, cells and pointers implement a dictionary: an insertion takes    *)
(* effect when its last allocation has succeeded, one that fails half way  *)
(* changes nothing, and no call changes the value of another key.          *)
THEOREM MapImplementsDictionary == MapSpec => ImplementsDictionary
<1>1. MapInit => D!Init
  BY DEF MapInit, Init, NoTree, D!Init
<1>2. MapInv /\ [MapNext]_map_vars => [D!Next]_<<IF tree.alive THEN Contents ELSE NULL, last>>
  BY MapNextRefines
<1> QED BY <1>1, <1>2, MapInvariance, PTL DEF MapSpec, ImplementsDictionary, D!Spec
=============================================================================
