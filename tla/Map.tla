---------------------------------- MODULE Map ----------------------------------
(***************************************************************************)
(* The containers map (src/src/map.c) and set (src/src/set.c) over the AVL *)
(* tree.  Next to the node that the tree allocates, an entry has a cell    *)
(* for its key and, in a map, one for its value.  Each allocation may      *)
(* fail, and an insertion that fails half way erases its node again.       *)
(*                                                                         *)
(* set.c is map.c without values: kind says which of the two the container *)
(* is.  A call consists of the steps of its tree calls and of its own      *)
(* steps between and after them; req is the call in progress.              *)
(***************************************************************************)
EXTENDS AvlTree

CONSTANTS
  Values,    (* the values of a map                                        *)
  CALLER,    (* the pointer to the key that the caller passed              *)
  UNINIT     (* the contents of memory nobody wrote                        *)

ASSUME MapAssumption ==
  /\ NULL \notin {"map", "set"}
  /\ CALLER \notin Cells \cup {NULL} /\ UNINIT \notin Keys \cup Values
  /\ \A keys \in SUBSET Keys : \A dict \in [keys -> Values \cup {NULL}] : dict # NULL

VARIABLES
  kind,        (* "map", "set", or NULL when there is no container         *)
  entry,       (* the pointers key and value of each tree node             *)
  key_cell,    (* the allocated key cells and their contents               *)
  value_cell,  (* the allocated value cells and their contents             *)
  req,         (* the call in progress with its local variables            *)
  last         (* the last call that took effect, and its answer           *)

own_vars == <<kind, entry, key_cell, value_cell, req, last>>

map_vars == <<vars, own_vars>>

-----------------------------------------------------------------------------
Idle == [stage |-> "idle", key |-> NULL, value |-> NULL, node |-> NULL,
         allocated_key |-> NULL, value_to_delete |-> NULL]

Ready == req = Idle /\ tree.alive /\ Returned /\ ~crashed

(* The call goes on when the tree call inside it has returned.             *)
Continues(stage) == req.stage = stage /\ Returned /\ ~crashed

Answer(op, key, value, answer) ==
  last' = [op |-> op, key |-> key, value |-> value, answer |-> answer]

With(f, x, y) == [z \in DOMAIN f \cup {x} |-> IF z = x THEN y ELSE f[z]]

(* free_function; the cell may be NULL.                                    *)
Freed(heap, cell) == Without(heap, cell)

MapInit ==
  /\ Init
  /\ kind = NULL
  /\ entry = EmptyFn /\ key_cell = EmptyFn /\ value_cell = EmptyFn
  /\ req = Idle
  /\ last = [op |-> "none", key |-> NULL, value |-> NULL, answer |-> "none"]

map_new(k) ==
  /\ new
  /\ kind' = k
  /\ Answer("new", NULL, NULL, "created")
  /\ UNCHANGED <<entry, key_cell, value_cell, req>>

(* One of the two allocations fails and the other one is undone.           *)
map_new_fails ==
  /\ ~tree.alive /\ ~crashed
  /\ Answer("new", NULL, NULL, "failed")
  /\ UNCHANGED <<vars, kind, entry, key_cell, value_cell, req>>

-----------------------------------------------------------------------------
(* Insertion.                                                              *)

(* mutant: the value of an entry that exists is replaced                   *)
Mut_map_insert_existing(key, value) ==
  /\ Ready /\ insert_existing(key)
  /\ value_cell' = IF kind = "set" THEN value_cell
                   ELSE [value_cell EXCEPT ![entry[find(tree, key)].value] = value]
  /\ Answer("insert", key, value, "already_exists")
  /\ UNCHANGED <<kind, entry, key_cell, req>>

map_insert_existing(key, value) ==
  /\ Ready /\ insert_existing(key)
  /\ Answer("insert", key, value, "already_exists")
  /\ UNCHANGED <<kind, entry, key_cell, value_cell, req>>

map_insert_without_node(key, value) ==
  /\ Ready /\ insert_fails(key)
  /\ Answer("insert", key, value, "failed")
  /\ UNCHANGED <<kind, entry, key_cell, value_cell, req>>

(* The tree links a node that still points to the key of the caller.       *)
map_insert(key, value) ==
  /\ Ready /\ insert_new(key)
  /\ \E n \in DOMAIN tree'.node \ DOMAIN tree.node :
       /\ entry' = With(entry, n, [key |-> CALLER, value |-> NULL])
       /\ req' = [Idle EXCEPT !.stage = "linked", !.key = key, !.value = value, !.node = n]
  /\ UNCHANGED <<kind, key_cell, value_cell, last>>

(* mutant: the key is not copied into its cell                             *)
Mut_store_entry(k, v) ==
  /\ entry' = [entry EXCEPT ![req.node] = [key |-> k, value |-> v]]
  /\ key_cell' = With(key_cell, k, UNINIT)
  /\ value_cell' = IF v = NULL THEN value_cell ELSE With(value_cell, v, req.value)
  /\ req' = Idle
  /\ Answer("insert", req.key, req.value, "inserted")
  /\ UNCHANGED <<vars, kind>>

(* The pointers to the cells are stored in the node and the cells receive  *)
(* key and value, in insert by memcpy and after allocate by the caller.    *)
store_entry(k, v) ==
  /\ entry' = [entry EXCEPT ![req.node] = [key |-> k, value |-> v]]
  /\ key_cell' = With(key_cell, k, req.key)
  /\ value_cell' = IF v = NULL THEN value_cell ELSE With(value_cell, v, req.value)
  /\ req' = Idle
  /\ Answer("insert", req.key, req.value, "inserted")
  /\ UNCHANGED <<vars, kind>>

set_allocate_key ==
  /\ Continues("linked") /\ kind = "set"
  /\ \E k \in FreshCells(DOMAIN key_cell, req.key) : store_entry(k, NULL)

map_allocate_key ==
  /\ Continues("linked") /\ kind = "map"
  /\ \E k \in FreshCells(DOMAIN key_cell, req.key) :
       /\ key_cell' = With(key_cell, k, UNINIT)
       /\ req' = [req EXCEPT !.stage = "key_allocated", !.allocated_key = k]
  /\ UNCHANGED <<vars, kind, entry, value_cell, last>>

map_allocate_value ==
  /\ Continues("key_allocated")
  /\ \E v \in FreshCells(DOMAIN value_cell, req.key) : store_entry(req.allocated_key, v)

(* mutant: only the key of the successor moves                             *)
Mut_entry_without(key) ==
  LET n == find(tree, key)
      v == victim(n)
  IN  Without([entry EXCEPT ![n].key = entry[v].key], v)

(* mutant: the node that was found is freed instead of the successor       *)
Mut_entry_without_found(key) == Without(entry, find(tree, key))

(* The pointers after cmagic_avl_tree_erase: a node with two kids takes    *)
(* those of its successor, whose node is freed.                            *)
entry_without(key) ==
  LET n == find(tree, key)
      v == victim(n)
  IN  Without([entry EXCEPT ![n] = entry[v]], v)

(* No cell for the key, or none for the value: the new node is erased,     *)
(* which by now may have two kids.                                         *)
allocation_fails ==
  /\ Continues("linked") \/ Continues("key_allocated")
  /\ erase(req.key)
  /\ entry' = entry_without(req.key)
  /\ req' = [req EXCEPT !.stage = "undone", !.node = NULL]
  /\ UNCHANGED <<kind, key_cell, value_cell, last>>

(* mutant: the key cell is not released                                    *)
Mut_insert_returns_null ==
  /\ Continues("undone")
  /\ req' = Idle
  /\ Answer("insert", req.key, req.value, "failed")
  /\ UNCHANGED <<vars, kind, entry, key_cell, value_cell>>

insert_returns_null ==
  /\ Continues("undone")
  /\ key_cell' = Freed(key_cell, req.allocated_key)
  /\ req' = Idle
  /\ Answer("insert", req.key, req.value, "failed")
  /\ UNCHANGED <<vars, kind, entry, value_cell>>

-----------------------------------------------------------------------------
(* Erasing.                                                                *)

map_erase_missing(key) ==
  /\ Ready /\ find(tree, key) = NULL
  /\ Answer("erase", key, NULL, "none")
  /\ UNCHANGED <<vars, kind, entry, key_cell, value_cell, req>>

(* The pointers are read before the tree erases the node.                  *)
map_erase(key) ==
  /\ Ready /\ find(tree, key) # NULL
  /\ erase(key)
  /\ entry' = entry_without(key)
  /\ LET found == entry[find(tree, key)]
     IN  req' = [Idle EXCEPT !.stage = "erased", !.allocated_key = found.key,
                             !.value_to_delete = found.value]
  /\ Answer("erase", key, NULL, "none")
  /\ UNCHANGED <<kind, key_cell, value_cell>>

(* After the destructor both cells are released.                           *)
free_erased ==
  /\ Continues("erased")
  /\ key_cell' = Freed(key_cell, req.allocated_key)
  /\ value_cell' = Freed(value_cell, req.value_to_delete)
  /\ req' = Idle
  /\ UNCHANGED <<vars, kind, entry, last>>

(* The program assigns through an iterator: CMAGIC_MAP_GET_VALUE(...) = v. *)
assign(n, value) ==
  /\ Ready /\ kind = "map"
  /\ value_cell' = [value_cell EXCEPT ![entry[n].value] = value]
  /\ Answer("assign", tree.node[n].key, value, "none")
  /\ UNCHANGED <<vars, kind, entry, key_cell, req>>

-----------------------------------------------------------------------------
(* Clearing.                                                               *)

(* The nodes the loop over first and next visits.                          *)
Visited ==
  LET on[n \in DOMAIN tree.node \cup {NULL}] ==
        IF n = NULL THEN {} ELSE {n} \cup on[iterator_next(tree, n)]
  IN  on[tree_first(tree)]

(* Releases the cells of all entries, and then the nodes.  While the loop  *)
(* runs the keys of the nodes behind it are gone, and next reads none.     *)
clear_entries ==
  /\ key_cell' = [c \in DOMAIN key_cell \ {entry[n].key : n \in Visited} |-> key_cell[c]]
  /\ value_cell' = [c \in DOMAIN value_cell \ {entry[n].value : n \in Visited} |-> value_cell[c]]
  /\ entry' = [n \in DOMAIN tree'.node |-> entry[n]]

map_clear ==
  /\ Ready /\ clear
  /\ clear_entries
  /\ Answer("clear", NULL, NULL, "none")
  /\ UNCHANGED <<kind, req>>

map_free ==
  /\ Ready /\ free
  /\ clear_entries
  /\ kind' = NULL
  /\ Answer("free", NULL, NULL, "none")
  /\ UNCHANGED req

-----------------------------------------------------------------------------
(* The steps of a call after its first one.                                *)
Running ==
  \/ climb /\ UNCHANGED own_vars
  \/ set_allocate_key \/ map_allocate_key \/ map_allocate_value
  \/ allocation_fails \/ insert_returns_null
  \/ free_erased

Storable == IF kind = "map" THEN Values ELSE {NULL}

MapNext ==
  \/ \E k \in {"map", "set"} : map_new(k)
  \/ map_new_fails
  \/ \E key \in Keys, value \in Storable :
       \/ map_insert_existing(key, value)
       \/ map_insert_without_node(key, value)
       \/ map_insert(key, value)
  \/ \E key \in Keys : map_erase(key) \/ map_erase_missing(key)
  \/ \E n \in DOMAIN tree.node, value \in Values : assign(n, value)
  \/ map_clear \/ map_free
  \/ Running

MapSpec == MapInit /\ [][MapNext]_map_vars

-----------------------------------------------------------------------------
(* Properties.                                                             *)

(* The nodes that have their own key cell.                                 *)
Stored == {n \in DOMAIN entry : entry[n].key # CALLER}

MapTypeOK ==
  /\ kind \in {"map", "set", NULL} /\ (kind = NULL <=> ~tree.alive)
  /\ entry \in [DOMAIN tree.node -> [key : Cells \cup {CALLER}, value : Cells \cup {NULL}]]
  /\ DOMAIN key_cell \cup DOMAIN value_cell \subseteq Cells
  /\ key_cell \in [DOMAIN key_cell -> Keys \cup {UNINIT}]
  /\ value_cell \in [DOMAIN value_cell -> Values]
  /\ req.stage \in {"idle", "linked", "key_allocated", "undone", "erased"}

(* Every pointer of owners leads to a cell of its own in heap, and every   *)
(* cell has an owner; local is the pointer in a local variable.            *)
OwnedOnce(heap, owners, pointer(_), local) ==
  /\ DOMAIN heap = {pointer(n) : n \in owners} \cup ({local} \ {NULL})
  /\ \A n \in owners :
       pointer(n) # local /\ \A m \in owners \ {n} : pointer(m) # pointer(n)

(* No cell leaks, is shared or is released while something points to it:   *)
(* in no step of any call, also when an insertion is undone half way or    *)
(* the tree moves pointers from a node to another one.                     *)
EveryCellOwnedOnce ==
  ~crashed =>
    /\ OwnedOnce(key_cell, Stored, LAMBDA n : entry[n].key, req.allocated_key)
    /\ OwnedOnce(value_cell, IF kind = "map" THEN Stored ELSE {},
                 LAMBDA n : entry[n].value, req.value_to_delete)

(* What the comparator reads through the key pointers is what the tree is  *)
(* ordered by, and the only entry without cells is the one that is being   *)
(* inserted, in the node the call will answer, whatever was rotated since. *)
KeysInPlace ==
  ~crashed =>
    /\ \A n \in Stored : key_cell[entry[n].key] = tree.node[n].key
    /\ DOMAIN entry \ Stored =
         IF req.stage \in {"linked", "key_allocated"} THEN {req.node} ELSE {}
    /\ \A n \in DOMAIN entry \ Stored : tree.node[n].key = req.key

KeysStored == {tree.node[n].key : n \in Stored}

NodeOf(key) == CHOOSE n \in Stored : tree.node[n].key = key

(* The addresses of a key and its value do not change while the key is in  *)
(* the container, whatever other keys are inserted or erased, or fail to.  *)
CellsStay ==
  [][\A key \in KeysStored \cap KeysStored' :
       entry'[NodeOf(key)'] = entry[NodeOf(key)]]_map_vars

-----------------------------------------------------------------------------
(* Refinement.                                                             *)

Contents ==
  [key \in KeysStored |-> IF kind = "map" THEN value_cell[entry[NodeOf(key)].value] ELSE NULL]

D == INSTANCE Dictionary WITH dict <- IF tree.alive THEN Contents ELSE NULL

(* Nodes and cells implement a dictionary: an insertion takes effect when  *)
(* its last allocation has succeeded, a failed one changes no key and no   *)
(* value, and no call changes another key's value.                         *)
ImplementsDictionary == D!Spec
=============================================================================
