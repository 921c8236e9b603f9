# CMagic in TLA+

This directory specifies, model-checks and proves properties of CMagic, a C
library of containers that can live in a static memory pool, with C++ headers
on top of the C code. Paths below are relative to the repository.

## 1. Inventory of the system

The library is single threaded. What makes it hard is not concurrency but long
sequences of legal calls over linked structures, calls that fail half way when
an allocation fails, and pointers that stay valid or do not.

| Part | Source | State it keeps | Operations | What makes it correct |
|---|---|---|---|---|
| utils | `src/utils.c`, `include/cmagic/utils.h` | none | align up / down, `DIV_CEIL`, `MIN`, `MAX` | arithmetic at the edges |
| memory | `src/memory.c`, `include/cmagic/memory.h` | `g_pool_begin`, `g_pool_end` and, inside the pool, a doubly linked list of headers | `init`, `malloc`, `realloc`, `free`, `free_ext`, `is_allocated`, three counters | regions disjoint and inside the pool; the list exactly what the program holds; contents survive realloc; a hole is found when there is one |
| avl_tree | `src/internal/avl_tree.c` | nodes with parent, kids, height; `root`, `tree_size` | `new`, `insert`, `erase`, `clear`, `free`, `first`, `last`, `next`, `prev`, `find` | search order, links, size, balance; iteration in order |
| vector | `src/vector.c`, `include/cmagic/vector.h` | capacity, size, data array | `new`, `allocate_back`, `push_back`, `pop_back`, `size`, `free` | size within capacity; amortised constant cost; unmodified on failure |
| map, set | `src/map.c`, `src/set.c` | an AVL tree plus one or two heap cells per entry | `new`, `insert`, `erase`, `find`, iteration, `clear`, `free` | no cell leaked or freed twice; a failed insert changes nothing |
| C++ vector, map, set | `include_cxx/cmagic/*.hpp` | a handle to a C container, null when moved from or when allocation failed | copies, moves, element constructors and destructors | every element constructed and destroyed once; no handle used after it was freed |
| build, tests, Unity | `CMakeLists.txt`, `test/`, `deps/` | | | not part of the program's logic |

Interaction is by calls only: the C++ headers call the C containers, map and set
call the tree, and all containers call the malloc, realloc and free of an
*allocation packet*, which is either the C library's or the one of `memory.c`.

Which behaviours are hard, in one line each (`PROJECT.json` has the full list,
with the line of each): a size computation that wraps; a pool whose end is not
on a block boundary; `realloc` sliding a block over its own header; stale and
interior pointers given to `free`; heights that are computed in the wrong order
and read calls later; a rebalancing loop that follows parent pointers it is
rewriting; the removal of a node with two kids; a vector that reads its argument
after it moved its array; a shrinking reallocation whose failure is ignored; a
map insertion that is undone half way; a C++ copy that fails half way and gives
its handle up; a moved-from object that needs a new handle; an iterator that
keeps a copy of the entry it points to.

## 2. Modules

| Module | Models | Uses |
|---|---|---|
| `Memory` | `memory.c`, and `utils.c` where it uses it | |
| `MemoryContents` | the bytes of the pool; the steps of `CSpec` are the calls of `Memory` with what they do to the bytes | extends `Memory` |
| `Heap` | what `memory.h` promises, without lists | the target of `Memory!ImplementsHeap` |
| `AvlTree` | `internal/avl_tree.c` | |
| `OrderedSet` | what `map.h` and `set.h` promise of their keys | the target of `AvlTree!ImplementsOrderedSet` |
| `Map` | `map.c` and `set.c` | extends `AvlTree` |
| `Dictionary` | what `map.h` and `set.h` promise | the target of `Map!ImplementsDictionary` |
| `Vector` | `vector.c` | |
| `Stack` | what `vector.h` promises | the target of `Vector!ImplementsStack` |
| `CxxObjects` | what `vector.hpp`, `map.hpp` and `set.hpp` share: objects, handles, element constructors and destructors, calls in several steps | |
| `CxxVector` | elements of `cmagic::vector` | extends `CxxObjects`, takes thresholds and allocator from `Vector` |
| `CxxMap` | elements and iterators of `cmagic::map` and `cmagic::set` | extends `CxxObjects` |
| `CxxContainers` | special members of the three templates | composes `CxxVector` and `CxxMap` |
| `Containers` | what the three headers promise: objects that are values | the target of `CxxContainers!ImplementsContainers` |
| `MC...` | values of constants for TLC | extend the module they are named after |
| `MemoryProofs`, `MemoryHeldProofs`, `HeapProofs` | theorems and proofs about `Memory` | extend one another, in this order |
| `ContentsProofs` | the theorem about `MemoryContents` | extends it and `HeapProofs` |
| `AvlTreeProofs`, `MapProofs` | theorems and proofs about `AvlTree` and `Map` | the second extends the first |
| `VectorProofs`, `CxxProofs` | theorems and proofs about `Vector` and `CxxContainers` | |

### Memory

`g_pool` is the pair of pointers `g_pool_begin`, `g_pool_end` (`NULL`, or the
number of blocks and whether a part of a block is left over), `node` is the set
of headers in the pool: the value of `chunk_t` at each block index that is a
header at the moment. Addresses count blocks from `g_pool_begin`, sizes count
bytes. `held` is an auxiliary variable: the blocks a program was given and has
not released, which the properties compare with the list. `last` is the last
call with its answer. There is one action per exported function that changes
state (`init`, `malloc`, `realloc` with its four ways out, `free_ext`, `free`),
and one operator per function that only reads. `realloc` is one action although
it calls `malloc` and `free`, because nothing can run in between. A loop over
`node_next` is the least set closed under `node_next` (`ListFrom`), which says
nothing false about a list that is broken, and can be reasoned about without
induction. `size_t` arithmetic is modulo `SizeMod`. `Debug` says whether
`assert` is compiled in; a failing assertion answers `ABORT`, a read through a
null pointer answers `CRASH`.

`MemoryContents` adds `cell`, the bytes. A program fills each block it is given:
byte i of the block at ptr holds the pair of the two, a value no other byte has.
A header that is written makes its bytes indeterminate; `moved` does header and
`memmove` in the order of the code. After a `realloc` the program calls the
block by its new address (`rename`) and fills the part that was added.

### AvlTree

`tree` is the descriptor and the nodes, with parent, kids, key and
`subtree_height`. A `tree_node_t **` is a link `<<owner, field>>`, and `Deref`
and `Store` read and write through it, so that `_rotate_left(&n->left_kid)` and
the root pointer work as they do in C. The two rotations share their stores
(`relink`) and differ in the order in which the two heights are computed, as
the code does. `insert` and `erase` link or unlink in one step; each iteration
of the loop that follows (`node = _rebalance(...)->parent`) is one `climb` step,
so the properties are also checked half way through a call. A rotation that
would read a null kid sets `crashed`, and nothing happens afterwards.

The failing `malloc` of an insertion is `insert_fails`: it stores the `NULL` that
`malloc` returned in the link the search found, as the code does before it looks
at it. Keys are integers, the
comparator is `<`. Values are not modelled: no code of the tree reads them.
Which free cell `malloc` returns makes no difference to the tree, so the model
for TLC names a node after its first key (`CellOfKey`).

### Map

`Map` composes with the tree: a call of a map is the steps of its tree calls,
which are the actions of `AvlTree` themselves, and its own steps between and
after them. `entry` has the pointers `key` and `value` of each tree node,
`key_cell` and `value_cell` are the allocated cells with their contents. `req`
is the call in progress with its local variables: an insertion goes through
`linked` (the node still points to the caller's key), `key_allocated` and the
storing of the entry, or through `undone` when an allocation fails; an erasure
through `erased`, in which only local variables still point to the cells. The
tree may rebalance in each of these stages. `set.c` is `map.c` without values,
line by line, so `kind` is chosen when a container is made and only a map has
the step for the value cell. A key in a node of `tree` is what the comparator
reads through the pointer; that this is what the cell holds is the property
`KeysInPlace`. `CMAGIC_MAP_ALLOCATE` followed by the initialization that its
contract demands is the same as an insertion. Destructors run between the tree
call and the release of the cells and change nothing the map knows of.

### Vector

`data` is the array, a function over `0 .. capacity - 1`. `alloc_packet` is the
allocator: `STD` may refuse any request, the other one, of `memory.c`, never
refuses to make a block smaller, which `Memory!ReallocFindsRoom` checks. There
is one action per function; `push_back` has a second one for an argument that
points into the vector itself. `calls` and `copied` are auxiliary counters.

### C++ containers

The three headers have the same special members, so `kind` says once which
template the objects of a program belong to. `handle` is the C handle of each
object (`NONE` before its constructor and after its destructor, `NULL` when an
allocation failed or the object was moved from and got no new container), `heap`
is the C containers with their slots. The C map and set are here what
`Dictionary` promises, entries in the order of their keys and insertions that
may fail; the C vector takes its growth and shrinking conditions from `Vector`
itself. A C container that is freed leaves its handle free for the next one.

Elements have constructors and destructors: `living` counts constructions minus
destructions, a part of a slot whose element was destroyed is `RAW`, and a
destructor of a `RAW` part, or a copy from one, is `undefined` behaviour.
Copying, moving, clearing and destroying work in several steps (`call`): first
`clear()`, one element per step, then what the member does next, with one
element per step in the loop that copies. An allocation may fail in each of
these steps; then the copy is cleared, freed, and the object gets a null handle.
An rvalue argument is `consumed` by the action that constructs an element from
it. The action says so itself, as one assignment next to the construction, so
`ImplementsContainers` compares this with what the headers promise case by case
(a new key, a known key, a failed allocation) and finds no mistake that several
steps would have to make together.

A program may push an element of a vector to the vector itself (`push_back_own`).
When the array has to grow, `realloc` may release it, and the constructor of the
new element, which runs after that, reads an element that is no longer there:
`status` is then `undefined`. `OwnPushWhenFull` says whether the program does this
to a full vector (section 5); to one that is not full it always may. The argument
is taken as an lvalue; `push_back(std::move(v[i]))` would also leave the element i
in a moved-from state, for which the model has no value.

`iterator` is one iterator of a map or set that the program keeps, with the copy
of the entry that an iterator of a map has (`adapter`). The program does not use
it any longer when the element is gone, and also when the entry behind an erased
one may have moved, as `IteratorsSurvive` of `AvlTree` says of the tree. Which
iterators an erase invalidates is taken from there and not derived again, and an
entry has no address here, only its key; what `AdapterShowsEntry` checks is that
the copy in the adapter is the entry of its container, whatever happens to other
entries and to the containers.

The program calls members only of objects for which `operator bool` is true, and
destroys any object; the assertions of the headers ask for this. It does not
move an object to itself (`SelfMove`, see section 5). `homes` and `address` say
where the array of a vector lies and where each element was constructed.

## 3. What the runs check

The passing runs (each property is stated in a comment where it is defined):

| Run | Answers | Bounds |
|---|---|---|
| `memory_blocks` | is the list always exact, are regions disjoint, are stale, interior and foreign pointers refused, is a hole found when there is one, does the list implement the abstract heap, does every byte of a block survive all other calls, slides and moves | pools of nine blocks and a half, of five blocks, of one block, each block of four bytes; data of one byte, two full blocks and one byte more; a second `init` |
| `avl_tree` | is the tree one well-linked search tree in every state, are iteration and search exact, which iterators survive, does every call end, does it implement an ordered set | five keys, all calls |
| `avl_inserts` | do the same iteration properties hold in trees high enough for rotations of inner nodes | eight keys, insertions only |
| `map` | does every cell have exactly one owner in every step, does the comparator always read the right keys, do the addresses of keys and values stay, is it a dictionary | four keys, two values, map and set, every allocation may fail |
| `vector` | does the array always have room, is copying amortised, is the array not too big, does it implement a stack | minimum capacity 2, five elements (two growths) of two values, 11 calls |
| `cxx` | does every C container have exactly one owner in every step, is every element constructed and destroyed once, do iterators show entries that exist, do objects behave as values when allocations fail | two objects, three handles, two keys, two values, vectors of up to three elements over a minimum capacity of two, every allocation may fail |

Six runs state what a document says and are expected to be violated (section 5).

Why the bounds are enough. In `memory_blocks` three holes and four blocks can
coexist, so a block can be freed at both ends and between two others, `realloc`
can stay, slide down, grow into the hole behind, move, or fail; the chunk is two
alignment units as in the C code, and the nine and a half blocks end inside a
block. With five keys a node with two kids has a successor both next to it and
further down, and all four rotations occur, also after the removal of a node;
eight keys give trees of height four, in which rotations move subtrees that are
not empty and one insertion can pass several levels. With three keys an inserted
node can already be lifted above two others before its key cell turns out not
to be available, which is the interesting case of `map`; the fourth lets the
successor of an erased node be further away. The two values of `map` are
symmetric. The vector passes each of its thresholds in both directions, and
everything that `vector` checks is also proved for all constants. In `cxx` two
objects can be source and target of each other, or one of them null, while the
third handle lets a new container be allocated next to both; three elements make
a vector grow and shrink. The objects, handles and values of `cxx` are
interchangeable (`SYMMETRY`), which is sound because all properties of this run,
the refinement included, are safety properties without a liveness part.

Fairness. Only `AvlTree` has a liveness property, `CallReturns`. Its
specification assumes `WF_vars(climb)`: the library has one thread, and a call
that runs is executed until it returns. No call is assumed ever to be made. The
other modules have neither loops that span steps nor a scheduler, so there is
nothing that must eventually happen.

`CHECK_DEADLOCK FALSE` is set everywhere: a program may stop calling, the
bounds on calls are reached, and after a crash nothing happens.

## 4. What is proved

**`MemoryProofs`** proves `TypeOK`, `RegionsDisjoint` and `ListIsComplete`
for all sizes and sequences of calls, wrapping and zero sizes included.
The assumptions are those of `Memory` on its constants and `PoolsFit`: every
array has room for a whole chunk, or for so little that `init` rejects it. All
theorems about `Memory` assume this, hence none is about every pool: they are
false of an accepted array that is smaller than a chunk (section 5). The list properties are not inductive; the invariant `IInv` says that
the list is `WellFormed`: `node_next` leads to a header behind the end of the
data, `node_prev` leads back, no header lies between a node and its successor,
and the sentinel is there. From this `WalkIsUpwards` concludes what a walk over
`node_next` visits: take the least header it would miss, and look at the last
visited one below it. Then one lemma per change of the list (a header inserted
into a hole, a header removed, a size changed in place) shows that it stays
well-formed, and one lemma per call shows that the call makes one of these changes.

**`MemoryHeldProofs`** compares the list with what the program holds. It proves
`HeldIsListed`, `IsAllocatedExact`, `FreeAcceptsExactlyHeld` and
`NoAssertionOnHeld` when every size needs a block of data (`SizesTakeRoom`; the
run `memory_zero_size` shows why), and `CapacityCovers` when block counts do not
wrap (`SizesDoNotWrap`; the run `memory_huge_size` shows why). The second
invariant, `HeldLists`, says that `held` and the headers behind the sentinel are
the same blocks with the same sizes. The step that needs care is the `realloc`
that allocates, copies and frees: `ListedIsInside` shows that the block passes the
comparisons of `free_ext` with both ends of the pool, so that the free in it
succeeds; otherwise the old block would stay listed without an owner.

It also proves `MallocTakesLowestHole`, `ReallocFindsRoom` and `CountersExact`. The first two
compare a walk over headers with the set of all holes. `HoleIsRoom` goes from a
hole to the last node below it: that node ends before the hole and its successor
begins behind it, so the walk sees the room; `RoomIsHole` is the way back. Nodes
end in the order of their addresses, hence the first node with room has the
lowest hole behind it. When `realloc` gives up, the holes are those of the list
without the old block: such a hole lies behind some other node, which `malloc`
would have found, or behind the predecessor of the old block, where the block
would have fitted in place.

`CountersExact` compares sums over sets. `MapThenSumSet` is a recursive function
over the subsets of its set, and the elements it picks are arbitrary, so that the
sum over headers and the sum over held blocks pick theirs in unrelated orders.
`SumIsUnits` gets rid of the recursion: a sum is the number of pairs of an element
and a unit below its value, because that number satisfies the recursion and a
smallest set on which another solution differs cannot exist. Equal sums are then
one-to-one correspondences: pairs of a header and a byte with pairs of a block
and a byte, and pairs of a header and a block index with the blocks of the
regions (`BlocksAreRegions`), where separate regions make it one-to-one. That the
free bytes do not wrap needs two more facts about a pool, `SentinelOK`: the
sentinel has no data, and the bytes of the whole pool fit into `size_t`.

**`HeapProofs`** proves the refinement `ImplementsHeap` from both invariants.
`ListedAreSeparate` turns the order of headers into what the abstract heap asks
for, regions of bytes inside the arena that do not overlap; then each call
allocates, resizes or releases one region or changes nothing.

**`ContentsProofs`** proves `ContentsKept` for `MemoryContents`, assuming
`PoolsFit`, `SizesTakeRoom` and `SizesDoNotWrap`. `Laid` says where the bytes of
held blocks are: in the pool, in no header (`HeadersApart`) and in no other
block. Each of the functions on bytes is then looked at one byte at a time. The
step that needs care is `CarriedAreKept`: `realloc` writes the new header before
it copies, and the copy may overlap its source. `SlideSpares` and `MoveSpares`
show that this header is below the old data, or in a hole apart from them.

**`AvlTreeProofs`** proves `TypeOK`, `WellLinked`, `IterationExact`,
`IteratorsSurvive` and the refinement `ImplementsOrderedSet` for all sets of keys
and cells and every sequence of calls, up to a crash (section 5). None of these
speaks of heights, so their proofs hold whatever the wrong heights make
`_rebalance` do. The invariant `TreeInv` has two parts that the properties do not
mention. `Linked`: parents and kids agree, and no set of nodes is closed under
parents, which says "from every node the parents lead to the root" without
recursion. And the tree is `InOrder` with some `bound`: each node has two
ancestors, possibly none, between whose keys it and its whole subtree lie. The
bounds of a kid are those of its parent with the parent itself in place of one of
them, so the order of a tree is a fact about each link, and a rotation, an
insertion and an unlinking change a handful of links and bounds. A rotation is
looked at once for both sides (`RelinkRotates`, `RotationKeepsLinked`,
`RotationKeepsOrder`); `erase` of a node with two kids is an unlinking followed
by a change of one key (`UnlinkingKeeps`, `RekeyingKeeps`). The loops of the code
(`outermost`, the climb of `next` and `prev`, `internal_find`) are recursive
functions on nodes: `LoopFunction` shows that they exist, taking the nodes from
which the loop is already defined and a node whose successor in the loop is one
of them; that the loop ends is what `Linked` says. They then return a bound or a
lowest node on one side, which is the next key. Assumed of the constants is, next
to what the module says of keys and cells, that `NULL` is none of the sets of keys
that `ImplementsOrderedSet` shows.

The last part of the module is about heights and proves `BalancedUntilTilted`.
Stored heights are exact and differ by at most one (`FitsAt`) at all nodes but
the one the loop of `insert` is at; `Pending` says of that one that it fits the
height its kid towards the new key had before the insertion, and that this kid,
if it is higher now, is a new leaf or leans towards the key (`Grown`). The
leaning is what makes the four cases of `_rebalance` match the shape: a kid that
is two higher (`TwoHigher`) has a grandkid for the inner rotation to lift, so no
rotation meets `NULL`, and a single or a double rotation to the right
(`SingleFits`, `DoubleFits`) restores the old height. `_rotate_left` as the inner
rotation stores a wrong height too, in the node that `rotate_right` overwrites at
once: that is why only a rebalancing that ends in `_rotate_left` tilts the tree.
`RotationKeepsBelow` keeps the new key below the loop across a rotation. Stored
heights then are the true ones by `StoredHeightsTrue`, a lowest node at which the
two differ being impossible.

**`MapProofs`** proves `MapTypeOK`, `EveryCellOwnedOnce`, `KeysInPlace`, `CellsStay`
and the refinement `ImplementsDictionary`, with any allocation failing. The
invariant `MapInv` contains `TreeInv` and adds: what the local variables of a call
hold at each of its stages (`StageOK`), that at most one node, the one being
inserted, borrows the caller's key (`OneBorrows`), that the pointers of the
entries and the one local variable lead to all allocated cells and no two to the
same one (`Owned`, once for keys and once for values), and that the comparator's
key is in the cell it is read from (`KeysMatch`). The steps that need care are the
erasures, two of which happen inside an insertion that fails: `Moved` says which
pointers `avl_tree_erase` leaves in which node, and `MoveLeavesCell` that exactly
the one of the erased key is left to the caller. `MapClear` releases what its
iteration visits; `VisitedAll` shows that this is every node. `CellsStay` and
`ImplementsDictionary` compare two states: `ContentsFollow` says that a key which
no step erases or adds is found, before and after, in entries with the same
pointers. `NULL` must be no dictionary and no kind of container.

**`VectorProofs`** proves `TypeOK`, `SizeWithinCapacity`, `AmortisedCost`,
`CapacityTight` and the refinement `ImplementsStack` for every minimum capacity
and any number of elements and calls. The invariant has two parts that the
properties do not mention. First, the capacity is in `Doublings`, the least set
with the minimum that is closed under doubling: otherwise halving could go below
the minimum, and an odd capacity would lose an element to the integer division.
Second, `CostPaid`: the elements copied so far together with `Imbalance`, the
distance of the array from being half full, are at most the minimum capacity
plus two for each call. A call changes the imbalance by at most two, and a
reallocation copies as many elements as the imbalance falls. The refinement
assumes that `NULL` is no sequence and that the program does not push an element
of the full vector itself; without the latter it is false (section 5).

**`CxxProofs`** proves `HandlesOwnedOnce` for any number of objects, handles,
elements and calls, with any allocation failing, also for programs that move
objects to themselves. Ownership (`Owns`) is inductive only with `CallSound`: a
call in progress works on an object that has a container, and a move has a
source. One lemma per way in which ownership changes (`Gains`, `Loses`,
`Receives`, `TakesOver`) is about any assignment of handles; each step of the
program is an instance of one of them or changes no handle.

`CxxTypeOK`, `ElementsLiveOnce` and `AdapterShowsEntry` need more: the invariant
`CxxInv` adds `ElementsOK`. `HeapOK`: every container is whole, its elements
constructed and its entries in the order of their keys, except the one that is
being cleared. `CountOK`: `living` is the number of the constructed elements in
all containers; `MadeGrows` and `MadeDestroyed` say how that number changes when
a slot is put into a sequence, taken out of it or destroyed in place. `CallOK`:
how far `clear()` and the copy loop have come (`PartlyCleared`, `PartlyCopied`),
and that the other object of a copy is not the object itself. `IteratorOK`: the
entry of the iterator exists. The step that needs care is the copy loop of maps
and sets (`CopyInsertStep`): what has been copied is the beginning of an ordered
source, so the next key is above all of them, it is inserted at the end, and the
assertion that it is new holds. `Position` counts the keys below a key;
`PositionFacts` turns this into a place in an ordered sequence.
All of these hold of every program. `NothingUndefined` follows from the same
invariant for programs that move no object to itself and push no element of a full
vector to the vector itself, which are assumptions about the program (`SelfMove`,
`OwnPushWhenFull`); for others it is false (section 5).

Under the same assumptions `ObjectsAreValues` proves the refinement
`ImplementsContainers`. `ObjectIs` says what an object shows, `ObjectStays` and
`OwnTouched` which objects a step on a container or a handle changes: only the one
that owns it, by `Owns`, which is where two objects with one container would
break the abstraction. Then one lemma per group of calls names the abstract step.
The iterations of `clear()` and of copies are not to be seen, because a call in
progress hides the items of its object; a copy ends when `PartlyCopied` says that
all of the source is there (`EndingRefines`). The abstract maps choose the
sequence that has their entries in order; `SameEntries` shows that there is only
one, the one that the code's insertions at `Position` produce.

**Only model-checked**: `CallReturns` of `AvlTree`, which is liveness and beyond
the prover. Every other property of a passing run is a theorem.

## 5. Where code and documentation differ

With a run that shows it:

| Run | Source | What happens |
|---|---|---|
| `memory_zero_size` | `memory.c:187` | a block of size zero at the very end of the pool is returned and then reported as not allocated, and can never be freed |
| `memory_huge_size` | `memory.c:50` | a request near `SIZE_MAX` wraps in the block count and succeeds without room |
| `avl_insert_crash` | `avl_tree.c:122`, `133` | `_rotate_left` computes the height of the upper node first, from an outdated one; nine insertions are enough for a rotation through a null pointer |
| `avl_erase_balance` | `avl_tree.c:335` | removing a leaf rebalances nothing |
| `vector_own_push` | `vector.c:102` | pushing an element of the full vector itself reads the released array |
| `cxx_elements_move` | `vector.hpp:49` | a growing vector moves its C++ elements with `realloc`, byte by byte, without their constructors |

The tree properties of the passing runs are stated so that they hold of the code
as it is: `BalancedUntilTilted` asks for the AVL condition until the first
`erase` or the first rebalancing that ends in a left rotation, which is the
one that stores a wrong height. `WellLinked`, `IterationExact`,
`IteratorsSurvive` and `ImplementsOrderedSet` hold without such a condition, up
to a crash.

Noticed while modelling, without a run of their own: an array with room for an
alignment unit but not for a chunk may be accepted by `init`, and what `malloc`
returns then lies outside of it (`memory.c:39`); C leaves the difference of two
pointers that is no multiple of the chunk undefined, gcc compares the addresses
and accepts the array, and `accepted` is a choice over what builds do (with such
a pool, TLC finds `RegionsDisjoint` violated by `init`, whose sentinel does not
fit); `free_ext` compares with the first
header instead of the beginning of the pool, so it answers "outside of the
memory pool" for an unallocated block below it, and the other way round with an
empty list (`memory.c:160`, `memory.h:92-95`); `is_allocated` reads through a
null pool after `init` has rejected an array (`memory.c:187`); `align_address_up`
moves an aligned address (`utils.c:6`, `utils.h:46`); `erase` of a node with two
kids frees the node of the next key, so iterators to that key dangle
(`avl_tree.c:319`), which `IteratorsSurvive` states as it is; a failed insertion
can do the same, since it erases its node (`map.c:89`, `set.c:84`), while the
addresses of keys and values stay (`CellsStay`); six insertions are
enough for a tree that is not balanced. In the C++ headers: move assignment of an
object to itself reads the container it has just freed (`vector.hpp:105`; with
`SelfMove = TRUE`, TLC reaches this in `NothingUndefined` after four steps); `push_back` of an element of the full vector itself constructs
the new element from one in the array that `realloc` has released
(`vector.hpp:59`; with `OwnPushWhenFull = TRUE` and a second address, TLC reaches
this in `NothingUndefined` after four steps); an object whose handle became null, by a failed copy or a move, cannot be assigned
to; `--end()` fails an assertion although the iterators call themselves
bidirectional; an iterator of a map needs default constructors of key and value.

## 6. Not modelled

- Element constructors that throw: the headers promise not to throw, and have no
  code that could clean up after one.
- In C++, an rvalue that is an element of the vector itself, and containers as
  elements of containers.
- `size`, `empty` and `end` of the C++ templates: they only read.
- The product of capacity and member size in `vector.c:69`: it wraps only when
  the array already fills half of the address space.
- Magic values and `assert`s on null handles: they compare constants.
- The unit tests, build files and the vendored test framework.

## 7. Plan

1. `Memory`, `MemoryContents`, `Heap` with their proofs: the allocator. Done.
2. `AvlTree`, `OrderedSet`, `AvlTreeProofs`. Done; `CallReturns` stays with TLC.
3. `Vector`, `Stack`, `VectorProofs`. Done.
4. `Map`, `Dictionary`, `MapProofs`. Done.
5. `CxxObjects`, `CxxVector`, `CxxMap`, `CxxContainers`, `Containers`,
   `CxxProofs`: the C++ wrappers. Done.
