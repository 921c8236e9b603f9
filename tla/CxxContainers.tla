----------------------------- MODULE CxxContainers -----------------------------
(***************************************************************************)
(* cmagic::vector, cmagic::map and cmagic::set: the life of objects, of    *)
(* the C containers they hold and of the elements in these.  The special   *)
(* members are the same in the three headers; the elements are those of    *)
(* CxxVector and CxxMap.  A program calls members only of objects whose    *)
(* operator bool is true, and the destructor of every object.              *)
(***************************************************************************)
EXTENDS CxxVector, CxxMap

CONSTANT SelfMove   (* the program moves objects to themselves             *)

ASSUME CxxContainersAssumption == SelfMove \in BOOLEAN

-----------------------------------------------------------------------------
(* The C containers.                                                       *)

empty_containers(packet) ==
  IF kind = "vector" THEN empty_vectors(packet) ELSE empty_trees(packet)

With(h, fresh, c) == [g \in DOMAIN h \cup {fresh} |-> IF g = fresh THEN c ELSE h[g]]

(* What CMAGIC_VECTOR_NEW, CMAGIC_MAP_NEW or CMAGIC_SET_NEW may answer, and *)
(* make of the heap; a handle that was freed may be used again.            *)
New(packet, h) ==
  {[handle |-> NULL, heap |-> h]} \cup
  {[handle |-> fresh, heap |-> With(h, fresh, c)] :
     fresh \in Handles \ DOMAIN h, c \in empty_containers(packet)}

(* CMAGIC_VECTOR_FREE, CMAGIC_MAP_FREE, CMAGIC_SET_FREE                    *)
Freed(h, hd) == [g \in DOMAIN h \ {hd} |-> h[g]]

-----------------------------------------------------------------------------
(* Construction.                                                           *)

CxxInit ==
  /\ kind \in Kinds
  /\ handle = [o \in Objects |-> NONE] /\ heap = <<>>
  /\ living = 0 /\ iterator = NULL
  /\ call = Idle /\ status = "ok"
  /\ last = [op |-> "none", object |-> NULL, answer |-> TRUE, consumed |-> FALSE]

Constructing(o) == Ready /\ handle[o] = NONE

(* vector(), custom_allocation_vector() and those of map and set           *)
default_construct(o, packet) ==
  /\ Constructing(o)
  /\ \E new \in New(packet, heap) :
       /\ handle' = [handle EXCEPT ![o] = new.handle]
       /\ heap' = new.heap
       /\ Answer("create", o, new.handle # NULL, FALSE)
  /\ UNCHANGED <<kind, living, iterator, call, status>>

(* vector(const vector &)                                                  *)
copy_construct(o, x) ==
  /\ Constructing(o) /\ Initialized(x)
  /\ \E new \in New(heap[handle[x]].packet, heap) :
       /\ handle' = [handle EXCEPT ![o] = new.handle]
       /\ heap' = new.heap
       /\ IF new.handle = NULL
          THEN Answer("copy", o, FALSE, FALSE) /\ UNCHANGED call
          ELSE Enter("copy", o, x) /\ UNCHANGED last
  /\ UNCHANGED <<kind, living, iterator, status>>

(* o takes over the handle of x, which gets a new one or none; the heap is *)
(* h by now.                                                               *)
take_over(o, x, h) ==
  \E new \in New(h[handle[x]].packet, h) :
    /\ handle' = [handle EXCEPT ![o] = handle[x], ![x] = new.handle]
    /\ heap' = new.heap

(* vector(vector &&)                                                       *)
move_construct(o, x) ==
  /\ Constructing(o) /\ Initialized(x)
  /\ take_over(o, x, heap)
  /\ Answer("move", o, TRUE, FALSE)
  /\ UNCHANGED <<kind, living, iterator, call, status>>

-----------------------------------------------------------------------------
(* The other calls of special members begin.                               *)

Unentered == UNCHANGED <<kind, handle, heap, living, iterator, status>>

(* mutant: the elements the target had are not removed                     *)
Mut_copy_assign(o, x) ==
  /\ Ready /\ Initialized(o) /\ Initialized(x)
  /\ IF o = x THEN Answer("copy", o, TRUE, FALSE) /\ UNCHANGED call
     ELSE call' = [op |-> "copy", self |-> o, other |-> x, stage |-> "copy", at |-> 1]
          /\ UNCHANGED last
  /\ Unentered

(* mutant: an object is not recognized as itself                           *)
Mut_copy_assign_self(o, x) ==
  /\ Ready /\ Initialized(o) /\ Initialized(x)
  /\ Enter("copy", o, x) /\ UNCHANGED last
  /\ Unentered

(* operator=(const vector &)                                               *)
copy_assign(o, x) ==
  /\ Ready /\ Initialized(o) /\ Initialized(x)
  /\ IF o = x THEN Answer("copy", o, TRUE, FALSE) /\ UNCHANGED call
     ELSE Enter("copy", o, x) /\ UNCHANGED last
  /\ Unentered

(* operator=(vector &&)                                                    *)
move_assign(o, x) ==
  /\ Ready /\ Initialized(o) /\ Initialized(x) /\ (o # x \/ SelfMove)
  /\ Enter("move", o, x) /\ UNCHANGED last
  /\ Unentered

clear(o) ==
  /\ Ready /\ Initialized(o)
  /\ Enter("clear", o, NULL) /\ UNCHANGED last
  /\ Unentered

(* ~vector()                                                               *)
destroy(o) ==
  /\ Ready /\ Initialized(o)
  /\ Enter("destroy", o, NULL) /\ UNCHANGED last
  /\ Unentered

destroy_uninitialized(o) ==
  /\ Ready /\ handle[o] = NULL
  /\ handle' = [handle EXCEPT ![o] = NONE]
  /\ Answer("destroy", o, TRUE, FALSE)
  /\ UNCHANGED <<kind, heap, living, iterator, call, status>>

-----------------------------------------------------------------------------
(* They go on when the container is clear.                                 *)

Finished(op) == Continues("cleared") /\ call.op = op

finish_clear ==
  /\ Finished("clear") /\ Return(TRUE)
  /\ UNCHANGED <<kind, handle, heap, living, iterator, status>>

start_copying ==
  /\ Finished("copy")
  /\ call' = [call EXCEPT !.stage = "copy", !.at = 1]
  /\ UNCHANGED <<kind, handle, heap, living, iterator, last, status>>

finish_copy ==
  /\ Continues("copy") /\ call.at > Len(Slots(call.other)) /\ Return(TRUE)
  /\ UNCHANGED <<kind, handle, heap, living, iterator, status>>

(* The container is freed, and the object's handle is replaced.            *)
release(replacement) ==
  /\ heap' = Freed(heap, Mine)
  /\ handle' = [handle EXCEPT ![call.self] = replacement]
  /\ UNCHANGED <<kind, living, iterator, status>>

(* mutant: the handle of the freed container stays in the object           *)
Mut_give_up_copy ==
  /\ Finished("failed_copy")
  /\ heap' = Freed(heap, Mine)
  /\ call' = Idle /\ Answer("copy", call.self, FALSE, FALSE)
  /\ UNCHANGED <<kind, handle, living, iterator, status>>

(* An element of the copy could not be allocated.                          *)
give_up_copy ==
  /\ Finished("failed_copy") /\ release(NULL)
  /\ call' = Idle /\ Answer("copy", call.self, FALSE, FALSE)

finish_destroy == Finished("destroy") /\ release(NONE) /\ Return(TRUE)

(* The handle of x is that of the container just freed when x is the       *)
(* object itself.                                                          *)
finish_move ==
  LET x == call.other
      rest == Freed(heap, Mine)
  IN  /\ Finished("move")
      /\ IF handle[x] \in DOMAIN rest
         THEN take_over(call.self, x, rest) /\ Return(TRUE) /\ UNCHANGED status
         ELSE status' = "undefined" /\ UNCHANGED <<handle, heap, call, last>>
      /\ UNCHANGED <<kind, living, iterator>>

-----------------------------------------------------------------------------
CxxNext ==
  \/ \E o \in Objects :
       \/ \E packet \in {STD, CUSTOM_CMAGIC} : default_construct(o, packet)
       \/ clear(o) \/ destroy(o) \/ destroy_uninitialized(o)
       \/ pop_back(o) \/ begin(o)
  \/ \E o, x \in Objects :
       \/ copy_construct(o, x) \/ move_construct(o, x)
       \/ copy_assign(o, x) \/ move_assign(o, x)
  \/ \E o \in Objects, item \in AllItems, argument \in Argument :
       \/ push_back(o, item, argument)
       \/ insert_new(o, item, argument) \/ insert_existing(o, item, argument)
  \/ \E o \in Objects, item \in AllItems :
       \/ insert_fails(o, item)
       \/ \E pos \in 1 .. MaxSize : subscript(o, pos, item)
  \/ \E o \in Objects, pos \in 1 .. MaxSize : push_back_own(o, pos)
  \/ \E o \in Objects, key \in Keys : erase(o, key) \/ find(o, key)
  \/ increment \/ decrement
  \/ clear_vector \/ copy_push_back \/ clear_tree \/ copy_insert
  \/ finish_clear \/ start_copying \/ finish_copy \/ give_up_copy
  \/ finish_destroy \/ finish_move

CxxSpec == CxxInit /\ [][CxxNext]_cxx_vars

-----------------------------------------------------------------------------
(* Properties.                                                             *)

Slot == [value : Values \cup {RAW}]
          \cup [key : Keys \cup {RAW}] \cup [key : Keys \cup {RAW}, value : Values \cup {RAW}]

(* Types of the variables; the elements of a vector fit into its array.    *)
CxxTypeOK ==
  /\ kind \in Kinds
  /\ handle \in [Objects -> Handles \cup {NULL, NONE}]
  /\ DOMAIN heap \subseteq Handles
  /\ \A h \in DOMAIN heap :
       /\ heap[h].packet \in {STD, CUSTOM_CMAGIC} /\ Range(heap[h].slots) \subseteq Slot
       /\ kind = "vector" => Len(heap[h].slots) <= heap[h].capacity
  /\ living \in Nat
  /\ status \in {"ok", "undefined", "aborted"}

(* No C container leaks, is freed while an object has it, or belongs to    *)
(* two objects: in every step of copies and moves, also when allocations   *)
(* in them fail and when freed handles are given out again.                *)
HandlesOwnedOnce ==
  status = "ok" =>
    /\ DOMAIN heap = {handle[o] : o \in {p \in Objects : Initialized(p)}}
    /\ \A o, x \in Objects : Initialized(o) /\ o # x => handle[o] # handle[x]

(* The parts of slots that are constructed elements.                       *)
ConstructedIn(slot) == {part \in DOMAIN slot : slot[part] # RAW}

Constructed ==
  UNION {UNION {{<<h, i, part>> : part \in ConstructedIn(heap[h].slots[i])} :
                  i \in DOMAIN heap[h].slots} : h \in DOMAIN heap}

(* Every element is constructed once and destroyed once, keys and values   *)
(* of maps too: none is lost with the array or the entry it was in, and    *)
(* destroyed ones are found only in a container that is being cleared.     *)
ElementsLiveOnce ==
  status = "ok" =>
    /\ living = Cardinality(Constructed)
    /\ \A h \in DOMAIN heap : \A i \in DOMAIN heap[h].slots :
         IsRaw(heap[h].slots[i]) => call.stage = "clear" /\ h = Mine /\ i < call.at

(* No element is destroyed twice, read before it is constructed or in an   *)
(* array that was released, no call uses a freed container, and the        *)
(* assertions in the copy loops of map.hpp and set.hpp hold: no key is     *)
(* copied into a container that has it.                                    *)
NothingUndefined == status = "ok"

(* Whatever happens to other entries and wherever the container is moved   *)
(* to, an iterator that was not invalidated points to an entry that        *)
(* exists, and the copy that an iterator of a map shows is that entry.     *)
AdapterShowsEntry ==
  iterator # NULL /\ iterator.key # NULL =>
    /\ iterator.container \in DOMAIN heap
    /\ iterator.key \in KeysOf(heap[iterator.container].slots)
    /\ kind = "map" => iterator.adapter \in Range(heap[iterator.container].slots)
                       /\ iterator.adapter.key = iterator.key

-----------------------------------------------------------------------------
(* Refinement.                                                             *)

(* What the objects are to a program; a call in progress hides the items.  *)
ObjectOf(o) ==
  IF ~Initialized(o) THEN [packet |-> handle[o], items |-> NULL]
  ELSE IF handle[o] \notin DOMAIN heap THEN [packet |-> NULL, items |-> NULL]
  ELSE [packet |-> heap[handle[o]].packet,
        items  |-> IF call.self = o THEN NULL ELSE heap[handle[o]].slots]

AllObjects == [o \in Objects |-> ObjectOf(o)]

PendingCall ==
  [op    |-> IF call.op = "failed_copy" THEN "copy" ELSE call.op,
   self  |-> call.self, other |-> call.other]

Promised == INSTANCE Containers WITH
  object <- AllObjects, pending <- PendingCall

(* Objects are values: a copy has the elements of its source whatever the  *)
(* target had, a moved-from object is empty or null, a failed copy leaves  *)
(* a null handle, a failed insertion consumes and changes nothing.         *)
ImplementsContainers == Promised!Spec

-----------------------------------------------------------------------------
(* What the documentation says and the code does not do.                   *)

(* README.md:31: "Can hold any primitive or custom type elements".  An      *)
(* element is at the address at which its constructor made it.             *)
ElementsStay ==
  kind = "vector" =>
    \A h \in DOMAIN heap : \A i \in DOMAIN heap[h].homes : heap[h].homes[i] = heap[h].address
=============================================================================
