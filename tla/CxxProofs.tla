------------------------------- MODULE CxxProofs -------------------------------
(***************************************************************************)
(* Proofs about C++ containers, for any number of objects and containers,  *)
(* any elements, and every pattern of failing allocations: first that each *)
(* handle has one owner, then what copies, moves and clear() do to the     *)
(* elements.                                                               *)
(***************************************************************************)
EXTENDS CxxContainers, SequenceTheorems, FunctionTheorems, FiniteSetTheorems, TLAPS

-----------------------------------------------------------------------------
(* Objects hd that own the containers D.                                   *)
Null == {NULL, NONE}

Owns(hd, D) ==
  /\ hd \in [Objects -> Handles \cup Null]
  /\ D = {hd[o] : o \in {p \in Objects : hd[p] \notin Null}}
  /\ \A o, x \in Objects : hd[o] \notin Null /\ o # x => hd[o] # hd[x]

(* Freshly made or taken, a container gets exactly one owner.              *)
LEMMA Gains ==
  ASSUME NEW hd, NEW D, Owns(hd, D),
         NEW o \in Objects, hd[o] \in Null, NEW h \in Handles \ D
  PROVE  Owns([hd EXCEPT ![o] = h], D \cup {h})
<1> DEFINE new == [hd EXCEPT ![o] = h]
<1>1. h \notin Null
  BY CxxAssumption DEF Null
<1>2. new \in [Objects -> Handles \cup Null] /\ new[o] = h
      /\ \A x \in Objects \ {o} : new[x] = hd[x]
  BY DEF Owns
<1>3. \A x \in Objects : hd[x] \notin Null => hd[x] \in D
  BY DEF Owns
<1> HIDE DEF new
<1>4. D \cup {h} = {new[x] : x \in {p \in Objects : new[p] \notin Null}}
  BY <1>1, <1>2 DEF Owns
<1>5. ASSUME NEW x \in Objects, NEW y \in Objects, new[x] \notin Null, x # y
      PROVE  new[x] # new[y]
  <2>1. CASE x = o
    BY <1>1, <1>2, <1>3, <1>5, <2>1
  <2>2. CASE y = o
    BY <1>1, <1>2, <1>3, <1>5, <2>2
  <2>3. CASE x # o /\ y # o
    BY <1>2, <1>5, <2>3 DEF Owns
  <2> QED BY <2>1, <2>2, <2>3
<1> QED BY <1>2, <1>4, <1>5 DEF Owns, new

(* An object without a container changes between null and not existing.    *)
LEMMA StaysWithout ==
  ASSUME NEW hd, NEW D, Owns(hd, D),
         NEW o \in Objects, hd[o] \in Null, NEW r \in Null
  PROVE  Owns([hd EXCEPT ![o] = r], D)
<1> DEFINE new == [hd EXCEPT ![o] = r]
<1>1. new \in [Objects -> Handles \cup Null] /\ new[o] = r
      /\ \A x \in Objects \ {o} : new[x] = hd[x]
  BY DEF Owns
<1> HIDE DEF new
<1>2. D = {new[x] : x \in {p \in Objects : new[p] \notin Null}}
  BY <1>1 DEF Owns
<1>3. \A x, y \in Objects : new[x] \notin Null /\ x # y => new[x] # new[y]
  BY <1>1 DEF Owns
<1> QED BY <1>1, <1>2, <1>3 DEF Owns, new

(* An object gives its container up.                                       *)
LEMMA Loses ==
  ASSUME NEW hd, NEW D, Owns(hd, D),
         NEW o \in Objects, hd[o] \notin Null, NEW r \in Null
  PROVE  Owns([hd EXCEPT ![o] = r], D \ {hd[o]})
<1> DEFINE new == [hd EXCEPT ![o] = r]
<1>1. new \in [Objects -> Handles \cup Null] /\ new[o] = r
      /\ \A x \in Objects \ {o} : new[x] = hd[x]
  BY DEF Owns
<1> HIDE DEF new
<1>2. D \ {hd[o]} = {new[x] : x \in {p \in Objects : new[p] \notin Null}}
  BY <1>1 DEF Owns
<1>3. \A x, y \in Objects : new[x] \notin Null /\ x # y => new[x] # new[y]
  BY <1>1 DEF Owns
<1> QED BY <1>1, <1>2, <1>3 DEF Owns, new

-----------------------------------------------------------------------------
(* Allocations.                                                            *)

(* A new container has a handle that no container has.                     *)
LEMMA NewAnswers ==
  ASSUME NEW packet, NEW h, NEW new \in New(packet, h)
  PROVE  \/ new.handle = NULL /\ DOMAIN new.heap = DOMAIN h
         \/ new.handle \in Handles \ DOMAIN h /\ DOMAIN new.heap = DOMAIN h \cup {new.handle}
<1>1. CASE new = [handle |-> NULL, heap |-> h]
  BY <1>1
<1>2. ASSUME NEW fresh \in Handles \ DOMAIN h, NEW c,
             new = [handle |-> fresh, heap |-> With(h, fresh, c)]
      PROVE  new.handle \in Handles \ DOMAIN h /\ DOMAIN new.heap = DOMAIN h \cup {new.handle}
  BY <1>2 DEF With
<1> QED BY <1>1, <1>2 DEF New

(* An object without a container receives what an allocation answered.     *)
LEMMA Receives ==
  ASSUME NEW hd, NEW h, Owns(hd, DOMAIN h), NEW o \in Objects, hd[o] \in Null,
         NEW packet, NEW new \in New(packet, h)
  PROVE  Owns([hd EXCEPT ![o] = new.handle], DOMAIN new.heap)
<1>1. CASE new.handle = NULL /\ DOMAIN new.heap = DOMAIN h
  BY <1>1, StaysWithout DEF Null
<1>2. CASE new.handle \in Handles \ DOMAIN h /\ DOMAIN new.heap = DOMAIN h \cup {new.handle}
  BY <1>2, Gains
<1> QED BY <1>1, <1>2, NewAnswers

(* o takes the container of x, and x receives what an allocation answered. *)
LEMMA TakesOver ==
  ASSUME NEW hd, NEW h, Owns(hd, DOMAIN h),
         NEW o \in Objects, NEW x \in Objects, hd[o] \in Null, hd[x] \notin Null,
         NEW packet, NEW new \in New(packet, h)
  PROVE  Owns([hd EXCEPT ![o] = hd[x], ![x] = new.handle], DOMAIN new.heap)
<1> DEFINE D == DOMAIN h
           without == [hd EXCEPT ![x] = NULL]
           taken == [without EXCEPT ![o] = hd[x]]
<1>1. Owns(without, D \ {hd[x]})
  BY Loses DEF Null
<1>2. o # x /\ hd[x] \in D /\ hd[x] \in Handles
  BY DEF Owns
<1>3. without[o] \in Null /\ hd[x] \in Handles \ (D \ {hd[x]})
  BY <1>2 DEF Owns
<1>4. Owns(taken, (D \ {hd[x]}) \cup {hd[x]})
  BY <1>1, <1>3, Gains
<1>5. (D \ {hd[x]}) \cup {hd[x]} = DOMAIN h
  BY <1>2
<1>6. taken[x] \in Null
  BY <1>2 DEF Owns, Null
<1>7. Owns(taken, DOMAIN h)
  BY <1>4, <1>5
<1>8. [taken EXCEPT ![x] = new.handle] = [hd EXCEPT ![o] = hd[x], ![x] = new.handle]
  BY <1>2 DEF Owns
<1> HIDE DEF taken
<1>9. Owns([taken EXCEPT ![x] = new.handle], DOMAIN new.heap)
  BY <1>6, <1>7, Receives
<1> QED BY <1>8, <1>9

-----------------------------------------------------------------------------
(* The inductive invariant: next to the ownership of containers, that the  *)
(* call in progress works on an object that has one.                       *)
CallTyped ==
  call = [op |-> call.op, self |-> call.self, other |-> call.other,
          stage |-> call.stage, at |-> call.at]

CallSound ==
  /\ CallTyped
  /\ call.stage # "idle" =>
       /\ call.self \in Objects /\ handle[call.self] \notin Null
       /\ call.op = "move" => call.other \in Objects

IInv == Owns(handle, DOMAIN heap) /\ CallSound

(* In the beginning there is neither a container nor a call.               *)
LEMMA InitHandles == CxxInit => IInv
<1> SUFFICES ASSUME CxxInit PROVE IInv
  OBVIOUS
<1>1. \A o \in Objects : handle[o] \in Null
  BY DEF CxxInit, Null
<1>2. DOMAIN heap = {}
  BY DEF CxxInit
<1>3. Owns(handle, DOMAIN heap)
  BY <1>1, <1>2 DEF CxxInit, Owns, Null
<1>4. CallSound
  BY DEF CxxInit, CallSound, CallTyped, Idle
<1> QED BY <1>3, <1>4 DEF IInv

(* What steps do to handles and to the set of containers when they give    *)
(* no object another one; the call may only go on or begin.                *)
LEMMA Keeps ==
  ASSUME IInv, handle' = handle, DOMAIN heap' = DOMAIN heap, CallSound'
  PROVE  IInv'
BY DEF IInv

GoesOn ==
  /\ CallTyped' /\ call'.self = call.self /\ call'.other = call.other
  /\ call.stage # "idle" /\ (call'.op = "move" => call.op = "move")

(* A call in progress keeps its object while that keeps its container.     *)
LEMMA CallKept ==
  ASSUME CallSound, handle' = handle, call' = call \/ call' = Idle \/ GoesOn
  PROVE  CallSound'
<1>1. CASE call' = call
  BY <1>1 DEF CallSound, CallTyped
<1>2. CASE call' = Idle
  BY <1>2 DEF CallSound, CallTyped, Idle
<1>3. CASE GoesOn
  BY <1>3 DEF CallSound, GoesOn
<1> QED BY <1>1, <1>2, <1>3

(* A call that begins works on an object with a container.                 *)
LEMMA CallEntered ==
  ASSUME NEW op, NEW o \in Objects, NEW x \in Objects \cup {NULL},
         Enter(op, o, x), handle'[o] \notin Null, op = "move" => x \in Objects
  PROVE  CallSound'
BY DEF Enter, CallSound, CallTyped

-----------------------------------------------------------------------------
(* The steps that give an object another container or take one away.       *)

(* Constructors, and the destructor of an object without a container.      *)
LEMMA CreatingSteps ==
  ASSUME IInv, NEW o \in Objects,
         \/ \E packet : default_construct(o, packet)
         \/ \E x \in Objects : copy_construct(o, x) \/ move_construct(o, x)
         \/ destroy_uninitialized(o)
  PROVE  IInv'
<1> USE DEF IInv, Initialized
<1>1. ASSUME NEW packet, default_construct(o, packet) PROVE IInv'
  <2>1. handle[o] \in Null
    BY <1>1 DEF default_construct, Constructing, Null
  <2>2. PICK new \in New(packet, heap) :
          handle' = [handle EXCEPT ![o] = new.handle] /\ heap' = new.heap
    BY <1>1 DEF default_construct
  <2>3. Owns(handle', DOMAIN heap')
    BY <2>1, <2>2, Receives
  <2>4. CallSound'
    BY <1>1 DEF default_construct, Constructing, Ready, Idle, CallSound, CallTyped
  <2> QED BY <2>3, <2>4
<1>2. ASSUME NEW x \in Objects, copy_construct(o, x) PROVE IInv'
  <2>1. handle[o] \in Null
    BY <1>2 DEF copy_construct, Constructing, Null
  <2> DEFINE packet == heap[handle[x]].packet
  <2>2. PICK new \in New(packet, heap) :
          /\ handle' = [handle EXCEPT ![o] = new.handle] /\ heap' = new.heap
          /\ IF new.handle = NULL THEN UNCHANGED call ELSE Enter("copy", o, x)
    BY <1>2 DEF copy_construct
  <2>3. Owns(handle', DOMAIN heap')
    BY <2>1, <2>2, Receives
  <2>4. CASE new.handle = NULL
    <3>1. CallSound'
      BY <1>2, <2>2, <2>4 DEF copy_construct, Constructing, Ready, Idle, CallSound, CallTyped
    <3> QED BY <2>3, <3>1
  <2>5. CASE new.handle # NULL
    <3>1. new.handle \in Handles
      BY <2>5, NewAnswers
    <3>2. handle'[o] \notin Null
      BY <2>2, <3>1, CxxAssumption DEF Owns, Null
    <3>3. CallSound'
      BY <2>2, <2>5, <3>2, CallEntered
    <3> QED BY <2>3, <3>3
  <2> QED BY <2>4, <2>5
<1>3. ASSUME NEW x \in Objects, move_construct(o, x) PROVE IInv'
  <2>1. handle[o] \in Null /\ handle[x] \notin Null
    BY <1>3 DEF move_construct, Constructing, Null
  <2> DEFINE packet == heap[handle[x]].packet
  <2>2. PICK new \in New(packet, heap) :
          handle' = [handle EXCEPT ![o] = handle[x], ![x] = new.handle] /\ heap' = new.heap
    BY <1>3 DEF move_construct, take_over
  <2>3. Owns(handle', DOMAIN heap')
    BY <2>1, <2>2, TakesOver
  <2>4. CallSound'
    BY <1>3 DEF move_construct, Constructing, Ready, Idle, CallSound, CallTyped
  <2> QED BY <2>3, <2>4
<1>4. ASSUME destroy_uninitialized(o) PROVE IInv'
  <2>1. Owns([handle EXCEPT ![o] = NONE], DOMAIN heap)
    BY <1>4, StaysWithout DEF destroy_uninitialized, Null
  <2>2. CallSound'
    BY <1>4 DEF destroy_uninitialized, Ready, Idle, CallSound, CallTyped
  <2> QED BY <1>4, <2>1, <2>2 DEF destroy_uninitialized
<1> QED BY <1>1, <1>2, <1>3, <1>4

(* The ends of failed copies, destructors and moves.                       *)
LEMMA FinishingSteps ==
  ASSUME IInv, give_up_copy \/ finish_destroy \/ finish_move
  PROVE  IInv'
<1> USE DEF IInv
<1>0. call.self \in Objects /\ handle[call.self] \notin Null
  BY DEF give_up_copy, finish_destroy, finish_move, Finished, Continues, CallSound
<1>1. ASSUME NEW r \in Null, release(r), call' = Idle PROVE IInv'
  <2>1. Owns([handle EXCEPT ![call.self] = r], DOMAIN heap \ {handle[call.self]})
    BY <1>0, Loses
  <2>2. DOMAIN heap' = DOMAIN heap \ {handle[call.self]}
        /\ handle' = [handle EXCEPT ![call.self] = r]
    BY <1>1 DEF release, Freed, Mine
  <2>3. CallSound'
    BY <1>1 DEF CallSound, CallTyped, Idle
  <2> QED BY <2>1, <2>2, <2>3
<1>2. CASE give_up_copy
  BY <1>1, <1>2 DEF give_up_copy, Null
<1>3. CASE finish_destroy
  BY <1>1, <1>3 DEF finish_destroy, Return, Null
<1>4. CASE finish_move
  <2> DEFINE x == call.other
             rest == Freed(heap, Mine)
  <2>1. x \in Objects
    BY <1>4 DEF finish_move, Finished, Continues, CallSound
  <2>2. CASE handle[x] \notin DOMAIN rest
    <3>1. UNCHANGED <<handle, heap, call>>
      BY <1>4, <2>2 DEF finish_move
    <3> QED BY <3>1 DEF CallSound, CallTyped
  <2>3. CASE handle[x] \in DOMAIN rest
    <3> DEFINE without == [handle EXCEPT ![call.self] = NULL]
               packet == rest[handle[x]].packet
    <3>1. take_over(call.self, x, rest) /\ call' = Idle
      BY <1>4, <2>3 DEF finish_move, Return
    <3>2. DOMAIN rest = DOMAIN heap \ {handle[call.self]}
      BY DEF Freed, Mine
    <3>3. Owns(without, DOMAIN rest)
      <4> HIDE DEF rest
      <4>1. Owns(without, DOMAIN heap \ {handle[call.self]})
        BY <1>0, Loses DEF Null
      <4> QED BY <4>1, <3>2
    <3>4. x # call.self /\ handle[x] \notin Null
      BY <2>3, <3>2, CxxAssumption DEF Owns, Null
    <3>5. without[call.self] \in Null /\ without[x] = handle[x]
      BY <1>0, <2>1, <3>4 DEF Owns, Null
    <3>6. PICK new \in New(packet, rest) :
            /\ handle' = [handle EXCEPT ![call.self] = handle[x], ![x] = new.handle]
            /\ heap' = new.heap
      BY <3>1 DEF take_over
    <3>7. [without EXCEPT ![call.self] = without[x], ![x] = new.handle] = handle'
      BY <1>0, <2>1, <3>5, <3>6 DEF Owns
    <3> HIDE DEF without, packet, rest, x
    <3>8. Owns([without EXCEPT ![call.self] = without[x], ![x] = new.handle], DOMAIN new.heap)
      BY <1>0, <2>1, <3>3, <3>4, <3>5, TakesOver
    <3>9. CallSound'
      BY <3>1 DEF CallSound, CallTyped, Idle
    <3> QED BY <3>6, <3>7, <3>8, <3>9
  <2> QED BY <2>2, <2>3
<1> QED BY <1>2, <1>3, <1>4

-----------------------------------------------------------------------------
(* The other steps.                                                        *)

(* A program's call on elements or iterators, in one step.                 *)
LEMMA ElementSteps ==
  ASSUME IInv, NEW o \in Objects,
         \/ \E item, argument : \/ push_back(o, item, argument)
                                \/ insert_new(o, item, argument)
                                \/ insert_existing(o, item, argument)
         \/ \E item : insert_fails(o, item) \/ \E pos : subscript(o, pos, item)
         \/ \E key : erase(o, key) \/ find(o, key)
         \/ pop_back(o) \/ begin(o)
  PROVE  IInv'
<1>1. handle' = handle /\ call' = call
  BY DEF push_back, insert_new, insert_existing, insert_fails, subscript, erase, find,
         pop_back, begin
<1>2. DOMAIN heap' = DOMAIN heap
  <2>1. ASSUME NEW item, NEW argument, push_back(o, item, argument) PROVE DOMAIN heap' = DOMAIN heap
    BY <2>1 DEF push_back, push_back_template, push_back_fails
  <2>2. ASSUME NEW item, NEW argument, insert_new(o, item, argument) PROVE DOMAIN heap' = DOMAIN heap
    BY <2>2 DEF insert_new, insert_template
  <2>3. ASSUME NEW item, NEW argument, insert_existing(o, item, argument)
        PROVE  DOMAIN heap' = DOMAIN heap
    BY <2>3 DEF insert_existing
  <2>4. ASSUME NEW item, insert_fails(o, item) PROVE DOMAIN heap' = DOMAIN heap
    BY <2>4 DEF insert_fails
  <2>5. ASSUME NEW item, NEW pos, subscript(o, pos, item) PROVE DOMAIN heap' = DOMAIN heap
    BY <2>5 DEF subscript
  <2>6. ASSUME NEW key, erase(o, key) PROVE DOMAIN heap' = DOMAIN heap
    BY <2>6 DEF erase
  <2>7. CASE pop_back(o)
    BY <2>7 DEF pop_back, pop_last
  <2>8. ASSUME (\E key : find(o, key)) \/ begin(o) PROVE DOMAIN heap' = DOMAIN heap
    BY <2>8 DEF find, begin
  <2> QED BY <2>1, <2>2, <2>3, <2>4, <2>5, <2>6, <2>7, <2>8
<1>3. CallSound'
  BY <1>1, CallKept DEF IInv
<1> QED BY <1>1, <1>2, <1>3, Keeps

(* Iterators own nothing.                                                  *)
LEMMA IteratorSteps ==
  ASSUME IInv, increment \/ decrement
  PROVE  IInv'
<1>1. handle' = handle /\ heap' = heap /\ call' = call
  BY DEF increment, decrement, MoveIterator
<1> QED BY <1>1, CallKept, Keeps DEF IInv

(* A call that begins.                                                     *)
LEMMA EnteringSteps ==
  ASSUME IInv, NEW o \in Objects,
         \/ \E x \in Objects : copy_assign(o, x) \/ move_assign(o, x)
         \/ clear(o) \/ destroy(o)
  PROVE  IInv'
<1>1. handle' = handle /\ heap' = heap
  BY DEF copy_assign, move_assign, clear, destroy, Unentered
<1>2. handle[o] \notin Null
  BY DEF copy_assign, move_assign, clear, destroy, Initialized, Null
<1>3. \/ call' = call
      \/ \E x \in Objects : Enter("copy", o, x) \/ Enter("move", o, x)
      \/ Enter("clear", o, NULL) \/ Enter("destroy", o, NULL)
  BY DEF copy_assign, move_assign, clear, destroy
<1>4. CallSound'
  <2>1. CASE call' = call
    BY <1>1, <2>1, CallKept DEF IInv
  <2>2. ASSUME NEW x \in Objects, Enter("copy", o, x) \/ Enter("move", o, x) PROVE CallSound'
    BY <1>1, <1>2, <2>2, CallEntered
  <2>3. CASE Enter("clear", o, NULL) \/ Enter("destroy", o, NULL)
    BY <1>1, <1>2, <2>3, CallEntered
  <2> QED BY <1>3, <2>1, <2>2, <2>3
<1> QED BY <1>1, <1>4, Keeps

(* A call that goes on.                                                    *)
LEMMA ContinuingSteps ==
  ASSUME IInv,
         \/ clear_vector \/ copy_push_back \/ clear_tree \/ copy_insert
         \/ finish_clear \/ start_copying \/ finish_copy
  PROVE  IInv'
<1>1. handle' = handle
  BY DEF clear_vector, copy_push_back, clear_tree, copy_insert, finish_clear, start_copying,
         finish_copy
<1>2. DOMAIN heap' = DOMAIN heap
  <2>1. CASE clear_vector
    BY <2>1 DEF clear_vector, pop_last
  <2>2. CASE copy_push_back
    BY <2>2 DEF copy_push_back, push_back_template, push_back_fails
  <2>3. CASE clear_tree
    BY <2>3 DEF clear_tree
  <2>4. CASE copy_insert
    BY <2>4 DEF copy_insert, insert_template
  <2>5. CASE finish_clear \/ start_copying \/ finish_copy
    BY <2>5 DEF finish_clear, start_copying, finish_copy
  <2> QED BY <2>1, <2>2, <2>3, <2>4, <2>5
<1>3. call.stage # "idle"
  BY DEF clear_vector, copy_push_back, clear_tree, copy_insert, finish_clear, start_copying,
         finish_copy, Finished, Continues
<1>4. call' = call \/ call' = Idle \/ GoesOn
  <2> USE <1>3 DEF IInv, CallSound, CallTyped, GoesOn
  <2>1. CASE clear_vector
    BY <2>1 DEF clear_vector
  <2>2. CASE copy_push_back
    BY <2>2 DEF copy_push_back
  <2>3. CASE clear_tree
    BY <2>3 DEF clear_tree
  <2>4. CASE copy_insert
    BY <2>4 DEF copy_insert
  <2>5. CASE finish_clear \/ start_copying \/ finish_copy
    BY <2>5 DEF finish_clear, start_copying, finish_copy, Return
  <2> QED BY <2>1, <2>2, <2>3, <2>4, <2>5
<1>5. CallSound'
  BY <1>1, <1>4, CallKept DEF IInv
<1> QED BY <1>1, <1>2, <1>5, Keeps

(* push_back of an element of the vector itself is a push_back, or reads   *)
(* the released array and changes nothing that counts any longer.          *)
LEMMA OwnPushFacts ==
  ASSUME NEW o, NEW pos, push_back_own(o, pos)
  PROVE  \/ /\ OwnPushWhenFull /\ status' = "undefined" /\ Ready
            /\ UNCHANGED <<kind, handle, heap, living, iterator, call, last>>
         \/ /\ push_back(o, Slots(o)[pos], "const &") /\ kind = "vector"
            /\ Ready /\ Initialized(o) /\ pos \in DOMAIN Slots(o)
<1> DEFINE full == C(heap[handle[o]])!is_full
<1>1. /\ Ready /\ kind = "vector" /\ Initialized(o) /\ pos \in DOMAIN Slots(o)
      /\ full => OwnPushWhenFull
      /\ \E released \in IF full THEN BOOLEAN ELSE {FALSE} :
           IF released
           THEN /\ status' = "undefined"
                /\ UNCHANGED <<kind, handle, heap, living, iterator, call, last>>
           ELSE /\ push_back(o, Slots(o)[pos], "const &")
                /\ heap'[handle[o]].address = heap[handle[o]].address
  BY DEF push_back_own
<1> HIDE DEF full
<1> QED BY <1>1

LEMMA OwnPushHandles ==
  ASSUME IInv, NEW o \in Objects, NEW pos, push_back_own(o, pos)
  PROVE  IInv'
<1>1. CASE UNCHANGED <<kind, handle, heap, living, iterator, call, last>>
  BY <1>1, CallKept, Keeps DEF IInv
<1>2. CASE push_back(o, Slots(o)[pos], "const &")
  BY <1>2, ElementSteps
<1> QED BY <1>1, <1>2, OwnPushFacts

(* Every step of the program keeps the invariant.                          *)
LEMMA NextHandles == IInv /\ [CxxNext]_cxx_vars => IInv'
<1> SUFFICES ASSUME IInv, [CxxNext]_cxx_vars PROVE IInv'
  OBVIOUS
<1>1. CASE UNCHANGED cxx_vars
  BY <1>1, CallKept, Keeps DEF cxx_vars, IInv
<1>2. CASE CxxNext
  <2>1. ASSUME NEW o \in Objects,
               \/ \E packet : default_construct(o, packet)
               \/ \E x \in Objects : copy_construct(o, x) \/ move_construct(o, x)
               \/ destroy_uninitialized(o)
        PROVE  IInv'
    BY <2>1, CreatingSteps
  <2>2. ASSUME NEW o \in Objects,
               \/ \E x \in Objects : copy_assign(o, x) \/ move_assign(o, x)
               \/ clear(o) \/ destroy(o)
        PROVE  IInv'
    BY <2>2, EnteringSteps
  <2>3. ASSUME NEW o \in Objects,
               \/ \E item, argument : \/ push_back(o, item, argument)
                                      \/ insert_new(o, item, argument)
                                      \/ insert_existing(o, item, argument)
               \/ \E item : insert_fails(o, item) \/ \E pos : subscript(o, pos, item)
               \/ \E key : erase(o, key) \/ find(o, key)
               \/ pop_back(o) \/ begin(o)
        PROVE  IInv'
    BY <2>3, ElementSteps
  <2>4. ASSUME increment \/ decrement PROVE IInv'
    BY <2>4, IteratorSteps
  <2>5. ASSUME \/ clear_vector \/ copy_push_back \/ clear_tree \/ copy_insert
               \/ finish_clear \/ start_copying \/ finish_copy
        PROVE  IInv'
    BY <2>5, ContinuingSteps
  <2>6. ASSUME give_up_copy \/ finish_destroy \/ finish_move PROVE IInv'
    BY <2>6, FinishingSteps
  <2>7. ASSUME NEW o \in Objects, NEW pos, push_back_own(o, pos) PROVE IInv'
    BY <2>7, OwnPushHandles
  <2> QED BY <1>2, <2>1, <2>2, <2>3, <2>4, <2>5, <2>6, <2>7 DEF CxxNext
<1> QED BY <1>1, <1>2

-----------------------------------------------------------------------------
(* The theorem.                                                            *)

(* In every program, with any number of objects, copies and moves, and     *)
(* whatever allocations fail: every container has exactly one owner in     *)
(* every step, so none leaks, is freed twice or is used after its release. *)
(* The step of a self-move in which the code would read a freed container  *)
(* ends the behaviour and breaks no ownership before.                      *)
THEOREM EveryHandleHasOneOwner == CxxSpec => []HandlesOwnedOnce
<1>1. IInv => HandlesOwnedOnce
  BY DEF IInv, Owns, HandlesOwnedOnce, Initialized, Null
<1>2. CxxSpec => []IInv
  BY InitHandles, NextHandles, PTL DEF CxxSpec
<1> QED BY <1>1, <1>2, PTL

-----------------------------------------------------------------------------
(* Sequences.                                                              *)

(* Where the element at j is after another one was put in at pos.          *)
Shift(j, pos) == IF j < pos THEN j ELSE j + 1

(* t is s with x put in at pos, or s is t without its element at pos.      *)
InsertedAt(s, t, pos, x) ==
  /\ pos \in 1 .. Len(s) + 1 /\ Len(t) = Len(s) + 1 /\ t[pos] = x
  /\ \A j \in 1 .. Len(s) : t[Shift(j, pos)] = s[j]

(* A part of a sequence that lies in it.                                   *)
LEMMA PartOfSeq ==
  ASSUME NEW S, NEW s \in Seq(S), NEW m \in 1 .. Len(s) + 1, NEW n \in 0 .. Len(s)
  PROVE  /\ SubSeq(s, m, n) \in Seq(S)
         /\ Len(SubSeq(s, m, n)) = IF m <= n THEN n - m + 1 ELSE 0
         /\ \A i \in 1 .. n - m + 1 : SubSeq(s, m, n)[i] = s[m + i - 1]
<1>1. \A i \in m .. n : s[i] \in S
  BY ElementOfSeq, LenProperties
<1>2. m \in Int /\ n \in Int
  BY LenProperties
<1> QED BY <1>1, <1>2, SubSeqProperties

(* InsertAt of the community modules.                                      *)
LEMMA InsertAtInserts ==
  ASSUME NEW S, NEW s \in Seq(S), NEW x \in S, NEW pos \in 1 .. Len(s) + 1
  PROVE  InsertAt(s, pos, x) \in Seq(S) /\ InsertedAt(s, InsertAt(s, pos, x), pos, x)
<1> DEFINE a == SubSeq(s, 1, pos - 1)
           b == SubSeq(s, pos, Len(s))
           e == <<x>>
           ax == a \o e
           t == ax \o b
<1>0. Len(s) \in Nat
  BY LenProperties
<1>1. a \in Seq(S) /\ Len(a) = pos - 1 /\ \A i \in 1 .. pos - 1 : a[i] = s[i]
  BY <1>0, PartOfSeq
<1>2. b \in Seq(S) /\ Len(b) = Len(s) - pos + 1
      /\ \A i \in 1 .. Len(s) - pos + 1 : b[i] = s[pos + i - 1]
  BY <1>0, PartOfSeq
<1>3. e \in Seq(S) /\ Len(e) = 1 /\ e[1] = x
  OBVIOUS
<1> HIDE DEF a, b, e
<1>4. /\ ax \in Seq(S) /\ Len(ax) = Len(a) + Len(e)
      /\ \A i \in 1 .. Len(a) + Len(e) :
           ax[i] = IF i <= Len(a) THEN a[i] ELSE e[i - Len(a)]
  BY <1>1, <1>3, ConcatProperties
<1> HIDE DEF ax
<1>. ax \in Seq(S) /\ b \in Seq(S)
  BY <1>2, <1>4
<1>5. /\ t \in Seq(S) /\ Len(t) = Len(ax) + Len(b)
      /\ \A i \in 1 .. Len(ax) + Len(b) :
           t[i] = IF i <= Len(ax) THEN ax[i] ELSE b[i - Len(ax)]
  BY ConcatProperties
<1> HIDE DEF t
<1>6. Len(ax) = pos /\ Len(t) = Len(s) + 1
  BY <1>0, <1>1, <1>2, <1>3, <1>4, <1>5
<1>7. ASSUME NEW j \in 1 .. Len(s) PROVE t[Shift(j, pos)] = s[j]
  <2>1. CASE j < pos
    <3>1. t[j] = ax[j] /\ ax[j] = a[j] /\ a[j] = s[j]
      BY <1>0, <1>1, <1>2, <1>3, <1>4, <1>5, <1>6, <2>1
    <3> QED BY <2>1, <3>1 DEF Shift
  <2>2. CASE ~(j < pos)
    <3>1. t[j + 1] = b[j + 1 - pos] /\ b[j + 1 - pos] = s[j]
      BY <1>0, <1>1, <1>2, <1>3, <1>4, <1>5, <1>6, <2>2
    <3> QED BY <2>2, <3>1 DEF Shift
  <2> QED BY <2>1, <2>2
<1>9. t[pos] = x
  <2>1. t[pos] = ax[pos] /\ ax[pos] = e[pos - Len(a)] /\ pos - Len(a) = 1
    BY <1>0, <1>1, <1>2, <1>3, <1>4, <1>5, <1>6
  <2> QED BY <1>3, <2>1
<1>8. InsertAt(s, pos, x) = t
  BY DEF InsertAt, t, ax, a, b, e
<1> QED BY <1>0, <1>5, <1>6, <1>7, <1>8, <1>9 DEF InsertedAt

(* Append.                                                                 *)
LEMMA AppendInserts ==
  ASSUME NEW S, NEW s \in Seq(S), NEW x \in S
  PROVE  Append(s, x) \in Seq(S) /\ InsertedAt(s, Append(s, x), Len(s) + 1, x)
BY AppendProperties, LenProperties DEF InsertedAt, Shift

(* RemoveAt of the community modules.                                      *)
LEMMA RemoveAtRemoves ==
  ASSUME NEW S, NEW s \in Seq(S), NEW pos \in 1 .. Len(s)
  PROVE  RemoveAt(s, pos) \in Seq(S) /\ InsertedAt(RemoveAt(s, pos), s, pos, s[pos])
<1> DEFINE a == SubSeq(s, 1, pos - 1)
           b == SubSeq(s, pos + 1, Len(s))
           t == a \o b
<1>0. Len(s) \in Nat
  BY LenProperties
<1>1. a \in Seq(S) /\ Len(a) = pos - 1 /\ \A i \in 1 .. pos - 1 : a[i] = s[i]
  BY <1>0, PartOfSeq
<1>2. b \in Seq(S) /\ Len(b) = Len(s) - pos /\ \A i \in 1 .. Len(s) - pos : b[i] = s[pos + i]
  BY <1>0, PartOfSeq
<1> HIDE DEF a, b
<1>3. /\ t \in Seq(S) /\ Len(t) = Len(a) + Len(b)
      /\ \A i \in 1 .. Len(a) + Len(b) : t[i] = IF i <= Len(a) THEN a[i] ELSE b[i - Len(a)]
  BY <1>1, <1>2, ConcatProperties
<1> HIDE DEF t
<1>4. ASSUME NEW j \in 1 .. Len(t) PROVE s[Shift(j, pos)] = t[j]
  <2>1. CASE j < pos
    <3>1. t[j] = a[j] /\ a[j] = s[j]
      BY <1>0, <1>1, <1>2, <1>3, <2>1
    <3> QED BY <2>1, <3>1 DEF Shift
  <2>2. CASE ~(j < pos)
    <3> DEFINE i == j - Len(a)
    <3>1. i \in 1 .. Len(s) - pos /\ pos + i = j + 1 /\ ~(j <= Len(a)) /\ j \in 1 .. Len(a) + Len(b)
      BY <1>0, <1>1, <1>2, <1>3, <2>2
    <3>2. t[j] = b[i]
      BY <1>3, <3>1
    <3> HIDE DEF i
    <3>3. b[i] = s[j + 1]
      BY <1>2, <3>1
    <3> QED BY <2>2, <3>2, <3>3 DEF Shift
  <2> QED BY <2>1, <2>2
<1>5. RemoveAt(s, pos) = t
  BY DEF RemoveAt, t, a, b
<1>6. Len(t) = Len(s) - 1
  BY <1>0, <1>1, <1>2, <1>3
<1>7. pos \in 1 .. Len(t) + 1 /\ Len(s) = Len(t) + 1
  BY <1>0, <1>6
<1> QED BY <1>3, <1>4, <1>5, <1>7 DEF InsertedAt

(* Front and Last of the community modules.                                *)
LEMMA FrontRemoves ==
  ASSUME NEW S, NEW s \in Seq(S), s # <<>>
  PROVE  Front(s) \in Seq(S) /\ InsertedAt(Front(s), s, Len(s), Last(s))
<1> DEFINE n == Len(s) - 1
           t == SubSeq(s, 1, n)
<1>1. Len(s) \in Nat \ {0}
  BY EmptySeq
<1>2. n \in 0 .. Len(s) /\ Len(s) = n + 1 /\ 1 \in 1 .. Len(s) + 1
  BY <1>1
<1> HIDE DEF n
<1>3. /\ t \in Seq(S) /\ Len(t) = IF 1 <= n THEN n - 1 + 1 ELSE 0
      /\ \A i \in 1 .. n - 1 + 1 : t[i] = s[1 + i - 1]
  BY <1>2, PartOfSeq
<1>4. Front(s) = t
  BY DEF Front, n
<1> HIDE DEF t
<1>5. Len(t) = n /\ \A i \in 1 .. n : t[i] = s[i]
  BY <1>2, <1>3
<1> QED BY <1>2, <1>3, <1>4, <1>5 DEF InsertedAt, Shift, Last

(* Which elements the longer sequence has.                                 *)
LEMMA InsertedElements ==
  ASSUME NEW S, NEW s \in Seq(S), NEW t \in Seq(S), NEW pos, NEW x, InsertedAt(s, t, pos, x)
  PROVE  /\ DOMAIN s = 1 .. Len(s) /\ DOMAIN t = 1 .. Len(t) /\ pos \in DOMAIN t
         /\ \A i \in DOMAIN t : i = pos \/ \E j \in DOMAIN s : i = Shift(j, pos)
         /\ \A j \in DOMAIN s : Shift(j, pos) \in DOMAIN t /\ Shift(j, pos) # pos
         /\ Range(t) = Range(s) \cup {x}
<1>1. Len(s) \in Nat /\ DOMAIN s = 1 .. Len(s) /\ DOMAIN t = 1 .. Len(t)
  BY LenProperties
<1>2. pos \in 1 .. Len(s) + 1 /\ Len(t) = Len(s) + 1
  BY DEF InsertedAt
<1>3. ASSUME NEW i \in 1 .. Len(t), i # pos
      PROVE  \E j \in 1 .. Len(s) : i = Shift(j, pos)
  <2>1. CASE i < pos
    BY <1>1, <1>2, <2>1 DEF Shift
  <2>2. CASE i > pos
    <3>1. i - 1 \in 1 .. Len(s) /\ Shift(i - 1, pos) = i
      BY <1>1, <1>2, <2>2 DEF Shift
    <3> QED BY <3>1
  <2> QED BY <1>1, <1>2, <1>3, <2>1, <2>2
<1>4. \A j \in 1 .. Len(s) : Shift(j, pos) \in 1 .. Len(t) /\ Shift(j, pos) # pos
  BY <1>1, <1>2 DEF Shift
<1>5. Range(t) = Range(s) \cup {x}
  <2>1. ASSUME NEW i \in DOMAIN t PROVE t[i] \in Range(s) \cup {x}
    <3>1. CASE i = pos
      BY <3>1 DEF InsertedAt
    <3>2. CASE i # pos
      <4>1. PICK j \in 1 .. Len(s) : i = Shift(j, pos)
        BY <1>1, <1>3, <3>2
      <4>2. t[i] = s[j]
        BY <4>1 DEF InsertedAt
      <4> QED BY <1>1, <4>2 DEF Range
    <3> QED BY <3>1, <3>2
  <2>2. ASSUME NEW j \in DOMAIN s PROVE s[j] \in Range(t)
    <3>1. s[j] = t[Shift(j, pos)] /\ Shift(j, pos) \in DOMAIN t
      BY <1>1, <1>4 DEF InsertedAt
    <3> QED BY <3>1 DEF Range
  <2>3. x \in Range(t)
    BY <1>1, <1>2 DEF InsertedAt, Range
  <2> QED BY <2>1, <2>2, <2>3 DEF Range
<1> QED BY <1>1, <1>2, <1>3, <1>4, <1>5

-----------------------------------------------------------------------------
(* Entries of maps and sets in the order of their keys.                    *)

Ordered(slots) == \A i, j \in DOMAIN slots : i < j => slots[i].key < slots[j].key

(* A set of naturals that is not empty has a least element.                *)
LEMMA LeastElement ==
  ASSUME NEW S \in SUBSET Nat, S # {}
  PROVE  \E m \in S : \A k \in S : m <= k
<1> DEFINE R == {ss \in Nat \X Nat : ss[1] < ss[2]}
<1>1. IsWellFoundedOn(R, Nat)
  BY NatLessThanWellFounded DEF OpToRel
<1> HIDE DEF R
<1>2. PICK m \in S : \A k \in S : <<k, m>> \notin R
  BY <1>1, WFMin
<1>3. ASSUME NEW k \in S PROVE m <= k
  <2>1. <<k, m>> \in Nat \X Nat /\ <<k, m>>[1] = k /\ <<k, m>>[2] = m
    OBVIOUS
  <2>2. ~(k < m)
    BY <2>1, <1>2 DEF R
  <2> QED BY <2>2
<1> QED BY <1>3

(* Position is the place of key among the entries.                         *)
LEMMA PositionFacts ==
  ASSUME NEW s, NEW n \in Nat, DOMAIN s = 1 .. n, Ordered(s),
         \A i \in DOMAIN s : s[i].key \in Int, NEW key \in Int
  PROVE  /\ Position(s, key) \in 1 .. n + 1
         /\ \A i \in DOMAIN s : i < Position(s, key) <=> s[i].key < key
<1> DEFINE Low == {i \in 1 .. n : s[i].key < key}
           LowKeys == {k \in KeysOf(s) : k < key}
           Rest == {i \in 1 .. n + 1 : i \notin Low}
           f == [i \in Low |-> s[i].key]
<1>1. n + 1 \in Rest /\ Rest \in SUBSET Nat
  OBVIOUS
<1>2. PICK m \in Rest : \A k \in Rest : m <= k
  BY <1>1, LeastElement
<1>3. Low = 1 .. m - 1
  <2>1. ASSUME NEW i \in Low PROVE i < m
    <3>1. SUFFICES ASSUME ~(i < m) PROVE FALSE
      OBVIOUS
    <3>2. m \in 1 .. n /\ m # i /\ m < i
      BY <1>2, <3>1
    <3>3. s[m].key < s[i].key
      BY <3>2 DEF Ordered
    <3> QED BY <1>2, <3>2, <3>3
  <2>2. ASSUME NEW i \in 1 .. m - 1 PROVE i \in Low
    BY <1>2
  <2> QED BY <1>2, <2>1, <2>2
<1>4. f \in Bijection(Low, LowKeys)
  <2>1. f \in [Low -> LowKeys]
    BY DEF KeysOf
  <2>2. \A i, j \in Low : f[i] = f[j] => i = j
    <3> SUFFICES ASSUME NEW i \in Low, NEW j \in Low, f[i] = f[j] PROVE i = j
      OBVIOUS
    <3>1. ~(i < j) /\ ~(j < i)
      BY DEF Ordered
    <3> QED BY <3>1
  <2>3. \A k \in LowKeys : \E i \in Low : f[i] = k
    BY DEF KeysOf
  <2> HIDE DEF f, Low, LowKeys
  <2> QED BY <2>1, <2>2, <2>3, Fun_IsBij
<1>5. IsFiniteSet(Low) /\ Cardinality(Low) = m - 1
  <2>1. m \in 1 .. n + 1
    OBVIOUS
  <2> DEFINE b == m - 1
  <2>2. b \in Nat
    BY <2>1
  <2> HIDE DEF b
  <2>3. IsFiniteSet(1 .. b) /\ Cardinality(1 .. b) = IF 1 > b THEN 0 ELSE b - 1 + 1
    <3>1. 1 \in Int /\ b \in Int
      BY <2>2
    <3> QED BY ONLY <3>1, FS_Interval
  <2>4. Cardinality(1 .. b) = b
    BY <2>2, <2>3
  <2> QED BY <1>3, <2>3, <2>4 DEF b
<1>6. Cardinality(LowKeys) = m - 1
  <2> HIDE DEF f, Low, LowKeys
  <2> QED BY <1>4, <1>5, FS_Bijection DEF ExistsBijection
<1>7. Position(s, key) = m
  BY <1>2, <1>6 DEF Position
<1> QED BY <1>2, <1>3, <1>7

(* The entry with the key is at its position.                              *)
LEMMA PositionOfKey ==
  ASSUME NEW s, NEW n \in Nat, DOMAIN s = 1 .. n, Ordered(s),
         \A i \in DOMAIN s : s[i].key \in Int, NEW i \in DOMAIN s
  PROVE  Position(s, s[i].key) = i
<1> DEFINE p == Position(s, s[i].key)
<1>1. p \in 1 .. n + 1 /\ \A j \in DOMAIN s : j < p <=> s[j].key < s[i].key
  BY PositionFacts
<1> HIDE DEF p
<1>2. ~(i < p)
  BY <1>1
<1>3. ~(p < i)
  <2> SUFFICES ASSUME p < i PROVE FALSE
    OBVIOUS
  <2>1. p \in DOMAIN s
    BY <1>1
  <2>2. s[p].key < s[i].key
    BY <2>1 DEF Ordered
  <2> QED BY <1>1, <2>1, <2>2
<1> QED BY <1>1, <1>2, <1>3 DEF p

-----------------------------------------------------------------------------
(* Counting the constructed elements.                                      *)

(* The constructed elements in the containers H.                           *)
IsMade(H, h, i, part) ==
  h \in DOMAIN H /\ i \in DOMAIN H[h].slots /\ part \in ConstructedIn(H[h].slots[i])

Made(H) ==
  UNION {UNION {{<<h, i, part>> : part \in ConstructedIn(H[h].slots[i])} :
                  i \in DOMAIN H[h].slots} : h \in DOMAIN H}

(* Each of them is at one place.                                           *)
LEMMA MadeIs ==
  ASSUME NEW H
  PROVE  /\ \A h, i, part : <<h, i, part>> \in Made(H) <=> IsMade(H, h, i, part)
         /\ \A t \in Made(H) : \E h, i, part : t = <<h, i, part>> /\ IsMade(H, h, i, part)
<1>1. \A t \in Made(H) : \E h, i, part : t = <<h, i, part>> /\ IsMade(H, h, i, part)
  BY DEF Made, IsMade
<1>2. ASSUME NEW h, NEW i, NEW part, IsMade(H, h, i, part) PROVE <<h, i, part>> \in Made(H)
  BY <1>2 DEF Made, IsMade
<1>3. ASSUME NEW h, NEW i, NEW part, <<h, i, part>> \in Made(H) PROVE IsMade(H, h, i, part)
  <2>1. PICK g, j, p : <<h, i, part>> = <<g, j, p>> /\ IsMade(H, g, j, p)
    BY <1>1, <1>3
  <2>2. g = h /\ j = i /\ p = part
    BY <2>1
  <2> QED BY <2>1, <2>2
<1> QED BY <1>1, <1>2, <1>3

(* What is constructed at the same places is the same.                     *)
LEMMA MadeSame ==
  ASSUME NEW G, NEW H, \A h, i, part : IsMade(G, h, i, part) <=> IsMade(H, h, i, part)
  PROVE  Made(G) = Made(H)
<1>1. ASSUME NEW t \in Made(G) PROVE t \in Made(H)
  BY MadeIs
<1>2. ASSUME NEW t \in Made(H) PROVE t \in Made(G)
  BY MadeIs
<1> QED BY <1>1, <1>2

(* The containers G are H with an item put into the slots of h at pos.     *)
ItemAdded(H, G, h, pos, item) ==
  /\ h \in DOMAIN H /\ DOMAIN G = DOMAIN H
  /\ \A g \in DOMAIN H \ {h} : G[g].slots = H[g].slots
  /\ InsertedAt(H[h].slots, G[h].slots, pos, item)

(* An item adds its constructed parts to those of the containers.          *)
LEMMA MadeGrows ==
  ASSUME NEW H, NEW G, NEW h, NEW pos, NEW item, ItemAdded(H, G, h, pos, item),
         NEW S, H[h].slots \in Seq(S), G[h].slots \in Seq(S),
         IsFiniteSet(Made(H)) \/ IsFiniteSet(Made(G)),
         IsFiniteSet(ConstructedIn(item))
  PROVE  /\ IsFiniteSet(Made(G)) /\ IsFiniteSet(Made(H))
         /\ Cardinality(Made(G)) = Cardinality(Made(H)) + Cardinality(ConstructedIn(item))
<1> DEFINE P == ConstructedIn(item)
           Part(p) == <<h, pos, p>>
           N == {Part(p) : p \in P}
           move(t) == IF t[1] = h THEN <<h, Shift(t[2], pos), t[3]>> ELSE t
           A == Made(H)
           B == Made(G) \ N
           f == [t \in A |-> move(t)]
           s == H[h].slots
           u == G[h].slots
<1>1. /\ DOMAIN s = 1 .. Len(s) /\ Len(s) \in Nat /\ pos \in DOMAIN u /\ u[pos] = item
      /\ \A i \in DOMAIN u : i = pos \/ \E j \in DOMAIN s : i = Shift(j, pos)
      /\ \A j \in DOMAIN s : Shift(j, pos) \in DOMAIN u /\ Shift(j, pos) # pos
                             /\ u[Shift(j, pos)] = s[j]
  <2>1. InsertedAt(s, u, pos, item)
    BY DEF ItemAdded
  <2>2. Len(s) \in Nat /\ DOMAIN s = 1 .. Len(s)
    BY LenProperties
  <2>3. s \in Seq(S) /\ u \in Seq(S)
    OBVIOUS
  <2> HIDE DEF s, u
  <2>4. /\ DOMAIN u = 1 .. Len(u) /\ pos \in DOMAIN u
        /\ \A i \in DOMAIN u : i = pos \/ \E j \in DOMAIN s : i = Shift(j, pos)
        /\ \A j \in DOMAIN s : Shift(j, pos) \in DOMAIN u /\ Shift(j, pos) # pos
    BY <2>1, <2>3, InsertedElements
  <2> QED BY <2>1, <2>2, <2>4 DEF InsertedAt
<1>2. \A i, j \in DOMAIN s : Shift(i, pos) = Shift(j, pos) => i = j
  <2>1. pos \in Int
    BY DEF ItemAdded, InsertedAt
  <2> QED BY <1>1, <2>1 DEF Shift
<1>3. /\ h \in DOMAIN H /\ h \in DOMAIN G
      /\ \A g, i, p : g # h => (IsMade(H, g, i, p) <=> IsMade(G, g, i, p))
  BY DEF ItemAdded, IsMade
<1>4. N \subseteq Made(G)
  BY <1>1, <1>3, MadeIs DEF IsMade
<1>5. ASSUME NEW t \in A PROVE move(t) \in B
  <2>1. PICK g, i, p : t = <<g, i, p>> /\ IsMade(H, g, i, p)
    BY MadeIs
  <2>2. CASE g = h
    <3>1. move(t) = <<h, Shift(i, pos), p>>
      BY <2>1, <2>2
    <3>2. IsMade(G, h, Shift(i, pos), p) /\ Shift(i, pos) # pos
      BY <1>1, <1>3, <2>1, <2>2 DEF IsMade
    <3>3. <<h, Shift(i, pos), p>> \notin N
      BY <3>2
    <3> QED BY <3>1, <3>2, <3>3, MadeIs
  <2>3. CASE g # h
    <3>1. move(t) = t
      BY <2>1, <2>3
    <3>2. t \in Made(G)
      BY <1>3, <2>1, <2>3, MadeIs
    <3>3. t \notin N
      BY <2>1, <2>3
    <3> QED BY <3>1, <3>2, <3>3
  <2> QED BY <2>2, <2>3
<1>6. ASSUME NEW t \in A, NEW r \in A, move(t) = move(r) PROVE t = r
  <2>1. PICK g, i, p : t = <<g, i, p>> /\ IsMade(H, g, i, p)
    BY MadeIs
  <2>2. PICK g2, i2, p2 : r = <<g2, i2, p2>> /\ IsMade(H, g2, i2, p2)
    BY MadeIs
  <2>3. move(t) = <<g, IF g = h THEN Shift(i, pos) ELSE i, p>>
    BY <2>1
  <2>4. move(r) = <<g2, IF g2 = h THEN Shift(i2, pos) ELSE i2, p2>>
    BY <2>2
  <2>5. g = g2 /\ p = p2
        /\ (IF g = h THEN Shift(i, pos) ELSE i) = (IF g2 = h THEN Shift(i2, pos) ELSE i2)
    BY <1>6, <2>3, <2>4
  <2>6. g = h => i \in DOMAIN s /\ i2 \in DOMAIN s
    BY <2>1, <2>2, <2>5 DEF IsMade
  <2>7. i = i2
    BY <1>2, <2>5, <2>6
  <2> QED BY <2>1, <2>2, <2>5, <2>7
<1>7. ASSUME NEW r \in B PROVE \E t \in A : move(t) = r
  <2>1. PICK g, i, p : r = <<g, i, p>> /\ IsMade(G, g, i, p)
    BY MadeIs
  <2>2. CASE g = h
    <3>1. i # pos
      BY <1>1, <2>1, <2>2 DEF IsMade
    <3>2. PICK j \in DOMAIN s : i = Shift(j, pos)
      BY <1>1, <2>1, <2>2, <3>1 DEF IsMade
    <3>3. IsMade(H, h, j, p)
      BY <1>1, <1>3, <2>1, <2>2, <3>2 DEF IsMade
    <3>4. <<h, j, p>> \in A
      BY <3>3, MadeIs
    <3>5. move(<<h, j, p>>) = r
      BY <2>1, <2>2, <3>2
    <3> QED BY <3>4, <3>5
  <2>3. CASE g # h
    <3>1. r \in A /\ move(r) = r
      BY <1>3, <2>1, <2>3, MadeIs
    <3> QED BY <3>1
  <2> QED BY <2>2, <2>3
<1>8. f \in Bijection(A, B)
  <2>1. f \in [A -> B]
    BY <1>5
  <2>2. \A t, r \in A : f[t] = f[r] => t = r
    BY <1>6
  <2>3. \A r \in B : \E t \in A : f[t] = r
    BY <1>7
  <2> HIDE DEF A, B, f
  <2> QED BY <2>1, <2>2, <2>3, Fun_IsBij
<1>9. ExistsBijection(A, B) /\ ExistsBijection(B, A)
  <2> HIDE DEF A, B, f
  <2>1. ExistsBijection(A, B)
    BY <1>8 DEF ExistsBijection
  <2> QED BY <2>1, Fun_ExistsBijSymmetric
<1>10. IsFiniteSet(N) /\ Cardinality(N) = Cardinality(P)
  <2> DEFINE k == [p \in P |-> Part(p)]
  <2>1. k \in [P -> N] /\ (\A p, q \in P : k[p] = k[q] => p = q) /\ (\A r \in N : \E p \in P : k[p] = r)
    OBVIOUS
  <2>2. IsFiniteSet(P)
    OBVIOUS
  <2> HIDE DEF k, P, N
  <2>3. k \in Bijection(P, N)
    BY <2>1, Fun_IsBij
  <2> QED BY <2>2, <2>3, FS_Bijection DEF ExistsBijection
<1>11. IsFiniteSet(A) <=> IsFiniteSet(Made(G))
  <2> HIDE DEF A, N
  <2>1. Made(G) = B \cup N
    BY <1>4
  <2> HIDE DEF B
  <2>2. IsFiniteSet(A) => IsFiniteSet(B)
    BY <1>9, FS_Bijection
  <2>3. IsFiniteSet(B) => IsFiniteSet(A)
    BY <1>9, FS_Bijection
  <2>4. IsFiniteSet(B) => IsFiniteSet(Made(G))
    BY <1>10, <2>1, FS_Union
  <2>5. IsFiniteSet(Made(G)) => IsFiniteSet(B)
    BY FS_Difference DEF B
  <2> QED BY <2>2, <2>3, <2>4, <2>5
<1>12. IsFiniteSet(A) /\ IsFiniteSet(Made(G))
  BY <1>11
<1>13. Cardinality(B) = Cardinality(A)
  <2> HIDE DEF A, B
  <2> QED BY <1>9, <1>12, FS_Bijection
<1>14. Cardinality(B) = Cardinality(Made(G)) - Cardinality(N)
  <2> HIDE DEF A, N
  <2>1. Made(G) \cap N = N
    BY <1>4
  <2> QED BY <1>12, <2>1, FS_Difference
<1> HIDE DEF A, B, N, P
<1>15. Cardinality(Made(G)) \in Nat /\ Cardinality(A) \in Nat /\ Cardinality(P) \in Nat
  BY <1>12, FS_CardinalityType DEF P
<1>16. Cardinality(Made(G)) = Cardinality(A) + Cardinality(P)
  BY <1>10, <1>13, <1>14, <1>15
<1> QED BY <1>12, <1>16 DEF A, P

(* Destroying the item at i removes its parts.                             *)
LEMMA MadeDestroyed ==
  ASSUME NEW H, NEW G, NEW h \in DOMAIN H, NEW i \in DOMAIN H[h].slots, DOMAIN G = DOMAIN H,
         \A g \in DOMAIN H \ {h} : G[g].slots = H[g].slots,
         G[h].slots = [H[h].slots EXCEPT ![i] = Destroyed(@)],
         IsFiniteSet(Made(H))
  PROVE  /\ IsFiniteSet(Made(G)) /\ IsFiniteSet(ConstructedIn(H[h].slots[i]))
         /\ Cardinality(Made(G)) = Cardinality(Made(H)) - Cardinality(ConstructedIn(H[h].slots[i]))
<1> DEFINE P == ConstructedIn(H[h].slots[i])
           Part(p) == <<h, i, p>>
           N == {Part(p) : p \in P}
           k == [p \in P |-> Part(p)]
<1>1. ConstructedIn(Destroyed(H[h].slots[i])) = {}
  BY DEF ConstructedIn, Destroyed
<1>2. \A g, j, p : IsMade(G, g, j, p) <=> IsMade(H, g, j, p) /\ <<g, j, p>> # Part(p)
  <2>1. DOMAIN G[h].slots = DOMAIN H[h].slots
        /\ G[h].slots[i] = Destroyed(H[h].slots[i])
        /\ \A j \in DOMAIN H[h].slots \ {i} : G[h].slots[j] = H[h].slots[j]
    OBVIOUS
  <2>2. \A g, j, p : <<g, j, p>> # Part(p) <=> g # h \/ j # i
    OBVIOUS
  <2> HIDE DEF Part
  <2> QED BY <1>1, <2>1, <2>2 DEF IsMade
<1>3. N \subseteq Made(H)
  BY MadeIs DEF IsMade
<1>4. Made(G) = Made(H) \ N
  <2>1. ASSUME NEW t \in Made(G) PROVE t \in Made(H) /\ t \notin N
    <3>1. PICK g, j, p : t = <<g, j, p>> /\ IsMade(G, g, j, p)
      BY <2>1, MadeIs
    <3>2. IsMade(H, g, j, p) /\ t # Part(p)
      BY <1>2, <3>1
    <3>3. t \notin N
      BY <3>1, <3>2
    <3> QED BY <3>1, <3>2, <3>3, MadeIs
  <2>2. ASSUME NEW t \in Made(H), t \notin N PROVE t \in Made(G)
    <3>1. PICK g, j, p : t = <<g, j, p>> /\ IsMade(H, g, j, p)
      BY <2>2, MadeIs
    <3>2. t # Part(p)
      <4> SUFFICES ASSUME t = Part(p) PROVE FALSE
        OBVIOUS
      <4>1. g = h /\ j = i
        BY <3>1
      <4>2. p \in P
        BY <3>1, <4>1 DEF IsMade
      <4> QED BY <2>2, <4>2
    <3> QED BY <1>2, <3>1, <3>2, MadeIs
  <2> QED BY <2>1, <2>2
<1>5. IsFiniteSet(N)
  BY <1>3, FS_Subset
<1>6. IsFiniteSet(P) /\ Cardinality(P) = Cardinality(N)
  <2>1. k \in [P -> N] /\ (\A p, q \in P : k[p] = k[q] => p = q) /\ (\A r \in N : \E p \in P : k[p] = r)
    OBVIOUS
  <2> HIDE DEF k, P, N
  <2>2. k \in Bijection(P, N)
    BY <2>1, Fun_IsBij
  <2>3. ExistsBijection(N, P)
    BY <2>2, Fun_ExistsBijSymmetric DEF ExistsBijection
  <2> QED BY <1>5, <2>3, FS_Bijection
<1> HIDE DEF N, P
<1>7. Made(H) \cap N = N
  BY <1>3
<1>8. IsFiniteSet(Made(G)) /\ Cardinality(Made(G)) = Cardinality(Made(H)) - Cardinality(N)
  <2>1. /\ IsFiniteSet(Made(H) \ N)
        /\ Cardinality(Made(H) \ N) = Cardinality(Made(H)) - Cardinality(Made(H) \cap N)
    BY FS_Difference
  <2> QED BY <1>4, <1>7, <2>1
<1> QED BY <1>6, <1>8 DEF P

-----------------------------------------------------------------------------
(* Items and containers.                                                   *)

(* Items, some parts of which may be raw, in containers of the kind k.     *)
Items(k) ==
  IF k = "vector" THEN [value : Values \cup {RAW}]
  ELSE IF k = "map" THEN [key : Keys \cup {RAW}, value : Values \cup {RAW}]
  ELSE [key : Keys \cup {RAW}]

PartsOf(k) ==
  IF k = "vector" THEN {"value"} ELSE IF k = "map" THEN {"key", "value"} ELSE {"key"}

(* The parts are those of the kind.                                        *)
LEMMA PartsFacts ==
  ASSUME kind \in Kinds
  PROVE  Parts = PartsOf(kind) /\ kind \in {"vector", "map", "set"} /\ (IsTree <=> kind # "vector")
<1>1. kind \in {"vector", "map", "set"}
  BY CxxAssumption
<1>2. CASE kind = "vector"
  BY <1>2 DEF Parts, PartsOf, IsTree
<1>3. CASE kind = "map"
  BY <1>3 DEF Parts, PartsOf, IsTree
<1>4. CASE kind = "set"
  BY <1>4 DEF Parts, PartsOf, IsTree
<1> QED BY <1>1, <1>2, <1>3, <1>4

(* An item is raw when not all of its parts are constructed.               *)
LEMMA RawFacts ==
  ASSUME NEW x
  PROVE  /\ IsRaw(x) <=> ConstructedIn(x) # DOMAIN x
         /\ DOMAIN Destroyed(x) = DOMAIN x /\ ConstructedIn(Destroyed(x)) = {}
BY DEF IsRaw, ConstructedIn, Destroyed

(* The items of a kind have its parts.                                     *)
LEMMA ItemsFacts ==
  ASSUME NEW k, NEW x \in Items(k)
  PROVE  /\ DOMAIN x = PartsOf(k) /\ x \in Slot /\ IsFiniteSet(PartsOf(k))
         /\ k # "vector" /\ ~IsRaw(x) => x.key \in Keys /\ x.key \in Int
         /\ Destroyed(x) \in Items(k)
<1>0. \A f : IsFiniteSet({f})
  BY FS_Singleton
<1>1. CASE k = "vector"
  <2>1. x \in [value : Values \cup {RAW}] /\ DOMAIN x = {"value"}
    BY <1>1 DEF Items
  <2>2. Destroyed(x) \in [value : Values \cup {RAW}]
    BY <2>1 DEF Destroyed
  <2> QED BY <1>0, <1>1, <2>1, <2>2 DEF Items, Slot, PartsOf
<1>2. CASE k = "map"
  <2>1. x \in [key : Keys \cup {RAW}, value : Values \cup {RAW}] /\ DOMAIN x = {"key", "value"}
    BY <1>2 DEF Items
  <2>2. IsFiniteSet({"key", "value"})
    <3>1. {"key", "value"} = {"key"} \cup {"value"}
      OBVIOUS
    <3> QED BY <1>0, <3>1, FS_AddElement
  <2>3. Destroyed(x) \in [key : Keys \cup {RAW}, value : Values \cup {RAW}]
    BY <2>1 DEF Destroyed
  <2>4. ~IsRaw(x) => x.key \in Keys /\ x.key \in Int
    BY <2>1, CxxAssumption DEF IsRaw
  <2> QED BY <1>2, <2>1, <2>2, <2>3, <2>4 DEF Items, Slot, PartsOf
<1>3. CASE k # "vector" /\ k # "map"
  <2>1. x \in [key : Keys \cup {RAW}] /\ DOMAIN x = {"key"}
    BY <1>3 DEF Items
  <2>2. Destroyed(x) \in [key : Keys \cup {RAW}]
    BY <2>1 DEF Destroyed
  <2>3. ~IsRaw(x) => x.key \in Keys /\ x.key \in Int
    BY <2>1, CxxAssumption DEF IsRaw
  <2> QED BY <1>0, <1>3, <2>1, <2>2, <2>3 DEF Items, Slot, PartsOf
<1> QED BY <1>1, <1>2, <1>3

(* What a program stores is such an item, and not raw.                     *)
LEMMA ArgumentFacts ==
  ASSUME kind \in Kinds, NEW item \in AllItems, IsItem(item)
  PROVE  item \in Items(kind) /\ ~IsRaw(item)
<1>1. DOMAIN item = PartsOf(kind) /\ kind \in {"vector", "map", "set"}
  BY PartsFacts DEF IsItem
<1>2. "key" # "value"
  OBVIOUS
<1>3. CASE item \in [value : Values]
  <2>1. DOMAIN item = {"value"} /\ item \in [value : Values \cup {RAW}] /\ ~IsRaw(item)
    BY <1>3, CxxAssumption DEF IsRaw
  <2>2. kind = "vector"
    BY <1>1, <1>2, <2>1 DEF PartsOf
  <2> QED BY <2>1, <2>2 DEF Items
<1>4. CASE item \in [key : Keys, value : Values]
  <2>1. /\ DOMAIN item = {"key", "value"} /\ ~IsRaw(item)
        /\ item \in [key : Keys \cup {RAW}, value : Values \cup {RAW}]
    BY <1>4, CxxAssumption DEF IsRaw
  <2>2. kind = "map"
    BY <1>1, <1>2, <2>1 DEF PartsOf
  <2> QED BY <2>1, <2>2 DEF Items
<1>5. CASE item \in [key : Keys]
  <2>1. DOMAIN item = {"key"} /\ item \in [key : Keys \cup {RAW}] /\ ~IsRaw(item)
    BY <1>5, CxxAssumption DEF IsRaw
  <2>2. kind = "set"
    BY <1>1, <1>2, <2>1 DEF PartsOf
  <2> QED BY <2>1, <2>2 DEF Items
<1> QED BY <1>3, <1>4, <1>5 DEF AllItems

-----------------------------------------------------------------------------
(* The inductive invariant of the elements.                                *)

(* A container of the kind k, some elements of which may be destroyed.     *)
ContainerOK(k, c) ==
  /\ {"packet", "slots"} \subseteq DOMAIN c
  /\ c.packet \in {STD, CUSTOM_CMAGIC} /\ c.slots \in Seq(Items(k))
  /\ k = "vector" => /\ {"capacity", "address", "homes"} \subseteq DOMAIN c
                     /\ c.capacity \in Nat \ {0} /\ Len(c.slots) <= c.capacity

(* A container that is not being cleared.                                  *)
Whole(k, slots) ==
  /\ \A i \in DOMAIN slots : ~IsRaw(slots[i])
  /\ k # "vector" => Ordered(slots)

Clearing == call.stage = "clear"

HeapOK ==
  \A h \in DOMAIN heap :
    /\ ContainerOK(kind, heap[h])
    /\ Whole(kind, heap[h].slots) \/ (Clearing /\ h = Mine)

CountOK == IsFiniteSet(Made(heap)) /\ living = Cardinality(Made(heap))

(* What clear() has done before its iteration at.                          *)
PartlyCleared(slots, at) ==
  \A i \in DOMAIN slots : IF i < at THEN ConstructedIn(slots[i]) = {} ELSE ~IsRaw(slots[i])

(* What the copy loop has done before its iteration at.                    *)
PartlyCopied(source, slots, at) ==
  /\ at \in 1 .. Len(source) + 1 /\ Len(slots) = at - 1
  /\ \A i \in 1 .. at - 1 : slots[i] = source[i]

(* The other object of a copy or a move.                                   *)
OtherOK ==
  call.op \in {"copy", "move"} =>
    /\ call.other \in Objects /\ handle[call.other] \notin Null
    /\ call.other = call.self => call.op = "move" /\ SelfMove

CallOK ==
  /\ call.stage \in {"idle", "clear", "cleared", "copy"}
  /\ call.stage = "idle" => call = Idle
  /\ call.stage # "idle" => call.op \in {"copy", "failed_copy", "move", "clear", "destroy"} /\ OtherOK
  /\ Clearing => /\ call.at \in Nat \ {0} /\ (kind = "vector" => call.at = 1)
                 /\ PartlyCleared(heap[Mine].slots, call.at)
  /\ call.stage = "cleared" => heap[Mine].slots = <<>>
  /\ call.stage = "copy" =>
       call.op = "copy" /\ PartlyCopied(Slots(call.other), heap[Mine].slots, call.at)

(* The iterator's entry exists, and an iterator of a map shows it.         *)
Shows(x) == x.key = iterator.key /\ (kind = "map" => x = iterator.adapter)

IteratorOK ==
  iterator # NULL =>
    /\ kind # "vector"
    /\ iterator.key # NULL =>
         /\ iterator.key \in Keys /\ iterator.container \in DOMAIN heap
         /\ \E x \in Range(heap[iterator.container].slots) : Shows(x)

StatusOK == status = "ok" \/ (status = "undefined" /\ (SelfMove \/ OwnPushWhenFull))

ElementsOK == kind \in Kinds /\ HeapOK /\ CountOK /\ CallOK /\ IteratorOK /\ StatusOK

CxxInv == IInv /\ ElementsOK

-----------------------------------------------------------------------------
(* What a step does to one container.                                      *)

Touches(h) ==
  /\ h \in DOMAIN heap /\ DOMAIN heap' = DOMAIN heap
  /\ \A g \in DOMAIN heap \ {h} : heap'[g] = heap[g]

(* Constructing an item counts its parts.                                  *)
LEMMA AddingCounts ==
  ASSUME CountOK, NEW h, Touches(h), NEW pos, NEW k, NEW item \in Items(k), ~IsRaw(item),
         heap[h].slots \in Seq(Items(k)), heap'[h].slots \in Seq(Items(k)),
         InsertedAt(heap[h].slots, heap'[h].slots, pos, item), construct(item)
  PROVE  CountOK' /\ status' = status
<1>1. IsFiniteSet(ConstructedIn(item)) /\ ConstructedIn(item) = DOMAIN item
  BY ItemsFacts, RawFacts
<1>2. ItemAdded(heap, heap', h, pos, item)
  BY DEF ItemAdded, Touches
<1>3. IsFiniteSet(Made(heap')) /\ Cardinality(Made(heap')) = Cardinality(Made(heap)) + Cardinality(DOMAIN item)
  BY <1>1, <1>2, MadeGrows DEF CountOK
<1>4. living' = living + Cardinality(DOMAIN item) /\ status' = status
  BY DEF construct
<1> QED BY <1>3, <1>4 DEF CountOK

(* Destroying an item that is removed counts its parts.                    *)
LEMMA RemovingCounts ==
  ASSUME CountOK, NEW h, Touches(h), NEW pos, NEW k, NEW item \in Items(k), ~IsRaw(item),
         heap[h].slots \in Seq(Items(k)), heap'[h].slots \in Seq(Items(k)),
         InsertedAt(heap'[h].slots, heap[h].slots, pos, item), destruct(item)
  PROVE  CountOK' /\ status' = status
<1>1. IsFiniteSet(ConstructedIn(item)) /\ ConstructedIn(item) = DOMAIN item
  BY ItemsFacts, RawFacts
<1>2. ItemAdded(heap', heap, h, pos, item)
  BY DEF ItemAdded, Touches
<1>3. /\ IsFiniteSet(Made(heap')) /\ IsFiniteSet(Made(heap))
      /\ Cardinality(Made(heap)) = Cardinality(Made(heap')) + Cardinality(DOMAIN item)
  BY <1>1, <1>2, MadeGrows DEF CountOK
<1>4. living' = living - Cardinality(DOMAIN item) /\ status' = status
  BY DEF destruct
<1>5. Cardinality(Made(heap')) \in Nat /\ Cardinality(DOMAIN item) \in Nat
  BY <1>1, <1>3, FS_CardinalityType
<1> QED BY <1>3, <1>4, <1>5 DEF CountOK

(* Nothing is counted when the same elements are constructed.              *)
LEMMA SameCounts ==
  ASSUME CountOK, living' = living,
         \A h, i, part : IsMade(heap', h, i, part) <=> IsMade(heap, h, i, part)
  PROVE  CountOK'
BY MadeSame DEF CountOK

(* allocate_back makes room for one element.                               *)
LEMMA AllocateBack ==
  ASSUME NEW c, ContainerOK("vector", c), NEW v \in allocate_back(c)
  PROVE  /\ DOMAIN v = DOMAIN c /\ v.slots = c.slots /\ v.packet = c.packet
         /\ v.capacity \in Nat \ {0} /\ Len(c.slots) + 1 <= v.capacity
<1>1. /\ {"packet", "slots", "capacity", "address", "homes"} \subseteq DOMAIN c
      /\ c.capacity \in Nat \ {0} /\ Len(c.slots) \in Nat /\ Len(c.slots) <= c.capacity
  BY LenProperties DEF ContainerOK
<1>2. CASE Len(c.slots) = c.capacity
  <2>1. PICK a \in Addresses : v = [c EXCEPT !.capacity = 2 * c.capacity, !.address = a]
    BY <1>2 DEF allocate_back, reallocated, C!is_full, C!grown
  <2>2. DOMAIN v = DOMAIN c /\ v.slots = c.slots /\ v.packet = c.packet /\ v.capacity = 2 * c.capacity
    BY <1>1, <2>1
  <2> QED BY <1>1, <1>2, <2>2
<1>3. CASE Len(c.slots) # c.capacity
  <2>1. v = c
    BY <1>3 DEF allocate_back, C!is_full
  <2> QED BY <1>1, <1>3, <2>1
<1> QED BY <1>2, <1>3

(* pop_back may make the array smaller, but not too small.                 *)
LEMMA PoppedIsOK ==
  ASSUME NEW c, ContainerOK("vector", c), c.slots # <<>>, NEW v \in popped(c)
  PROVE  ContainerOK("vector", v) /\ v.slots = Front(c.slots) /\ v.packet = c.packet
<1> DEFINE w == [c EXCEPT !.slots = Front(@), !.homes = Front(@)]
<1>1. /\ {"packet", "slots", "capacity", "address", "homes"} \subseteq DOMAIN c
      /\ c.capacity \in Nat \ {0} /\ Len(c.slots) \in Nat \ {0} /\ Len(c.slots) <= c.capacity
      /\ c.packet \in {STD, CUSTOM_CMAGIC} /\ c.slots \in Seq(Items("vector"))
  BY LenProperties, EmptySeq DEF ContainerOK
<1>2. /\ DOMAIN w = DOMAIN c /\ w.slots = Front(c.slots) /\ w.packet = c.packet
      /\ w.capacity = c.capacity
  BY <1>1
<1>3. Front(c.slots) \in Seq(Items("vector")) /\ Len(Front(c.slots)) = Len(c.slots) - 1
  BY <1>1, FrontRemoves DEF InsertedAt
<1> HIDE DEF w
<1>4. ContainerOK("vector", w)
  BY <1>1, <1>2, <1>3 DEF ContainerOK
<1>5. v = w \/ (C(c)!is_sparse(Len(w.slots)) /\ v \in reallocated(w, c.capacity \div 2))
  BY DEF popped, w
<1>6. CASE C(c)!is_sparse(Len(w.slots)) /\ v \in reallocated(w, c.capacity \div 2)
  <2> DEFINE half == c.capacity \div 2
  <2>1. PICK a \in Addresses : v = [w EXCEPT !.capacity = half, !.address = a]
    BY <1>6 DEF reallocated
  <2>2. c.capacity > VECTOR_MIN_CAPACITY /\ Len(w.slots) <= c.capacity \div 4
    BY <1>6 DEF C!is_sparse
  <2>3. half \in Nat \ {0} /\ Len(w.slots) <= half
    BY <1>1, <1>2, <1>3, <2>2, CxxVectorAssumption
  <2> HIDE DEF half
  <2>4. DOMAIN v = DOMAIN w /\ v.slots = w.slots /\ v.packet = w.packet /\ v.capacity = half
    BY <1>1, <1>2, <2>1
  <2>5. ContainerOK("vector", v)
    BY <1>4, <2>3, <2>4 DEF ContainerOK
  <2> QED BY <1>2, <2>4, <2>5
<1> QED BY <1>2, <1>4, <1>5, <1>6

(* push_back of an element that is constructed.                            *)
LEMMA PushBackStep ==
  ASSUME kind = "vector", CountOK, NEW h \in DOMAIN heap,
         ContainerOK(kind, heap[h]), Whole(kind, heap[h].slots),
         NEW item \in Items(kind), ~IsRaw(item), push_back_template(h, item)
  PROVE  /\ Touches(h) /\ ContainerOK(kind, heap'[h]) /\ Whole(kind, heap'[h].slots)
         /\ heap'[h].slots = Append(heap[h].slots, item) /\ heap'[h].packet = heap[h].packet
         /\ CountOK' /\ status' = status
<1> DEFINE s == heap[h].slots
           x == Append(s, item)
<1>1. PICK v \in allocate_back(heap[h]) :
        heap' = [heap EXCEPT ![h] = [v EXCEPT !.slots = Append(@, item), !.homes = Append(@, v.address)]]
  BY DEF push_back_template
<1>2. /\ {"packet", "slots", "capacity", "address", "homes"} \subseteq DOMAIN v
      /\ v.slots = s /\ v.packet = heap[h].packet /\ v.packet \in {STD, CUSTOM_CMAGIC}
      /\ v.capacity \in Nat \ {0} /\ Len(s) + 1 <= v.capacity
  BY AllocateBack DEF ContainerOK
<1>3. s \in Seq(Items(kind))
  BY DEF ContainerOK
<1>4. /\ heap'[h].slots = Append(v.slots, item) /\ heap'[h].packet = v.packet
      /\ heap'[h].capacity = v.capacity /\ DOMAIN heap'[h] = DOMAIN v
  BY <1>1, <1>2
<1>5. Touches(h)
  BY <1>1 DEF Touches
<1>6. /\ x \in Seq(Items(kind)) /\ InsertedAt(s, x, Len(s) + 1, item) /\ Len(x) = Len(s) + 1
      /\ heap'[h].slots = x
  <2>1. heap'[h].slots = x
    BY <1>2, <1>4
  <2> HIDE DEF s, x
  <2>2. x \in Seq(Items(kind)) /\ InsertedAt(s, x, Len(s) + 1, item)
    BY <1>3, AppendInserts DEF x
  <2> QED BY <2>1, <2>2 DEF InsertedAt
<1>7. ContainerOK(kind, heap'[h])
  BY <1>2, <1>4, <1>6 DEF ContainerOK
<1>8. Whole(kind, x)
  <2> HIDE DEF x, s
  <2>1. ASSUME NEW i \in DOMAIN x PROVE ~IsRaw(x[i])
    <3> DEFINE pos == Len(s) + 1
    <3>4. InsertedAt(s, x, pos, item)
      BY <1>6
    <3> HIDE DEF pos
    <3>1. i = pos \/ \E j \in DOMAIN s : i = Shift(j, pos)
      BY <1>3, <1>6, <3>4, InsertedElements
    <3>2. \A j \in DOMAIN s : x[Shift(j, pos)] = s[j] /\ ~IsRaw(s[j])
      <4>1. DOMAIN s = 1 .. Len(s)
        BY <1>3, LenProperties
      <4>2. \A j \in DOMAIN s : ~IsRaw(s[j])
        BY DEF Whole, s
      <4> QED BY <3>4, <4>1, <4>2 DEF InsertedAt
    <3>3. x[pos] = item
      BY <3>4 DEF InsertedAt
    <3> QED BY <3>1, <3>2, <3>3
  <2> QED BY <2>1 DEF Whole
<1>9. construct(item)
  BY DEF push_back_template
<1>10. CountOK' /\ status' = status
  BY <1>3, <1>5, <1>6, <1>9, AddingCounts
<1> QED BY <1>2, <1>4, <1>5, <1>6, <1>7, <1>8, <1>10

(* The last element is destroyed and removed.                              *)
LEMMA PopLastStep ==
  ASSUME kind = "vector", CountOK, NEW h \in DOMAIN heap,
         ContainerOK(kind, heap[h]), heap[h].slots # <<>>, ~IsRaw(Last(heap[h].slots)),
         pop_last(h)
  PROVE  /\ Touches(h) /\ ContainerOK(kind, heap'[h])
         /\ heap'[h].slots = Front(heap[h].slots) /\ heap'[h].packet = heap[h].packet
         /\ \A i \in DOMAIN heap'[h].slots : i \in DOMAIN heap[h].slots
                                              /\ heap'[h].slots[i] = heap[h].slots[i]
         /\ CountOK' /\ status' = status
<1> DEFINE s == heap[h].slots
           x == Front(s)
<1>1. PICK v \in popped(heap[h]) : heap' = [heap EXCEPT ![h] = v]
  BY DEF pop_last
<1>2. heap'[h] = v /\ Touches(h)
  BY <1>1 DEF Touches
<1>3. ContainerOK(kind, heap'[h]) /\ heap'[h].slots = x /\ heap'[h].packet = heap[h].packet
  BY <1>2, PoppedIsOK
<1>4. s \in Seq(Items(kind)) /\ x \in Seq(Items(kind)) /\ InsertedAt(x, s, Len(s), Last(s))
      /\ DOMAIN s = 1 .. Len(s) /\ DOMAIN x = 1 .. Len(x) /\ Len(s) \in Nat /\ Len(x) \in Nat
  BY FrontRemoves, LenProperties DEF ContainerOK
<1> HIDE DEF s, x
<1>5. \A i \in DOMAIN x : i \in DOMAIN s /\ x[i] = s[i]
  <2>1. Len(s) = Len(x) + 1 /\ \A i \in 1 .. Len(x) : s[Shift(i, Len(s))] = x[i]
    BY <1>4 DEF InsertedAt
  <2> QED BY <1>4, <2>1 DEF Shift
<1>6. Last(s) \in Items(kind)
  <2>1. Len(s) \in 1 .. Len(s)
    BY <1>4 DEF InsertedAt
  <2> QED BY <1>4, <2>1, ElementOfSeq DEF Last
<1>7. CountOK' /\ status' = status
  <2>1. destruct(Last(s)) /\ ~IsRaw(Last(s))
    BY DEF pop_last, s
  <2>2. heap'[h].slots = x /\ heap[h].slots = s
    BY <1>3 DEF s
  <2> QED BY <1>2, <1>4, <1>6, <2>1, <2>2, RemovingCounts
<1> QED BY <1>2, <1>3, <1>5, <1>7 DEF s, x

(* Inserting at its position keeps entries in the order of keys.           *)
LEMMA InsertingOrders ==
  ASSUME NEW S, NEW s \in Seq(S), NEW t \in Seq(S), NEW item, NEW pos, InsertedAt(s, t, pos, item),
         \A i \in DOMAIN s : s[i].key \in Int, item.key \in Int
  PROVE  /\ Ordered(t) => Ordered(s)
         /\ pos = Position(s, item.key) /\ item.key \notin KeysOf(s) /\ Ordered(s) => Ordered(t)
<1>1. /\ DOMAIN s = 1 .. Len(s) /\ DOMAIN t = 1 .. Len(t) /\ Len(s) \in Nat /\ pos \in Nat
      /\ \A i \in DOMAIN t : i = pos \/ \E j \in DOMAIN s : i = Shift(j, pos)
      /\ \A j \in DOMAIN s : Shift(j, pos) \in DOMAIN t /\ t[Shift(j, pos)] = s[j]
  <2>1. /\ DOMAIN s = 1 .. Len(s) /\ DOMAIN t = 1 .. Len(t)
        /\ \A i \in DOMAIN t : i = pos \/ \E j \in DOMAIN s : i = Shift(j, pos)
        /\ \A j \in DOMAIN s : Shift(j, pos) \in DOMAIN t
    BY InsertedElements
  <2>2. Len(s) \in Nat
    BY LenProperties
  <2> QED BY <2>1, <2>2 DEF InsertedAt
<1>2. t[pos] = item
  BY DEF InsertedAt
<1>3. \A i, j \in DOMAIN s : i < j <=> Shift(i, pos) < Shift(j, pos)
  BY <1>1 DEF Shift
<1>4. ASSUME Ordered(t) PROVE Ordered(s)
  <2>1. ASSUME NEW i \in DOMAIN s, NEW j \in DOMAIN s, i < j PROVE s[i].key < s[j].key
    BY <1>1, <1>3, <1>4, <2>1 DEF Ordered
  <2> QED BY <2>1 DEF Ordered
<1>5. ASSUME pos = Position(s, item.key), item.key \notin KeysOf(s), Ordered(s) PROVE Ordered(t)
  <2>1. \A i \in DOMAIN s : i < pos <=> s[i].key < item.key
    BY <1>1, <1>5, PositionFacts
  <2>2. \A i \in DOMAIN s : s[i].key # item.key
    BY <1>5 DEF KeysOf
  <2>3. \A i \in DOMAIN s : IF i < pos THEN s[i].key < item.key ELSE item.key < s[i].key
    BY <2>1, <2>2
  <2>4. \A i \in DOMAIN s : Shift(i, pos) < pos <=> i < pos
    BY <1>1 DEF Shift
  <2>5. ASSUME NEW i \in DOMAIN t, NEW j \in DOMAIN t, i < j PROVE t[i].key < t[j].key
    <3>1. CASE i = pos
      <4>1. PICK n \in DOMAIN s : j = Shift(n, pos)
        BY <1>1, <2>5, <3>1
      <4> QED BY <1>1, <1>2, <2>3, <2>4, <2>5, <3>1, <4>1
    <3>2. CASE j = pos
      <4>1. PICK n \in DOMAIN s : i = Shift(n, pos)
        BY <1>1, <2>5, <3>2
      <4> QED BY <1>1, <1>2, <2>3, <2>4, <2>5, <3>2, <4>1
    <3>3. CASE i # pos /\ j # pos
      <4>1. PICK n \in DOMAIN s : i = Shift(n, pos)
        BY <1>1, <3>3
      <4>2. PICK m \in DOMAIN s : j = Shift(m, pos)
        BY <1>1, <3>3
      <4>3. s[n].key < s[m].key
        BY <1>3, <1>5, <2>5, <4>1, <4>2 DEF Ordered
      <4> QED BY <1>1, <4>1, <4>2, <4>3
    <3> QED BY <3>1, <3>2, <3>3
  <2> QED BY <2>5 DEF Ordered
<1> QED BY <1>4, <1>5

-----------------------------------------------------------------------------
(* What steps leave as it was.                                             *)

(* The containers of objects are whole but for the one being cleared.      *)
LEMMA ContainersOfObjects ==
  ASSUME CxxInv, NEW o \in Objects, handle[o] \notin Null
  PROVE  /\ handle[o] \in DOMAIN heap /\ ContainerOK(kind, heap[handle[o]])
         /\ ~Clearing \/ o # call.self => Whole(kind, heap[handle[o]].slots)
<1>1. handle[o] \in DOMAIN heap
  BY DEF CxxInv, IInv, Owns
<1>2. Clearing /\ o # call.self => handle[o] # Mine
  <2> SUFFICES ASSUME Clearing, o # call.self, handle[o] = handle[call.self] PROVE FALSE
    BY DEF Mine
  <2>1. call.self \in Objects
    BY DEF CxxInv, IInv, CallSound, Clearing
  <2> QED BY <2>1 DEF CxxInv, IInv, Owns
<1> QED BY <1>1, <1>2 DEF CxxInv, ElementsOK, HeapOK

(* A step on one container, when no other one is being cleared.            *)
LEMMA HeapTouched ==
  ASSUME HeapOK, kind' = kind, NEW h, Touches(h), ~Clearing \/ h = Mine,
         ContainerOK(kind, heap'[h]), Whole(kind, heap'[h].slots) \/ (Clearing' /\ h = Mine')
  PROVE  HeapOK'
<1>1. ASSUME NEW g \in DOMAIN heap'
      PROVE  /\ ContainerOK(kind', heap'[g])
             /\ Whole(kind', heap'[g].slots) \/ (Clearing' /\ g = Mine')
  <2>1. CASE g = h
    BY <2>1
  <2>2. CASE g # h
    BY <2>2 DEF Touches, HeapOK
  <2> QED BY <2>1, <2>2
<1> QED BY <1>1 DEF HeapOK

(* Nothing is required of calls when there is none.                        *)
LEMMA NoCall ==
  ASSUME call' = Idle
  PROVE  CallOK' /\ ~Clearing'
BY DEF Idle, CallOK, Clearing

(* The iterator is as good as before when its entry is.                    *)
LEMMA IteratorKept ==
  ASSUME IteratorOK, kind' = kind, iterator' \in {iterator, NULL},
         iterator' = iterator /\ iterator # NULL /\ iterator.key # NULL =>
           /\ iterator.container \in DOMAIN heap'
           /\ \A x \in Range(heap[iterator.container].slots) :
                x.key = iterator.key => x \in Range(heap'[iterator.container].slots)
  PROVE  IteratorOK'
<1>1. CASE iterator' = NULL
  BY <1>1 DEF IteratorOK
<1>2. CASE iterator' = iterator
  BY <1>2 DEF IteratorOK, Shows
<1> QED BY <1>1, <1>2

(* There is no iterator of a vector.                                       *)
LEMMA NoIterator ==
  ASSUME IteratorOK, kind = "vector", kind' = kind, iterator' = iterator
  PROVE  IteratorOK'
BY DEF IteratorOK

-----------------------------------------------------------------------------
(* Elements of vectors.                                                    *)

(* A program's calls that change elements of a vector.                     *)
LEMMA VectorElements ==
  ASSUME CxxInv, NEW o \in Objects,
         \/ \E item \in AllItems : \E argument : push_back(o, item, argument)
         \/ \E item \in AllItems : \E pos : subscript(o, pos, item)
         \/ pop_back(o)
  PROVE  ElementsOK'
<1> DEFINE h == handle[o]
           s == heap[h].slots
<1>1. Ready /\ kind = "vector" /\ handle[o] \notin Null
      /\ kind' = kind /\ iterator' = iterator /\ call' = call
  BY DEF push_back, subscript, pop_back, Initialized, Null
<1>2. call = Idle /\ call' = Idle /\ ~Clearing
  BY <1>1 DEF Ready, Idle, Clearing
<1>3. /\ h \in DOMAIN heap /\ ContainerOK(kind, heap[h]) /\ Whole(kind, s)
      /\ s \in Seq(Items(kind))
  BY <1>1, <1>2, ContainersOfObjects DEF ContainerOK
<1>4. kind \in Kinds /\ HeapOK /\ CountOK /\ IteratorOK /\ StatusOK
  BY DEF CxxInv, ElementsOK
<1>5. HeapOK' /\ CountOK' /\ status' = status
  <2>1. ASSUME NEW item \in AllItems, NEW argument, push_back(o, item, argument)
        PROVE  HeapOK' /\ CountOK' /\ status' = status
    <3>1. CASE push_back_template(h, item)
      <4>1. item \in Items(kind) /\ ~IsRaw(item)
        BY <1>4, <2>1, ArgumentFacts DEF push_back
      <4> HIDE DEF h
      <4>2. /\ Touches(h) /\ ContainerOK(kind, heap'[h]) /\ Whole(kind, heap'[h].slots)
            /\ CountOK' /\ status' = status
        BY <1>1, <1>3, <1>4, <3>1, <4>1, PushBackStep
      <4> QED BY <1>1, <1>2, <1>4, <4>2, HeapTouched
    <3>2. CASE push_back_fails(h)
      BY <1>1, <1>2, <1>4, <3>2 DEF push_back_fails, HeapOK, CountOK, Clearing, Idle
    <3> QED BY <2>1, <3>1, <3>2 DEF push_back
  <2>2. ASSUME NEW item \in AllItems, NEW pos, subscript(o, pos, item)
        PROVE  HeapOK' /\ CountOK' /\ status' = status
    <3> DEFINE x == [s EXCEPT ![pos] = item]
    <3>1. item \in Items(kind) /\ ~IsRaw(item)
      BY <1>4, <2>2, ArgumentFacts DEF subscript
    <3>2. pos \in DOMAIN s /\ heap' = [heap EXCEPT ![h].slots[pos] = item]
          /\ living' = living /\ status' = status
      BY <2>2 DEF subscript, Slots
    <3>3. /\ Touches(h) /\ heap'[h].slots = x /\ heap'[h].packet = heap[h].packet
          /\ heap'[h].capacity = heap[h].capacity /\ DOMAIN heap'[h] = DOMAIN heap[h]
      BY <1>1, <1>3, <3>2 DEF ContainerOK, Touches
    <3> HIDE DEF s, h
    <3>4. DOMAIN s = 1 .. Len(s) /\ Len(s) \in Nat
      BY <1>3, LenProperties
    <3>5. x \in Seq(Items(kind)) /\ Len(x) = Len(s)
      BY <1>3, <3>1, <3>2, <3>4, ExceptSeq
    <3>6. DOMAIN x = DOMAIN s /\ \A i \in DOMAIN s : x[i] = IF i = pos THEN item ELSE s[i]
      OBVIOUS
    <3>7. ContainerOK(kind, heap'[h])
      BY <1>3, <3>3, <3>5 DEF ContainerOK, s
    <3>8. Whole(kind, x)
      BY <1>1, <1>3, <3>1, <3>6 DEF Whole
    <3>9. HeapOK'
      BY <1>1, <1>2, <1>4, <3>3, <3>7, <3>8, HeapTouched
    <3>10. ConstructedIn(item) = ConstructedIn(s[pos])
      <4>1. ~IsRaw(s[pos]) /\ s[pos] \in Items(kind)
        BY <1>3, <3>2, <3>4, ElementOfSeq DEF Whole
      <4> QED BY <3>1, <4>1, RawFacts, ItemsFacts
    <3>11. \A g, i, part : IsMade(heap', g, i, part) <=> IsMade(heap, g, i, part)
      <4>1. ASSUME NEW g, NEW i, NEW part PROVE IsMade(heap', g, i, part) <=> IsMade(heap, g, i, part)
        <5>1. CASE g = h
          BY <1>3, <3>3, <3>6, <3>10, <5>1 DEF IsMade, Touches, s
        <5>2. CASE g # h
          BY <3>3, <5>2 DEF IsMade, Touches
        <5> QED BY <5>1, <5>2
      <4> QED BY <4>1
    <3>12. CountOK'
      BY <1>4, <3>2, <3>11, SameCounts
    <3> QED BY <3>2, <3>9, <3>12
  <2>3. CASE pop_back(o)
    <3>1. s # <<>> /\ pop_last(h)
      BY <2>3 DEF pop_back, Slots
    <3>2. ~IsRaw(Last(s))
      <4> HIDE DEF s
      <4>1. Len(s) \in 1 .. Len(s) /\ DOMAIN s = 1 .. Len(s)
        BY <1>3, <3>1, LenProperties, EmptySeq
      <4> QED BY <1>3, <4>1 DEF Last, Whole
    <3> HIDE DEF h
    <3>3. /\ Touches(h) /\ ContainerOK(kind, heap'[h])
          /\ \A i \in DOMAIN heap'[h].slots : i \in DOMAIN s /\ heap'[h].slots[i] = s[i]
          /\ CountOK' /\ status' = status
      BY <1>1, <1>3, <1>4, <3>1, <3>2, PopLastStep
    <3>4. Whole(kind, heap'[h].slots)
      BY <1>1, <1>3, <3>3 DEF Whole
    <3> QED BY <1>1, <1>2, <1>4, <3>3, <3>4, HeapTouched
  <2> QED BY <2>1, <2>2, <2>3
<1>6. IteratorOK'
  BY <1>1, <1>4, NoIterator
<1>7. CallOK'
  BY <1>2, NoCall
<1>8. StatusOK'
  BY <1>4, <1>5 DEF StatusOK
<1> QED BY <1>1, <1>4, <1>5, <1>6, <1>7, <1>8 DEF ElementsOK

(* An element of a vector is an argument, as those of the program are.     *)
LEMMA OwnElementIsItem ==
  ASSUME CxxInv, Ready, kind = "vector", NEW o \in Objects, Initialized(o),
         NEW pos \in DOMAIN Slots(o)
  PROVE  Slots(o)[pos] \in AllItems
<1> DEFINE s == heap[handle[o]].slots
<1>1. handle[o] \notin Null /\ ~Clearing
  BY DEF Initialized, Null, Ready, Idle, Clearing
<1>2. s \in Seq(Items(kind)) /\ \A i \in DOMAIN s : ~IsRaw(s[i])
  BY <1>1, ContainersOfObjects DEF ContainerOK, Whole
<1>3. pos \in DOMAIN s /\ Slots(o)[pos] = s[pos]
  BY DEF Slots
<1> HIDE DEF s
<1>4. s[pos] \in Items(kind) /\ ~IsRaw(s[pos])
  BY <1>2, <1>3, LenProperties, ElementOfSeq
<1>5. s[pos] \in [value : Values \cup {RAW}] /\ DOMAIN s[pos] = {"value"}
  BY <1>4 DEF Items
<1>6. s[pos] \in [value : Values]
  BY <1>4, <1>5 DEF IsRaw
<1> QED BY <1>3, <1>6 DEF AllItems

(* A program's push of an element of the vector itself.                    *)
LEMMA OwnPushElements ==
  ASSUME CxxInv, NEW o \in Objects, NEW pos, push_back_own(o, pos)
  PROVE  ElementsOK'
<1>1. CASE /\ OwnPushWhenFull /\ status' = "undefined" /\ Ready
           /\ UNCHANGED <<kind, handle, heap, living, iterator, call, last>>
  <2>1. UNCHANGED <<kind, handle, heap, living, iterator, call>>
    BY <1>1
  <2>2. kind \in Kinds /\ HeapOK /\ CountOK /\ CallOK /\ IteratorOK
    BY DEF CxxInv, ElementsOK
  <2>3. StatusOK'
    BY <1>1 DEF StatusOK
  <2> QED BY <2>1, <2>2, <2>3 DEF ElementsOK, HeapOK, CountOK, IteratorOK, CallOK, OtherOK,
                                  Shows, Clearing, Mine, Slots
<1>2. CASE /\ push_back(o, Slots(o)[pos], "const &") /\ kind = "vector"
           /\ Ready /\ Initialized(o) /\ pos \in DOMAIN Slots(o)
  <2>1. Slots(o)[pos] \in AllItems
    BY <1>2, OwnElementIsItem
  <2>2. \E item \in AllItems : \E argument : push_back(o, item, argument)
    BY <1>2, <2>1
  <2> QED BY <2>2, VectorElements
<1> QED BY <1>1, <1>2, OwnPushFacts

-----------------------------------------------------------------------------
(* Elements of maps and sets.                                              *)

(* An item that is constructed has a key unless it is a vector's.          *)
LEMMA KeyFacts ==
  ASSUME NEW k, k # "vector", NEW x \in Items(k), ~IsRaw(x)
  PROVE  x.key \in Keys /\ x.key \in Int
BY ItemsFacts

(* The keys of entries that are constructed.                               *)
LEMMA EntryKeys ==
  ASSUME NEW k, k # "vector", NEW s \in Seq(Items(k)), Whole(k, s)
  PROVE  /\ DOMAIN s = 1 .. Len(s) /\ Len(s) \in Nat /\ Ordered(s)
         /\ \A i \in DOMAIN s : s[i] \in Items(k) /\ ~IsRaw(s[i])
                                /\ s[i].key \in Keys /\ s[i].key \in Int
<1>1. DOMAIN s = 1 .. Len(s) /\ Len(s) \in Nat
  BY LenProperties
<1>2. \A i \in DOMAIN s : s[i] \in Items(k) /\ ~IsRaw(s[i])
  BY <1>1, ElementOfSeq DEF Whole
<1>3. \A i \in DOMAIN s : s[i].key \in Keys /\ s[i].key \in Int
  BY <1>2, KeyFacts
<1> QED BY <1>1, <1>2, <1>3 DEF Whole

(* An insertion of an entry that is constructed.                           *)
LEMMA InsertStep ==
  ASSUME kind # "vector", CountOK, NEW h \in DOMAIN heap,
         ContainerOK(kind, heap[h]), Whole(kind, heap[h].slots),
         NEW item \in Items(kind), ~IsRaw(item), insert_template(h, item)
  PROVE  /\ Touches(h) /\ ContainerOK(kind, heap'[h]) /\ Whole(kind, heap'[h].slots)
         /\ heap'[h].packet = heap[h].packet
         /\ heap'[h].slots = InsertAt(heap[h].slots, Position(heap[h].slots, item.key), item)
         /\ InsertedAt(heap[h].slots, heap'[h].slots, Position(heap[h].slots, item.key), item)
         /\ Range(heap'[h].slots) = Range(heap[h].slots) \cup {item}
         /\ CountOK' /\ status' = status
<1> DEFINE s == heap[h].slots
           pos == Position(s, item.key)
           x == InsertAt(s, pos, item)
<1>1. /\ item.key \notin KeysOf(s) /\ construct(item)
      /\ heap' = [heap EXCEPT ![h].slots = x]
  BY DEF insert_template
<1>2. s \in Seq(Items(kind)) /\ {"packet", "slots"} \subseteq DOMAIN heap[h]
  BY DEF ContainerOK
<1>3. Touches(h) /\ heap'[h].slots = x /\ heap'[h].packet = heap[h].packet
      /\ DOMAIN heap'[h] = DOMAIN heap[h]
  BY <1>1, <1>2 DEF Touches
<1> HIDE DEF s
<1>4. /\ DOMAIN s = 1 .. Len(s) /\ Len(s) \in Nat /\ Ordered(s)
      /\ \A i \in DOMAIN s : ~IsRaw(s[i]) /\ s[i].key \in Int
      /\ item.key \in Int
  <2>1. /\ DOMAIN s = 1 .. Len(s) /\ Len(s) \in Nat /\ Ordered(s)
        /\ \A i \in DOMAIN s : ~IsRaw(s[i]) /\ s[i].key \in Int
    BY <1>2, EntryKeys DEF s
  <2>2. item.key \in Int
    BY KeyFacts
  <2> QED BY <2>1, <2>2
<1>5. pos \in 1 .. Len(s) + 1
  BY <1>4, PositionFacts
<1>6. pos = Position(s, item.key)
  OBVIOUS
<1> HIDE DEF pos
<1>7. x \in Seq(Items(kind)) /\ InsertedAt(s, x, pos, item)
  BY <1>2, <1>5, InsertAtInserts
<1> HIDE DEF x
<1>8. Ordered(x)
  BY <1>1, <1>2, <1>4, <1>6, <1>7, InsertingOrders
<1>9. /\ Range(x) = Range(s) \cup {item}
      /\ \A i \in DOMAIN x : i = pos \/ \E j \in DOMAIN s : i = Shift(j, pos)
  BY <1>2, <1>7, InsertedElements
<1>10. Whole(kind, x)
  <2>1. x[pos] = item /\ \A j \in DOMAIN s : x[Shift(j, pos)] = s[j]
    BY <1>4, <1>7 DEF InsertedAt
  <2>2. ASSUME NEW i \in DOMAIN x PROVE ~IsRaw(x[i])
    BY <1>4, <1>9, <2>1
  <2> QED BY <1>8, <2>2 DEF Whole
<1>11. ContainerOK(kind, heap'[h])
  BY <1>2, <1>3, <1>7 DEF ContainerOK
<1>12. CountOK' /\ status' = status
  BY <1>1, <1>2, <1>3, <1>7, AddingCounts DEF s
<1> QED BY <1>3, <1>7, <1>9, <1>10, <1>11, <1>12 DEF s, pos, x

(* The erasure of an entry.                                                *)
LEMMA EraseStep ==
  ASSUME kind # "vector", CountOK, NEW h \in DOMAIN heap,
         ContainerOK(kind, heap[h]), Whole(kind, heap[h].slots),
         NEW key \in KeysOf(heap[h].slots), NEW i, i = Position(heap[h].slots, key),
         destruct(heap[h].slots[i]), heap' = [heap EXCEPT ![h].slots = RemoveAt(@, i)]
  PROVE  /\ Touches(h) /\ ContainerOK(kind, heap'[h]) /\ Whole(kind, heap'[h].slots)
         /\ heap'[h].packet = heap[h].packet /\ heap'[h].slots = RemoveAt(heap[h].slots, i)
         /\ InsertedAt(heap'[h].slots, heap[h].slots, i, heap[h].slots[i])
         /\ heap[h].slots[i].key = key
         /\ Range(heap[h].slots) = Range(heap'[h].slots) \cup {heap[h].slots[i]}
         /\ CountOK' /\ status' = status
<1> DEFINE s == heap[h].slots
           x == RemoveAt(s, i)
<1>1. s \in Seq(Items(kind)) /\ {"packet", "slots"} \subseteq DOMAIN heap[h]
  BY DEF ContainerOK
<1>2. Touches(h) /\ heap'[h].slots = x /\ heap'[h].packet = heap[h].packet
      /\ DOMAIN heap'[h] = DOMAIN heap[h]
  BY <1>1 DEF Touches
<1>3. i = Position(s, key) /\ destruct(s[i])
  OBVIOUS
<1>4. PICK j \in DOMAIN s : key = s[j].key
  BY DEF KeysOf
<1> HIDE DEF s
<1>5. /\ DOMAIN s = 1 .. Len(s) /\ Len(s) \in Nat /\ Ordered(s)
      /\ \A n \in DOMAIN s : s[n] \in Items(kind) /\ ~IsRaw(s[n]) /\ s[n].key \in Int
  BY <1>1, EntryKeys DEF s
<1>6. i = j
  BY <1>3, <1>4, <1>5, PositionOfKey
<1>7. i \in 1 .. Len(s)
  BY <1>4, <1>5, <1>6
<1>8. x \in Seq(Items(kind)) /\ InsertedAt(x, s, i, s[i])
  BY <1>1, <1>7, RemoveAtRemoves
<1> HIDE DEF x
<1>9. /\ Range(s) = Range(x) \cup {s[i]}
      /\ \A n \in DOMAIN x : Shift(n, i) \in DOMAIN s
      /\ DOMAIN x = 1 .. Len(x)
  BY <1>1, <1>8, InsertedElements
<1>10. \A n \in DOMAIN x : s[Shift(n, i)] = x[n]
  BY <1>8, <1>9 DEF InsertedAt
<1>11. \A n \in DOMAIN x : x[n].key \in Int /\ ~IsRaw(x[n])
  BY <1>5, <1>9, <1>10
<1>12. Ordered(x)
  <2>1. s[i].key \in Int
    BY <1>5, <1>7
  <2> DEFINE item == s[i]
  <2>2. InsertedAt(x, s, i, item) /\ item.key \in Int
    BY <1>8, <2>1
  <2> HIDE DEF item
  <2> QED BY <1>1, <1>5, <1>8, <1>11, <2>2, InsertingOrders
<1>13. Whole(kind, x) /\ ContainerOK(kind, heap'[h])
  BY <1>1, <1>2, <1>8, <1>11, <1>12 DEF Whole, ContainerOK
<1>14. CountOK' /\ status' = status
  <2>1. s[i] \in Items(kind) /\ ~IsRaw(s[i])
    BY <1>5, <1>7
  <2> QED BY <1>1, <1>2, <1>3, <1>8, <2>1, RemovingCounts DEF s
<1> QED BY <1>2, <1>4, <1>6, <1>8, <1>9, <1>13, <1>14 DEF s, x

(* Steps that neither construct nor destroy.                               *)
LEMMA HeapStays ==
  ASSUME HeapOK, CountOK, ~Clearing, heap' = heap, living' = living, kind' = kind
  PROVE  HeapOK' /\ CountOK'
BY DEF HeapOK, CountOK

(* A program's insertions and erasures.                                    *)
LEMMA TreeElements ==
  ASSUME CxxInv, NEW o \in Objects,
         \/ \E item \in AllItems : \E argument : \/ insert_new(o, item, argument)
                                                 \/ insert_existing(o, item, argument)
         \/ \E item \in AllItems : insert_fails(o, item)
         \/ \E key : erase(o, key)
  PROVE  ElementsOK'
<1> DEFINE h == handle[o]
           s == heap[h].slots
<1>1. Ready /\ IsTree /\ handle[o] \notin Null /\ kind' = kind /\ call' = call
  BY DEF insert_new, insert_existing, insert_fails, erase, Initialized, Null
<1>2. call = Idle /\ call' = Idle /\ ~Clearing
  BY <1>1 DEF Ready, Idle, Clearing
<1>3. h \in DOMAIN heap /\ ContainerOK(kind, heap[h]) /\ Whole(kind, s)
  BY <1>1, <1>2, ContainersOfObjects
<1>4. kind \in Kinds /\ HeapOK /\ CountOK /\ IteratorOK /\ StatusOK
  BY DEF CxxInv, ElementsOK
<1>5. kind # "vector"
  BY <1>1, <1>4, PartsFacts
<1>6. HeapOK' /\ CountOK' /\ IteratorOK' /\ status' = status
  <2>1. ASSUME NEW item \in AllItems, NEW argument, insert_new(o, item, argument)
        PROVE  HeapOK' /\ CountOK' /\ IteratorOK' /\ status' = status
    <3>1. item \in Items(kind) /\ ~IsRaw(item)
      BY <1>4, <2>1, ArgumentFacts DEF insert_new
    <3>2. insert_template(h, item) /\ iterator' = iterator
      BY <2>1 DEF insert_new
    <3> HIDE DEF h
    <3>3. /\ Touches(h) /\ ContainerOK(kind, heap'[h]) /\ Whole(kind, heap'[h].slots)
          /\ Range(heap'[h].slots) = Range(s) \cup {item} /\ CountOK' /\ status' = status
      BY <1>3, <1>4, <1>5, <3>1, <3>2, InsertStep
    <3>4. HeapOK'
      BY <1>1, <1>2, <1>4, <3>3, HeapTouched
    <3>5. IteratorOK'
      <4>1. \A g \in DOMAIN heap : g \in DOMAIN heap' /\ Range(heap[g].slots) \subseteq Range(heap'[g].slots)
        BY <3>3 DEF Touches
      <4>2. iterator # NULL /\ iterator.key # NULL => iterator.container \in DOMAIN heap
        BY <1>4 DEF IteratorOK
      <4> QED BY <1>1, <1>4, <3>2, <4>1, <4>2, IteratorKept
    <3> QED BY <3>3, <3>4, <3>5
  <2>2. ASSUME NEW key, erase(o, key), key \in KeysOf(s)
        PROVE  HeapOK' /\ CountOK' /\ IteratorOK' /\ status' = status
    <3> DEFINE i == Position(s, key)
               invalid == {key} \cup Successor(s, key)
    <3>1. /\ destruct(s[i]) /\ heap' = [heap EXCEPT ![h].slots = RemoveAt(@, i)]
          /\ invalidate(h, invalid)
      BY <2>2 DEF erase, Slots
    <3>2. iterator' = NULL \/ (iterator' = iterator /\ (iterator.container = h => iterator.key # key))
            \/ (iterator' = iterator /\ iterator = NULL)
      <4>1. key \in invalid
        OBVIOUS
      <4> HIDE DEF invalid
      <4> QED BY <3>1, <4>1 DEF invalidate
    <3>3. i = Position(s, key)
      OBVIOUS
    <3> HIDE DEF h, i
    <3>4. /\ Touches(h) /\ ContainerOK(kind, heap'[h]) /\ Whole(kind, heap'[h].slots)
          /\ s[i].key = key /\ Range(s) = Range(heap'[h].slots) \cup {s[i]}
          /\ CountOK' /\ status' = status
      BY <1>3, <1>4, <1>5, <2>2, <3>1, <3>3, EraseStep
    <3>5. HeapOK'
      BY <1>1, <1>2, <1>4, <3>4, HeapTouched
    <3>6. IteratorOK'
      <4>1. ASSUME iterator' = iterator, iterator # NULL, iterator.key # NULL
            PROVE  /\ iterator.container \in DOMAIN heap'
                   /\ \A x \in Range(heap[iterator.container].slots) :
                        x.key = iterator.key => x \in Range(heap'[iterator.container].slots)
        <5>1. iterator.container \in DOMAIN heap
          BY <1>4, <4>1 DEF IteratorOK
        <5>2. CASE iterator.container = h
          BY <3>2, <3>4, <4>1, <5>1, <5>2 DEF Touches
        <5>3. CASE iterator.container # h
          BY <3>4, <5>1, <5>3 DEF Touches
        <5> QED BY <5>2, <5>3
      <4>2. iterator' \in {iterator, NULL}
        BY <3>2
      <4> QED BY <1>1, <1>4, <4>1, <4>2, IteratorKept
    <3> QED BY <3>4, <3>5, <3>6
  <2>3. ASSUME heap' = heap, living' = living, status' = status, iterator' \in {iterator, NULL}
        PROVE  HeapOK' /\ CountOK' /\ IteratorOK' /\ status' = status
    <3>1. IteratorOK'
      BY <1>1, <1>4, <2>3 DEF IteratorOK, Shows
    <3> QED BY <1>1, <1>2, <1>4, <2>3, <3>1, HeapStays
  <2>4. ASSUME NEW item, NEW argument, insert_existing(o, item, argument)
        PROVE  HeapOK' /\ CountOK' /\ IteratorOK' /\ status' = status
    BY <2>3, <2>4 DEF insert_existing
  <2>5. ASSUME NEW item, insert_fails(o, item)
        PROVE  HeapOK' /\ CountOK' /\ IteratorOK' /\ status' = status
    BY <2>3, <2>5 DEF insert_fails, invalidate
  <2>6. ASSUME NEW key, erase(o, key), key \notin KeysOf(s)
        PROVE  HeapOK' /\ CountOK' /\ IteratorOK' /\ status' = status
    BY <2>3, <2>6 DEF erase, Slots
  <2> QED BY <2>1, <2>2, <2>4, <2>5, <2>6
<1>7. CallOK'
  BY <1>2, NoCall
<1>8. StatusOK'
  BY <1>4, <1>6 DEF StatusOK
<1> QED BY <1>1, <1>4, <1>6, <1>7, <1>8 DEF ElementsOK

(* An iterator at an entry of a container points to it and shows it.       *)
LEMMA IteratorPlaced ==
  ASSUME kind # "vector", UNCHANGED <<kind, heap>>, NEW h \in DOMAIN heap,
         ContainerOK(kind, heap[h]), Whole(kind, heap[h].slots),
         NEW i, NEW adapter, iterator' = iterator_at(h, i, adapter)
  PROVE  IteratorOK'
<1> DEFINE s == heap[h].slots
<1>1. s \in Seq(Items(kind))
  BY DEF ContainerOK
<1>2. \A j \in DOMAIN s : s[j].key \in Keys
  BY <1>1, EntryKeys
<1>3. /\ iterator'.container = h
      /\ iterator'.key = IF i \in DOMAIN s THEN s[i].key ELSE NULL
      /\ iterator'.adapter = update_adapter(s, i, adapter)
  BY DEF iterator_at
<1> HIDE DEF s
<1>4. CASE i \in DOMAIN s
  <2>1. s[i] \in Range(s)
    BY <1>4 DEF Range
  <2>2. Shows(s[i])'
    BY <1>3, <1>4 DEF Shows, update_adapter, s
  <2>3. iterator'.key \in Keys
    BY <1>2, <1>3, <1>4
  <2>4. \E x \in Range(heap'[iterator'.container].slots) : Shows(x)'
    BY <1>3, <2>1, <2>2 DEF s
  <2> QED BY <1>3, <2>3, <2>4 DEF IteratorOK
<1>5. CASE i \notin DOMAIN s
  BY <1>3, <1>5 DEF IteratorOK
<1> QED BY <1>4, <1>5

(* A program's calls on iterators.                                         *)
LEMMA TreeIterators ==
  ASSUME CxxInv,
         (\E o \in Objects : begin(o) \/ \E key : find(o, key)) \/ increment \/ decrement
  PROVE  ElementsOK'
<1>1. Ready /\ UNCHANGED <<kind, handle, heap, living, call, status>>
  BY DEF begin, find, increment, decrement, MoveIterator, UsingIterator
<1>2. call = Idle /\ call' = Idle /\ ~Clearing
  BY <1>1 DEF Ready, Idle, Clearing
<1>3. kind \in Kinds /\ HeapOK /\ CountOK /\ IteratorOK /\ StatusOK
  BY DEF CxxInv, ElementsOK
<1>4. \A h \in DOMAIN heap : ContainerOK(kind, heap[h]) /\ Whole(kind, heap[h].slots)
  BY <1>2, <1>3 DEF HeapOK
<1>5. \E h \in DOMAIN heap : \E i, adapter : kind # "vector" /\ iterator' = iterator_at(h, i, adapter)
  <2>1. ASSUME NEW o \in Objects, begin(o) \/ \E key : find(o, key)
        PROVE  \E h \in DOMAIN heap : \E i, adapter : kind # "vector" /\ iterator' = iterator_at(h, i, adapter)
    <3>1. IsTree /\ handle[o] \notin Null
      BY <2>1 DEF begin, find, Initialized, Null
    <3>2. handle[o] \in DOMAIN heap
      BY <3>1, ContainersOfObjects
    <3>3. \E i, adapter : iterator' = iterator_at(handle[o], i, adapter)
      BY <2>1 DEF begin, find
    <3> QED BY <1>3, <3>1, <3>2, <3>3, PartsFacts
  <2>2. CASE increment \/ decrement
    <3>1. iterator # NULL /\ iterator.key # NULL
      BY <2>2 DEF increment, decrement, MoveIterator, UsingIterator
    <3>2. kind # "vector" /\ iterator.container \in DOMAIN heap
      BY <1>3, <3>1 DEF IteratorOK
    <3>3. \E i, adapter : iterator' = iterator_at(iterator.container, i, adapter)
      BY <2>2 DEF increment, decrement, MoveIterator
    <3> QED BY <3>2, <3>3
  <2> QED BY <2>1, <2>2
<1>6. IteratorOK'
  BY <1>1, <1>4, <1>5, IteratorPlaced
<1>7. HeapOK' /\ CountOK'
  BY <1>1, <1>2, <1>3, HeapStays
<1>8. CallOK'
  BY <1>2, NoCall
<1> QED BY <1>1, <1>3, <1>6, <1>7, <1>8 DEF ElementsOK, StatusOK

-----------------------------------------------------------------------------
(* Calls in progress.                                                      *)

(* A call in progress works on a container that exists.                    *)
LEMMA InProgress ==
  ASSUME CxxInv, call.stage # "idle"
  PROVE  /\ call.self \in Objects /\ handle[call.self] \notin Null
         /\ Mine \in DOMAIN heap /\ ContainerOK(kind, heap[Mine])
         /\ call.op \in {"copy", "failed_copy", "move", "clear", "destroy"} /\ OtherOK
<1>1. call.self \in Objects /\ handle[call.self] \notin Null
  BY DEF CxxInv, IInv, CallSound
<1>2. Mine \in DOMAIN heap /\ ContainerOK(kind, heap[Mine])
  BY <1>1, ContainersOfObjects DEF Mine
<1> QED BY <1>1, <1>2 DEF CxxInv, ElementsOK, CallOK

(* A copy reads a whole container that is not the one it works on.         *)
LEMMA CopySource ==
  ASSUME CxxInv, call.stage = "copy"
  PROVE  /\ call.other \in Objects /\ call.op = "copy" /\ handle[call.other] # Mine
         /\ handle[call.other] \in DOMAIN heap
         /\ Slots(call.other) \in Seq(Items(kind)) /\ Whole(kind, Slots(call.other))
         /\ Whole(kind, heap[Mine].slots)
         /\ PartlyCopied(Slots(call.other), heap[Mine].slots, call.at)
<1>1. /\ call.self \in Objects /\ handle[call.self] \notin Null /\ Mine \in DOMAIN heap /\ OtherOK
  BY InProgress
<1>2. call.op = "copy" /\ PartlyCopied(Slots(call.other), heap[Mine].slots, call.at)
  BY DEF CxxInv, ElementsOK, CallOK
<1>3. call.other \in Objects /\ handle[call.other] \notin Null /\ call.other # call.self
  BY <1>1, <1>2 DEF OtherOK
<1>4. handle[call.other] # Mine
  BY <1>1, <1>3 DEF CxxInv, IInv, Owns, Mine
<1>5. ~Clearing
  BY DEF Clearing
<1>6. /\ handle[call.other] \in DOMAIN heap /\ ContainerOK(kind, heap[handle[call.other]])
      /\ Whole(kind, heap[handle[call.other]].slots)
  BY <1>3, <1>5, ContainersOfObjects
<1>7. Whole(kind, heap[Mine].slots)
  BY <1>1, <1>5 DEF CxxInv, ElementsOK, HeapOK
<1> QED BY <1>2, <1>3, <1>4, <1>6, <1>7 DEF ContainerOK, Slots

(* The other object stays while the call is the same one.                  *)
LEMMA OtherKept ==
  ASSUME OtherOK, handle' = handle, call'.self = call.self, call'.other = call.other,
         call'.op \in {call.op, "failed_copy"}
  PROVE  OtherOK'
BY DEF OtherOK

(* A call begins to clear a container that is whole.                       *)
LEMMA EnterOK ==
  ASSUME NEW op, op \in {"copy", "failed_copy", "move", "clear", "destroy"}, NEW o, NEW x,
         Enter(op, o, x), OtherOK',
         NEW s, s = heap'[handle'[o]].slots, NEW k, s \in Seq(Items(k)), Whole(k, s)
  PROVE  CallOK'
<1>1. /\ call'.op = op /\ call'.self = o /\ call'.stage = "clear" /\ call'.at = 1
  BY DEF Enter
<1>2. PartlyCleared(s, 1)
  <2>1. DOMAIN s = 1 .. Len(s) /\ Len(s) \in Nat
    BY LenProperties
  <2>2. \A i \in DOMAIN s : ~(i < 1)
    BY <2>1
  <2>3. \A i \in DOMAIN s : ~IsRaw(s[i])
    BY DEF Whole
  <2> QED BY <2>2, <2>3 DEF PartlyCleared
<1>3. PartlyCleared(heap'[Mine'].slots, call'.at)
  BY <1>1, <1>2 DEF Mine
<1>4. call'.at \in Nat \ {0} /\ (kind' = "vector" => call'.at = 1)
  BY <1>1
<1> QED BY <1>1, <1>3, <1>4 DEF CallOK, Clearing

(* Calls that begin in an object that has a container.                     *)
LEMMA EnteringElements ==
  ASSUME CxxInv, NEW o \in Objects,
         \/ \E x \in Objects : copy_assign(o, x) \/ move_assign(o, x)
         \/ clear(o) \/ destroy(o)
  PROVE  ElementsOK'
<1>1. Ready /\ handle[o] \notin Null /\ UNCHANGED <<kind, handle, heap, living, iterator, status>>
  BY DEF copy_assign, move_assign, clear, destroy, Unentered, Initialized, Null
<1>2. call = Idle /\ ~Clearing
  BY <1>1 DEF Ready, Idle, Clearing
<1>3. kind \in Kinds /\ HeapOK /\ CountOK /\ IteratorOK /\ StatusOK
  BY DEF CxxInv, ElementsOK
<1>4. HeapOK' /\ CountOK'
  BY <1>1, <1>2, <1>3, HeapStays
<1>5. CallOK'
  <2>1. CASE call' = call
    BY <1>2, <2>1, NoCall
  <2>2. /\ heap'[handle'[o]].slots \in Seq(Items(kind)) /\ Whole(kind, heap'[handle'[o]].slots)
    BY <1>1, <1>2, ContainersOfObjects DEF ContainerOK
  <2>3. ASSUME NEW op \in {"copy", "move"}, NEW x \in Objects, Enter(op, o, x),
               handle[x] \notin Null, x = o => op = "move" /\ SelfMove
        PROVE  CallOK'
    <3>1. OtherOK'
      <4>1. call'.op = op /\ call'.self = o /\ call'.other = x
        BY <2>3 DEF Enter
      <4> QED BY <1>1, <2>3, <4>1 DEF OtherOK
    <3>2. op \in {"copy", "failed_copy", "move", "clear", "destroy"}
      OBVIOUS
    <3> QED BY <2>2, <2>3, <3>1, <3>2, EnterOK
  <2>4. ASSUME NEW op \in {"clear", "destroy"}, Enter(op, o, NULL) PROVE CallOK'
    <3>1. OtherOK'
      BY <2>4 DEF OtherOK, Enter
    <3>2. op \in {"copy", "failed_copy", "move", "clear", "destroy"}
      OBVIOUS
    <3> QED BY <2>2, <2>4, <3>1, <3>2, EnterOK
  <2>5. ASSUME NEW x \in Objects, copy_assign(o, x) PROVE CallOK'
    BY <2>1, <2>3, <2>5 DEF copy_assign, Initialized, Null
  <2>6. ASSUME NEW x \in Objects, move_assign(o, x) PROVE CallOK'
    BY <2>3, <2>6 DEF move_assign, Initialized, Null
  <2>7. CASE clear(o) \/ destroy(o)
    BY <2>4, <2>7 DEF clear, destroy
  <2> QED BY <2>5, <2>6, <2>7
<1> QED BY <1>1, <1>3, <1>4, <1>5 DEF ElementsOK, IteratorOK, Shows, StatusOK

(* Steps of calls that leave the elements alone.                           *)
LEMMA IdleElements ==
  ASSUME CxxInv, finish_clear \/ start_copying \/ finish_copy
  PROVE  ElementsOK'
<1>1. call.stage \in {"cleared", "copy"} /\ UNCHANGED <<kind, handle, heap, living, iterator, status>>
  BY DEF finish_clear, start_copying, finish_copy, Finished, Continues
<1>2. ~Clearing
  BY <1>1 DEF Clearing
<1>3. kind \in Kinds /\ HeapOK /\ CountOK /\ IteratorOK /\ StatusOK /\ CallOK
  BY DEF CxxInv, ElementsOK
<1>4. HeapOK' /\ CountOK'
  BY <1>1, <1>2, <1>3, HeapStays
<1>5. CallOK'
  <2>1. CASE finish_clear \/ finish_copy
    BY <2>1, NoCall DEF finish_clear, finish_copy, Return
  <2>2. CASE start_copying
    <3>1. call.op = "copy" /\ heap[Mine].slots = <<>> /\ OtherOK
      BY <1>1, <1>3, <2>2 DEF start_copying, Finished, Continues, CallOK
    <3>2. call' = [call EXCEPT !.stage = "copy", !.at = 1]
      BY <2>2 DEF start_copying
    <3>3. call'.op = "copy" /\ call'.self = call.self /\ call'.other = call.other
          /\ call'.stage = "copy" /\ call'.at = 1
      BY <3>1, <3>2 DEF CxxInv, IInv, CallSound, CallTyped
    <3>4. OtherOK'
      BY <1>1, <3>1, <3>3, OtherKept
    <3>5. call.other \in Objects /\ handle[call.other] \notin Null
      BY <3>1 DEF OtherOK
    <3>6. ContainerOK(kind, heap[handle[call.other]])
      BY <3>5, ContainersOfObjects
    <3>7. Len(Slots(call.other)) \in Nat
      BY <3>6, LenProperties DEF ContainerOK, Slots
    <3>8. PartlyCopied(Slots(call.other), <<>>, 1)
      BY <3>7 DEF PartlyCopied
    <3> QED BY <1>1, <3>1, <3>3, <3>4, <3>8 DEF CallOK, Clearing, Slots, Mine
  <2> QED BY <2>1, <2>2
<1> QED BY <1>1, <1>3, <1>4, <1>5 DEF ElementsOK, IteratorOK, Shows, StatusOK

(* What EXCEPT leaves of a call.                                           *)
LEMMA CallUpdated ==
  ASSUME CxxInv, NEW op, NEW stage, NEW at,
         call' = [call EXCEPT !.op = op, !.stage = stage, !.at = at]
  PROVE  /\ call'.op = op /\ call'.stage = stage /\ call'.at = at
         /\ call'.self = call.self /\ call'.other = call.other
BY DEF CxxInv, IInv, CallSound, CallTyped

(* A step of clear() keeps what clear() has done.                          *)
LEMMA ClearingGoesOn ==
  ASSUME CxxInv, Clearing, UNCHANGED <<kind, handle>>,
         call'.op = call.op, call'.self = call.self, call'.other = call.other,
         \/ /\ call'.stage = "clear" /\ call'.at \in Nat \ {0}
            /\ kind = "vector" => call'.at = 1
            /\ PartlyCleared(heap'[Mine].slots, call'.at)
         \/ call'.stage = "cleared" /\ heap'[Mine].slots = <<>>
  PROVE  CallOK' /\ Mine' = Mine /\ (Clearing' <=> call'.stage = "clear")
<1>1. call.op \in {"copy", "failed_copy", "move", "clear", "destroy"} /\ OtherOK
  BY InProgress DEF Clearing
<1>2. OtherOK'
  BY <1>1, OtherKept
<1>3. Mine' = Mine
  BY DEF Mine
<1> QED BY <1>1, <1>2, <1>3 DEF CallOK, Clearing

(* clear() of vectors.                                                     *)
LEMMA ClearVectorStep ==
  ASSUME CxxInv, clear_vector
  PROVE  ElementsOK'
<1> DEFINE s == heap[Mine].slots
<1>1. Clearing /\ kind = "vector" /\ UNCHANGED <<kind, handle, iterator>>
  BY DEF clear_vector, Continues, Clearing
<1>2. kind \in Kinds /\ HeapOK /\ CountOK /\ IteratorOK /\ StatusOK
  BY DEF CxxInv, ElementsOK
<1>3. /\ Mine \in DOMAIN heap /\ ContainerOK(kind, heap[Mine]) /\ s \in Seq(Items(kind))
  BY <1>1, InProgress DEF Clearing, ContainerOK
<1>4. call.at = 1 /\ PartlyCleared(s, 1)
  BY <1>1 DEF CxxInv, ElementsOK, CallOK
<1> HIDE DEF s
<1>5. DOMAIN s = 1 .. Len(s) /\ Len(s) \in Nat
  BY <1>3, LenProperties
<1>6. \A i \in DOMAIN s : ~IsRaw(s[i])
  BY <1>4, <1>5 DEF PartlyCleared
<1>7. HeapOK' /\ CountOK' /\ CallOK' /\ status' = status
  <2>1. CASE s # <<>>
    <3>1. pop_last(Mine) /\ call' = call
      BY <2>1 DEF clear_vector, s
    <3>2. ~IsRaw(Last(s))
      <4>1. Len(s) \in 1 .. Len(s)
        BY <1>3, <2>1, EmptySeq, <1>5
      <4> QED BY <1>5, <1>6, <4>1 DEF Last
    <3>3. /\ Touches(Mine) /\ ContainerOK(kind, heap'[Mine])
          /\ \A i \in DOMAIN heap'[Mine].slots : i \in DOMAIN s /\ heap'[Mine].slots[i] = s[i]
          /\ CountOK' /\ status' = status
      <4> DEFINE h == Mine
      <4>1. heap[h].slots # <<>> /\ pop_last(h) /\ ~IsRaw(Last(heap[h].slots))
            /\ h \in DOMAIN heap /\ ContainerOK(kind, heap[h])
        BY <1>3, <2>1, <3>1, <3>2 DEF s
      <4> HIDE DEF h
      <4>2. /\ Touches(h) /\ ContainerOK(kind, heap'[h])
            /\ \A i \in DOMAIN heap'[h].slots : i \in DOMAIN heap[h].slots
                                                 /\ heap'[h].slots[i] = heap[h].slots[i]
            /\ CountOK' /\ status' = status
        BY <1>1, <1>2, <4>1, PopLastStep
      <4> QED BY <4>2 DEF h, s
    <3>4. \A i \in DOMAIN heap'[Mine].slots : ~IsRaw(heap'[Mine].slots[i])
      BY <1>6, <3>3
    <3>5. Whole(kind, heap'[Mine].slots)
      BY <1>1, <3>4 DEF Whole
    <3>6. PartlyCleared(heap'[Mine].slots, 1)
      <4>1. \A i \in DOMAIN heap'[Mine].slots : ~(i < 1)
        BY <1>5, <3>3
      <4> QED BY <3>4, <4>1 DEF PartlyCleared
    <3>7. CallOK'
      BY <1>1, <1>4, <3>1, <3>6, ClearingGoesOn DEF Clearing
    <3>8. HeapOK'
      BY <1>1, <1>2, <3>3, <3>5, HeapTouched
    <3> QED BY <3>3, <3>7, <3>8
  <2>2. CASE s = <<>>
    <3>1. call' = [call EXCEPT !.stage = "cleared"] /\ UNCHANGED <<heap, living, status>>
      BY <2>2 DEF clear_vector, s
    <3>2. call'.stage = "cleared" /\ call'.op = call.op /\ call'.self = call.self
          /\ call'.other = call.other
      BY <3>1 DEF CxxInv, IInv, CallSound, CallTyped
    <3>3. CallOK' /\ Mine' = Mine
      BY <1>1, <2>2, <3>1, <3>2, ClearingGoesOn DEF s
    <3>4. HeapOK'
      <4>1. Whole(kind, s)
        BY <1>1, <1>6 DEF Whole
      <4>2. \A h \in DOMAIN heap : ContainerOK(kind, heap[h]) /\ Whole(kind, heap[h].slots)
        BY <1>2, <4>1 DEF HeapOK, s
      <4> QED BY <1>1, <3>1, <4>2 DEF HeapOK
    <3> QED BY <1>2, <3>1, <3>3, <3>4 DEF CountOK
  <2> QED BY <2>1, <2>2
<1>8. IteratorOK'
  BY <1>1, <1>2, NoIterator
<1> QED BY <1>1, <1>2, <1>7, <1>8 DEF ElementsOK, StatusOK

(* clear() of maps and sets.                                               *)
LEMMA ClearTreeStep ==
  ASSUME CxxInv, clear_tree
  PROVE  ElementsOK'
<1> DEFINE s == heap[Mine].slots
           x == heap'[Mine].slots
<1>1. Clearing /\ IsTree /\ UNCHANGED <<kind, handle>> /\ invalidate(Mine, Keys)
  BY DEF clear_tree, Continues, Clearing
<1>2. kind \in Kinds /\ HeapOK /\ CountOK /\ IteratorOK /\ StatusOK
  BY DEF CxxInv, ElementsOK
<1>3. /\ Mine \in DOMAIN heap /\ ContainerOK(kind, heap[Mine]) /\ s \in Seq(Items(kind))
      /\ {"packet", "slots"} \subseteq DOMAIN heap[Mine]
  BY <1>1, InProgress DEF Clearing, ContainerOK
<1>4. call.at \in Nat \ {0} /\ PartlyCleared(s, call.at)
  BY <1>1 DEF CxxInv, ElementsOK, CallOK
<1>5. kind # "vector"
  BY <1>1, <1>2, PartsFacts
<1>6. IteratorOK'
  <2>1. DOMAIN heap' = DOMAIN heap /\ \A g \in DOMAIN heap \ {Mine} : heap'[g] = heap[g]
    BY DEF clear_tree
  <2>2. iterator # NULL /\ iterator.key # NULL =>
          iterator.container \in DOMAIN heap /\ iterator.key \in Keys
    BY <1>2 DEF IteratorOK
  <2>3. iterator' \in {iterator, NULL}
        /\ (iterator' = iterator /\ iterator # NULL /\ iterator.key # NULL => iterator.container # Mine)
    BY <1>1, <2>2 DEF invalidate
  <2> QED BY <1>1, <1>2, <2>1, <2>2, <2>3, IteratorKept
<1> HIDE DEF s, x
<1>7. DOMAIN s = 1 .. Len(s) /\ Len(s) \in Nat
  BY <1>3, LenProperties
<1>8. HeapOK' /\ CountOK' /\ CallOK' /\ status' = status
  <2>1. CASE call.at <= Len(s)
    <3> DEFINE i == call.at
    <3>1. /\ destruct(s[i]) /\ heap' = [heap EXCEPT ![Mine].slots[i] = Destroyed(@)]
          /\ call' = [call EXCEPT !.at = i + 1]
      BY <2>1 DEF clear_tree, s
    <3>2. i \in DOMAIN s /\ ~IsRaw(s[i]) /\ s[i] \in Items(kind)
      <4>1. i \in 1 .. Len(s)
        BY <1>4, <1>7, <2>1
      <4>2. ~(i < i)
        BY <1>4
      <4> QED BY <1>3, <1>4, <1>7, <4>1, <4>2, ElementOfSeq DEF PartlyCleared
    <3>3. /\ Touches(Mine) /\ x = [s EXCEPT ![i] = Destroyed(@)]
          /\ heap'[Mine].packet = heap[Mine].packet /\ DOMAIN heap'[Mine] = DOMAIN heap[Mine]
      BY <1>3, <3>1 DEF Touches, s, x
    <3>4. call'.op = call.op /\ call'.self = call.self /\ call'.other = call.other
          /\ call'.stage = "clear" /\ call'.at = i + 1
      BY <1>1, <3>1 DEF CxxInv, IInv, CallSound, CallTyped, Clearing
    <3>5. Destroyed(s[i]) \in Items(kind) /\ ConstructedIn(Destroyed(s[i])) = {}
      BY <3>2, ItemsFacts, RawFacts
    <3>6. ConstructedIn(s[i]) = DOMAIN s[i]
      BY <3>2, RawFacts
    <3>7. DOMAIN x = DOMAIN s /\ x[i] = Destroyed(s[i]) /\ \A j \in DOMAIN s \ {i} : x[j] = s[j]
      BY <3>2, <3>3
    <3>8. x \in Seq(Items(kind))
      <4> DEFINE e == Destroyed(s[i])
      <4>1. x = [s EXCEPT ![i] = e] /\ i \in 1 .. Len(s) /\ e \in Items(kind)
        BY <1>7, <3>2, <3>3, <3>5
      <4> HIDE DEF e, i
      <4>2. [s EXCEPT ![i] = e] \in Seq(Items(kind))
        BY <1>3, <4>1, ExceptSeq
      <4> QED BY <4>1, <4>2
    <3>9. i + 1 \in Nat \ {0} /\ PartlyCleared(x, i + 1)
      <4>1. \A j \in DOMAIN s : j < i + 1 <=> j < i \/ j = i
        BY <1>4, <1>7
      <4>2. ASSUME NEW j \in DOMAIN x
            PROVE  IF j < i + 1 THEN ConstructedIn(x[j]) = {} ELSE ~IsRaw(x[j])
        <5>1. CASE j = i
          BY <3>5, <3>7, <4>1, <5>1
        <5>2. CASE j # i
          BY <1>4, <3>7, <4>1, <5>2 DEF PartlyCleared
        <5> QED BY <5>1, <5>2
      <4> QED BY <1>4, <4>2 DEF PartlyCleared
    <3>10. CallOK' /\ Mine' = Mine /\ Clearing'
      BY <1>1, <1>5, <3>4, <3>9, ClearingGoesOn DEF x
    <3>11. ContainerOK(kind, heap'[Mine])
      BY <1>3, <1>5, <3>3, <3>8 DEF ContainerOK, x
    <3>12. HeapOK'
      BY <1>1, <1>2, <3>3, <3>10, <3>11, HeapTouched
    <3>13. CountOK' /\ status' = status
      <4> DEFINE h == Mine
      <4>1. /\ h \in DOMAIN heap /\ i \in DOMAIN heap[h].slots /\ DOMAIN heap' = DOMAIN heap
            /\ \A g \in DOMAIN heap \ {h} : heap'[g].slots = heap[g].slots
            /\ heap'[h].slots = [heap[h].slots EXCEPT ![i] = Destroyed(@)]
        BY <1>3, <3>2, <3>3 DEF Touches, s, x
      <4> HIDE DEF h, i
      <4>2. IsFiniteSet(Made(heap')) /\ IsFiniteSet(ConstructedIn(heap[h].slots[i]))
            /\ Cardinality(Made(heap'))
                 = Cardinality(Made(heap)) - Cardinality(ConstructedIn(heap[h].slots[i]))
        BY <1>2, <4>1, MadeDestroyed DEF CountOK
      <4>3. living' = living - Cardinality(DOMAIN s[i]) /\ status' = status
        BY <3>1, <3>2 DEF destruct
      <4>4. ConstructedIn(heap[h].slots[i]) = DOMAIN s[i]
        BY <3>6 DEF h, s
      <4> QED BY <1>2, <4>2, <4>3, <4>4 DEF CountOK
    <3> QED BY <3>10, <3>12, <3>13
  <2>2. CASE ~(call.at <= Len(s))
    <3>1. /\ heap' = [heap EXCEPT ![Mine].slots = <<>>]
          /\ call' = [call EXCEPT !.stage = "cleared"] /\ UNCHANGED <<living, status>>
      BY <2>2 DEF clear_tree, s
    <3>2. call'.stage = "cleared" /\ call'.op = call.op /\ call'.self = call.self
          /\ call'.other = call.other
      BY <3>1 DEF CxxInv, IInv, CallSound, CallTyped
    <3>3. /\ Touches(Mine) /\ x = <<>>
          /\ heap'[Mine].packet = heap[Mine].packet /\ DOMAIN heap'[Mine] = DOMAIN heap[Mine]
      BY <1>3, <3>1 DEF Touches, x
    <3>4. CallOK' /\ Mine' = Mine
      BY <1>1, <3>2, <3>3, ClearingGoesOn DEF x
    <3>5. Whole(kind, x) /\ ContainerOK(kind, heap'[Mine])
      <4>1. <<>> \in Seq(Items(kind)) /\ DOMAIN <<>> = {}
        OBVIOUS
      <4> QED BY <1>3, <1>5, <3>3, <4>1 DEF Whole, Ordered, ContainerOK, x
    <3>6. HeapOK'
      BY <1>1, <1>2, <3>3, <3>5, HeapTouched DEF x
    <3>7. \A i \in DOMAIN s : ConstructedIn(s[i]) = {}
      <4>1. \A i \in DOMAIN s : i < call.at
        BY <1>4, <1>7, <2>2
      <4> QED BY <1>4, <4>1 DEF PartlyCleared
    <3>8. \A h, i, part : IsMade(heap', h, i, part) <=> IsMade(heap, h, i, part)
      <4>1. ASSUME NEW h, NEW i, NEW part
            PROVE  IsMade(heap', h, i, part) <=> IsMade(heap, h, i, part)
        <5>1. CASE h = Mine
          BY <3>3, <3>7, <5>1 DEF IsMade, s, x
        <5>2. CASE h # Mine
          BY <3>3, <5>2 DEF IsMade, Touches
        <5> QED BY <5>1, <5>2
      <4> QED BY <4>1
    <3>9. CountOK'
      BY <1>2, <3>1, <3>8, SameCounts
    <3> QED BY <3>1, <3>4, <3>6, <3>9
  <2> QED BY <2>1, <2>2
<1> QED BY <1>1, <1>2, <1>6, <1>8 DEF ElementsOK, StatusOK

(* An iteration of a copy loop that has constructed its element.           *)
LEMMA CopiedOne ==
  ASSUME CxxInv, call.stage = "copy", call.at <= Len(Slots(call.other)),
         UNCHANGED <<kind, handle, iterator>>, call' = [call EXCEPT !.at = @ + 1],
         Touches(Mine), ContainerOK(kind, heap'[Mine]), Whole(kind, heap'[Mine].slots),
         InsertedAt(heap[Mine].slots, heap'[Mine].slots, call.at, Slots(call.other)[call.at]),
         Range(heap[Mine].slots) \subseteq Range(heap'[Mine].slots)
  PROVE  HeapOK' /\ CallOK' /\ IteratorOK'
<1> DEFINE source == Slots(call.other)
           s == heap[Mine].slots
           x == heap'[Mine].slots
           at == call.at
<1>1. /\ call.op = "copy" /\ handle[call.other] # Mine /\ handle[call.other] \in DOMAIN heap
      /\ source \in Seq(Items(kind)) /\ PartlyCopied(source, s, at)
  BY CopySource
<1>2. HeapOK /\ IteratorOK /\ OtherOK
  BY InProgress DEF CxxInv, ElementsOK
<1>3. /\ call'.op = "copy" /\ call'.self = call.self /\ call'.other = call.other
      /\ call'.stage = "copy" /\ call'.at = at + 1
  BY <1>1 DEF CxxInv, IInv, CallSound, CallTyped
<1>4. Mine' = Mine /\ Slots(call.other)' = source /\ heap'[Mine'].slots = x
  BY <1>1, <1>3 DEF Mine, Slots, Touches
<1>5. PartlyCopied(source, x, at + 1)
  <2>1. InsertedAt(s, x, at, source[at]) /\ at <= Len(source)
    OBVIOUS
  <2> HIDE DEF source, s, x, at
  <2>4. Len(source) \in Nat
    BY <1>1, LenProperties
  <2>2. Len(source) \in Nat /\ at \in 1 .. Len(source) /\ Len(s) = at - 1
        /\ \A i \in 1 .. at - 1 : s[i] = source[i]
    BY <1>1, <2>1, <2>4 DEF PartlyCopied
  <2>3. Len(x) = at /\ x[at] = source[at] /\ \A i \in 1 .. at - 1 : x[i] = s[i]
    BY <2>1, <2>2 DEF InsertedAt, Shift
  <2>5. at + 1 \in 1 .. Len(source) + 1 /\ (at + 1) - 1 = at
    BY <2>2, <2>4
  <2>6. \A i \in 1 .. at : x[i] = source[i]
    BY <2>2, <2>3, <2>4
  <2> QED BY <2>3, <2>5, <2>6 DEF PartlyCopied
<1>6. OtherOK'
  BY <1>1, <1>2, <1>3, OtherKept
<1>7. CallOK'
  BY <1>3, <1>4, <1>5, <1>6 DEF CallOK, Clearing
<1>8. HeapOK'
  <2>1. ~Clearing
    BY DEF Clearing
  <2> QED BY <1>2, <2>1, HeapTouched
<1>9. IteratorOK'
  <2>1. \A g \in DOMAIN heap : g \in DOMAIN heap' /\ Range(heap[g].slots) \subseteq Range(heap'[g].slots)
    BY DEF Touches
  <2>2. iterator # NULL /\ iterator.key # NULL => iterator.container \in DOMAIN heap
    BY <1>2 DEF IteratorOK
  <2> QED BY <1>2, <2>1, <2>2, IteratorKept
<1> QED BY <1>7, <1>8, <1>9

(* A copy loop whose element could not be allocated gives up.              *)
LEMMA CopyFails ==
  ASSUME CxxInv, call.stage = "copy",
         UNCHANGED <<kind, handle, heap, living, iterator, status>>,
         call' = [call EXCEPT !.op = "failed_copy", !.stage = "clear", !.at = 1]
  PROVE  ElementsOK'
<1>1. kind \in Kinds /\ HeapOK /\ CountOK /\ IteratorOK /\ StatusOK /\ ~Clearing
  BY DEF CxxInv, ElementsOK, Clearing
<1>2. /\ Mine \in DOMAIN heap /\ ContainerOK(kind, heap[Mine]) /\ OtherOK
      /\ Whole(kind, heap[Mine].slots)
  BY InProgress, CopySource
<1>3. Enter("failed_copy", call.self, call.other)
  BY DEF Enter, CxxInv, IInv, CallSound, CallTyped
<1>4. /\ call'.op = "failed_copy" /\ call'.self = call.self /\ call'.other = call.other
  BY <1>3 DEF Enter
<1>5. OtherOK'
  BY <1>2, <1>4, OtherKept
<1>6. heap'[handle'[call.self]].slots \in Seq(Items(kind))
      /\ Whole(kind, heap'[handle'[call.self]].slots)
  BY <1>2 DEF Mine, ContainerOK
<1>7. CallOK'
  BY <1>3, <1>5, <1>6, EnterOK
<1>8. HeapOK' /\ CountOK'
  BY <1>1, HeapStays
<1> QED BY <1>1, <1>7, <1>8 DEF ElementsOK, IteratorOK, Shows, StatusOK

(* The copy loop of vectors.                                               *)
LEMMA CopyPushBackStep ==
  ASSUME CxxInv, copy_push_back
  PROVE  ElementsOK'
<1> DEFINE source == Slots(call.other)
           item == source[call.at]
           s == heap[Mine].slots
<1>1. /\ call.stage = "copy" /\ kind = "vector" /\ call.at <= Len(source)
      /\ UNCHANGED <<kind, handle, iterator>>
  BY DEF copy_push_back, Continues
<1>2. /\ source \in Seq(Items(kind)) /\ Whole(kind, source)
      /\ Whole(kind, s) /\ PartlyCopied(source, s, call.at)
  BY <1>1, CopySource
<1>3. Mine \in DOMAIN heap /\ ContainerOK(kind, heap[Mine]) /\ s \in Seq(Items(kind))
  BY <1>1, InProgress DEF ContainerOK
<1>4. kind \in Kinds /\ CountOK /\ StatusOK
  BY DEF CxxInv, ElementsOK
<1>5. item \in Items(kind) /\ ~IsRaw(item)
  <2> HIDE DEF source
  <2>1. call.at \in 1 .. Len(source) /\ DOMAIN source = 1 .. Len(source)
    BY <1>1, <1>2, LenProperties DEF PartlyCopied
  <2> QED BY <1>2, <2>1, ElementOfSeq DEF Whole
<1>6. CASE push_back_template(Mine, item) /\ call' = [call EXCEPT !.at = @ + 1]
  <2> DEFINE h == Mine
             y == item
             pos == call.at
  <2>1. /\ h \in DOMAIN heap /\ ContainerOK(kind, heap[h]) /\ Whole(kind, heap[h].slots)
        /\ y \in Items(kind) /\ ~IsRaw(y) /\ push_back_template(h, y)
    BY <1>2, <1>3, <1>5, <1>6
  <2>2. heap[h].slots \in Seq(Items(kind)) /\ pos = Len(heap[h].slots) + 1
    BY <1>2, <1>3, LenProperties DEF PartlyCopied
  <2> HIDE DEF h, y, pos
  <2>3. /\ Touches(h) /\ ContainerOK(kind, heap'[h]) /\ Whole(kind, heap'[h].slots)
        /\ heap'[h].slots = Append(heap[h].slots, y) /\ CountOK' /\ status' = status
    BY <1>1, <1>4, <2>1, PushBackStep
  <2>4. InsertedAt(heap[h].slots, heap'[h].slots, pos, y)
        /\ heap'[h].slots \in Seq(Items(kind))
    BY <2>1, <2>2, <2>3, AppendInserts
  <2>5. Range(heap[h].slots) \subseteq Range(heap'[h].slots)
    BY <2>2, <2>4, InsertedElements
  <2>6. HeapOK' /\ CallOK' /\ IteratorOK'
    BY <1>1, <1>6, <2>3, <2>4, <2>5, CopiedOne DEF h, y, pos
  <2> QED BY <1>1, <1>4, <2>3, <2>6 DEF ElementsOK, StatusOK
<1>7. CASE /\ push_back_fails(Mine)
           /\ call' = [call EXCEPT !.op = "failed_copy", !.stage = "clear", !.at = 1]
  BY <1>1, <1>7, CopyFails DEF push_back_fails
<1> QED BY <1>6, <1>7 DEF copy_push_back

(* The copy loop of maps and sets: it never meets a key of the source      *)
(* again, because what it has copied are the entries before.               *)
LEMMA CopyInsertStep ==
  ASSUME CxxInv, copy_insert
  PROVE  ElementsOK'
<1> DEFINE source == Slots(call.other)
           item == source[call.at]
           s == heap[Mine].slots
<1>1. /\ call.stage = "copy" /\ IsTree /\ call.at <= Len(source)
      /\ UNCHANGED <<kind, handle, iterator>>
  BY DEF copy_insert, Continues
<1>2. /\ source \in Seq(Items(kind)) /\ Whole(kind, source)
      /\ Whole(kind, s) /\ PartlyCopied(source, s, call.at)
  BY <1>1, CopySource
<1>3. Mine \in DOMAIN heap /\ ContainerOK(kind, heap[Mine]) /\ s \in Seq(Items(kind))
  BY <1>1, InProgress DEF ContainerOK
<1>4. kind \in Kinds /\ CountOK /\ StatusOK
  BY DEF CxxInv, ElementsOK
<1>5. kind # "vector"
  BY <1>1, <1>4, PartsFacts
<1>6. /\ item \in Items(kind) /\ ~IsRaw(item) /\ item.key \in Int
      /\ item.key \notin KeysOf(s) /\ Position(s, item.key) = call.at
  <2> DEFINE at == call.at
             key == item.key
             p == Position(s, key)
  <2> HIDE DEF source
  <2>1. /\ DOMAIN source = 1 .. Len(source) /\ Len(source) \in Nat /\ Ordered(source)
        /\ \A i \in DOMAIN source : source[i] \in Items(kind) /\ ~IsRaw(source[i]) /\ source[i].key \in Int
    BY <1>2, <1>5, EntryKeys
  <2>2. at \in 1 .. Len(source) /\ Len(s) = at - 1 /\ \A i \in 1 .. at - 1 : s[i] = source[i]
    BY <1>1, <1>2, <2>1 DEF PartlyCopied
  <2>3. /\ DOMAIN s = 1 .. Len(s) /\ Len(s) \in Nat /\ Ordered(s)
        /\ \A i \in DOMAIN s : s[i].key \in Int
    <3> HIDE DEF s
    <3> QED BY <1>2, <1>3, <1>5, EntryKeys
  <2>4. item \in Items(kind) /\ ~IsRaw(item) /\ key \in Int
    BY <2>1, <2>2
  <2> HIDE DEF s, at
  <2>5. \A i \in DOMAIN s : s[i].key < key
    <3>0. key = source[at].key
      BY DEF at
    <3>1. ASSUME NEW i \in DOMAIN s PROVE s[i].key < key
      <4>1. i \in DOMAIN source /\ at \in DOMAIN source /\ i < at /\ s[i] = source[i]
        BY <2>1, <2>2, <2>3
      <4>2. source[i].key < source[at].key
        BY <2>1, <4>1 DEF Ordered
      <4> QED BY <4>1, <4>2 DEF at
    <3> QED BY <3>1
  <2>6. key \notin KeysOf(s)
    BY <2>3, <2>4, <2>5 DEF KeysOf
  <2> HIDE DEF key
  <2>7. p \in 1 .. Len(s) + 1 /\ \A i \in DOMAIN s : i < p <=> s[i].key < key
    BY <2>3, <2>4, PositionFacts
  <2> HIDE DEF p
  <2>8. p = Len(s) + 1
    <3>1. ASSUME p <= Len(s) PROVE FALSE
      <4>1. p \in DOMAIN s
        BY <2>3, <2>7, <3>1
      <4>2. p < p
        BY <2>5, <2>7, <4>1
      <4> QED BY <2>3, <2>7, <4>2
    <3> QED BY <2>3, <2>7, <3>1
  <2>9. p = at
    BY <2>2, <2>8
  <2> QED BY <2>4, <2>6, <2>9 DEF p, key, at, s
<1>7. CASE insert_template(Mine, item) /\ call' = [call EXCEPT !.at = @ + 1]
  <2> DEFINE h == Mine
             y == item
             pos == call.at
  <2>1. /\ h \in DOMAIN heap /\ ContainerOK(kind, heap[h]) /\ Whole(kind, heap[h].slots)
        /\ y \in Items(kind) /\ ~IsRaw(y) /\ insert_template(h, y)
        /\ Position(heap[h].slots, y.key) = pos
    BY <1>2, <1>3, <1>6, <1>7
  <2> HIDE DEF h, y, pos
  <2>2. /\ Touches(h) /\ ContainerOK(kind, heap'[h]) /\ Whole(kind, heap'[h].slots)
        /\ InsertedAt(heap[h].slots, heap'[h].slots, pos, y)
        /\ Range(heap'[h].slots) = Range(heap[h].slots) \cup {y}
        /\ CountOK' /\ status' = status
    BY <1>4, <1>5, <2>1, InsertStep
  <2>3. Range(heap[h].slots) \subseteq Range(heap'[h].slots)
    BY <2>2
  <2>4. HeapOK' /\ CallOK' /\ IteratorOK'
    BY <1>1, <1>7, <2>2, <2>3, CopiedOne DEF h, y, pos
  <2> QED BY <1>1, <1>4, <2>2, <2>4 DEF ElementsOK, StatusOK
<1>8. CASE /\ UNCHANGED <<heap, living, status>>
           /\ call' = [call EXCEPT !.op = "failed_copy", !.stage = "clear", !.at = 1]
  BY <1>1, <1>8, CopyFails
<1> QED BY <1>6, <1>7, <1>8 DEF copy_insert

-----------------------------------------------------------------------------
(* Elements when containers come and go.                                   *)

(* The containers H and G differ in containers without elements only.      *)
OnlyEmptyDiffer(H, G) ==
  \A g : \/ g \in DOMAIN H /\ g \in DOMAIN G /\ G[g] = H[g]
         \/ (g \in DOMAIN H => H[g].slots = <<>>) /\ (g \in DOMAIN G => G[g].slots = <<>>)

(* A new container has no elements.                                        *)
LEMMA NewIsEmpty ==
  ASSUME kind \in Kinds, NEW packet \in {STD, CUSTOM_CMAGIC}, NEW h, NEW new \in New(packet, h)
  PROVE  /\ OnlyEmptyDiffer(h, new.heap)
         /\ \A g \in DOMAIN new.heap :
              \/ g \in DOMAIN h /\ new.heap[g] = h[g]
              \/ /\ ContainerOK(kind, new.heap[g]) /\ new.heap[g].slots = <<>>
                 /\ new.heap[g].packet = packet /\ g = new.handle
         /\ \A g \in DOMAIN h : g \in DOMAIN new.heap /\ new.heap[g] = h[g]
         /\ new.handle # NULL =>
              /\ new.handle \in Handles /\ new.handle \in DOMAIN new.heap
              /\ new.handle \notin DOMAIN h
              /\ new.heap[new.handle].slots = <<>> /\ new.heap[new.handle].packet = packet
<1>1. CASE new = [handle |-> NULL, heap |-> h]
  BY <1>1 DEF OnlyEmptyDiffer
<1>2. ASSUME NEW fresh \in Handles \ DOMAIN h, NEW c \in empty_containers(packet),
             new = [handle |-> fresh, heap |-> With(h, fresh, c)]
      PROVE  /\ OnlyEmptyDiffer(h, new.heap)
             /\ \A g \in DOMAIN new.heap :
                  \/ g \in DOMAIN h /\ new.heap[g] = h[g]
                  \/ /\ ContainerOK(kind, new.heap[g]) /\ new.heap[g].slots = <<>>
                     /\ new.heap[g].packet = packet /\ g = new.handle
             /\ \A g \in DOMAIN h : g \in DOMAIN new.heap /\ new.heap[g] = h[g]
             /\ new.handle \in Handles /\ new.handle \in DOMAIN new.heap
             /\ new.handle \notin DOMAIN h
             /\ new.heap[new.handle].slots = <<>> /\ new.heap[new.handle].packet = packet
  <2>1. /\ new.handle = fresh /\ DOMAIN new.heap = DOMAIN h \cup {fresh}
        /\ new.heap[fresh] = c /\ \A g \in DOMAIN h : new.heap[g] = h[g]
    BY <1>2 DEF With
  <2>2. ContainerOK(kind, c) /\ c.slots = <<>> /\ c.packet = packet
    <3>0. <<>> \in Seq(Items(kind)) /\ Len(<<>>) = 0
      OBVIOUS
    <3>1. CASE kind = "vector"
      <4>1. PICK a \in Addresses :
              c = [packet |-> packet, slots |-> <<>>, capacity |-> VECTOR_MIN_CAPACITY,
                   address |-> a, homes |-> <<>>]
        BY <3>1 DEF empty_containers, empty_vectors
      <4>2. /\ DOMAIN c = {"packet", "slots", "capacity", "address", "homes"}
            /\ c.slots = <<>> /\ c.packet = packet /\ c.capacity = VECTOR_MIN_CAPACITY
        BY <4>1
      <4>3. c.capacity \in Nat \ {0} /\ Len(c.slots) <= c.capacity
        BY <3>0, <4>2, CxxVectorAssumption
      <4> QED BY <3>0, <4>2, <4>3 DEF ContainerOK
    <3>2. CASE kind # "vector"
      <4>1. c = [packet |-> packet, slots |-> <<>>]
        BY <3>2 DEF empty_containers, empty_trees
      <4> QED BY <3>0, <3>2, <4>1 DEF ContainerOK
    <3> QED BY <3>1, <3>2
  <2>3. OnlyEmptyDiffer(h, new.heap)
    BY <2>1, <2>2 DEF OnlyEmptyDiffer
  <2> QED BY <2>1, <2>2, <2>3
<1> QED BY <1>1, <1>2 DEF New

(* Containers without elements change nothing for the others.              *)
LEMMA EmptyReplaced ==
  ASSUME kind \in Kinds, CountOK, IteratorOK, StatusOK,
         UNCHANGED <<kind, living, iterator, status>>, OnlyEmptyDiffer(heap, heap'), CallOK',
         \A g \in DOMAIN heap' : ContainerOK(kind, heap'[g]) /\ Whole(kind, heap'[g].slots)
  PROVE  ElementsOK'
<1>1. HeapOK'
  BY DEF HeapOK
<1>2. \A h, i, part : IsMade(heap', h, i, part) <=> IsMade(heap, h, i, part)
  <2>1. ASSUME NEW h, NEW i, NEW part
        PROVE  IsMade(heap', h, i, part) <=> IsMade(heap, h, i, part)
    <3>1. DOMAIN <<>> = {}
      OBVIOUS
    <3> QED BY <3>1 DEF IsMade, OnlyEmptyDiffer
  <2> QED BY <2>1
<1>3. CountOK'
  BY <1>2, SameCounts
<1>4. IteratorOK'
  <2>1. CASE iterator # NULL /\ iterator.key # NULL
    <3>1. iterator.container \in DOMAIN heap
          /\ \E x \in Range(heap[iterator.container].slots) : Shows(x)
      BY <2>1 DEF IteratorOK
    <3>2. heap[iterator.container].slots # <<>>
      <4>1. Range(<<>>) = {}
        BY DEF Range
      <4> QED BY <3>1, <4>1
    <3>3. iterator.container \in DOMAIN heap'
          /\ heap'[iterator.container] = heap[iterator.container]
      BY <3>1, <3>2 DEF OnlyEmptyDiffer
    <3> QED BY <3>3, IteratorKept
  <2>2. CASE ~(iterator # NULL /\ iterator.key # NULL)
    BY <2>2, IteratorKept
  <2> QED BY <2>1, <2>2
<1> QED BY <1>1, <1>3, <1>4 DEF ElementsOK, StatusOK

(* Constructors, and the destructor of an object without a container.      *)
LEMMA CreatingElements ==
  ASSUME CxxInv, NEW o \in Objects,
         \/ \E packet \in {STD, CUSTOM_CMAGIC} : default_construct(o, packet)
         \/ \E x \in Objects : copy_construct(o, x) \/ move_construct(o, x)
         \/ destroy_uninitialized(o)
  PROVE  ElementsOK'
<1>1. Ready /\ UNCHANGED <<kind, living, iterator, status>>
  BY DEF default_construct, copy_construct, move_construct, destroy_uninitialized, Constructing
<1>2. call = Idle /\ ~Clearing
  BY <1>1 DEF Ready, Idle, Clearing
<1>3. kind \in Kinds /\ HeapOK /\ CountOK /\ IteratorOK /\ StatusOK
  BY DEF CxxInv, ElementsOK
<1>4. \A g \in DOMAIN heap : ContainerOK(kind, heap[g]) /\ Whole(kind, heap[g].slots)
  BY <1>2, <1>3 DEF HeapOK
<1>5. Whole(kind, <<>>)
  <2>1. DOMAIN <<>> = {}
    OBVIOUS
  <2> QED BY <2>1 DEF Whole, Ordered
<1>6. ASSUME NEW packet \in {STD, CUSTOM_CMAGIC}, NEW new \in New(packet, heap),
             heap' = new.heap, CallOK'
      PROVE  ElementsOK'
  <2>1. OnlyEmptyDiffer(heap, heap')
    BY <1>3, <1>6, NewIsEmpty
  <2>2. \A g \in DOMAIN heap' : ContainerOK(kind, heap'[g]) /\ Whole(kind, heap'[g].slots)
    BY <1>3, <1>4, <1>5, <1>6, NewIsEmpty
  <2> QED BY <1>1, <1>3, <1>6, <2>1, <2>2, EmptyReplaced
<1>7. \A x \in Objects : Initialized(x) => heap[handle[x]].packet \in {STD, CUSTOM_CMAGIC}
  BY ContainersOfObjects DEF Initialized, Null, ContainerOK
<1>8. ASSUME NEW packet \in {STD, CUSTOM_CMAGIC}, default_construct(o, packet) PROVE ElementsOK'
  <2>1. CallOK'
    BY <1>2, <1>8, NoCall DEF default_construct
  <2>2. \E new \in New(packet, heap) : heap' = new.heap
    BY <1>8 DEF default_construct
  <2> QED BY <1>6, <2>1, <2>2
<1>9. ASSUME NEW x \in Objects, copy_construct(o, x) PROVE ElementsOK'
  <2> DEFINE packet == heap[handle[x]].packet
  <2>1. packet \in {STD, CUSTOM_CMAGIC} /\ handle[o] = NONE /\ handle[x] \notin Null
    BY <1>7, <1>9 DEF copy_construct, Constructing, Initialized, Null
  <2>2. PICK new \in New(packet, heap) :
          /\ handle' = [handle EXCEPT ![o] = new.handle] /\ heap' = new.heap
          /\ IF new.handle = NULL THEN UNCHANGED call ELSE Enter("copy", o, x)
    BY <1>9 DEF copy_construct
  <2> HIDE DEF packet
  <2>3. CASE new.handle = NULL
    BY <1>2, <1>6, <2>1, <2>2, <2>3, NoCall
  <2>4. CASE new.handle # NULL
    <3>1. x # o /\ handle \in [Objects -> Handles \cup Null]
      BY <2>1 DEF Null, CxxInv, IInv, Owns
    <3>2. handle'[o] = new.handle /\ handle'[x] = handle[x]
      BY <2>2, <3>1
    <3>3. heap'[handle'[o]].slots = <<>>
      BY <1>3, <2>1, <2>2, <2>4, <3>2, NewIsEmpty
    <3>4. Enter("copy", o, x)
      BY <2>2, <2>4
    <3>5. OtherOK'
      <4>1. call'.op = "copy" /\ call'.self = o /\ call'.other = x
        BY <3>4 DEF Enter
      <4> QED BY <2>1, <3>1, <3>2, <4>1 DEF OtherOK
    <3>6. <<>> \in Seq(Items(kind))
      OBVIOUS
    <3>7. CallOK'
      BY <1>5, <3>3, <3>4, <3>5, <3>6, EnterOK
    <3> QED BY <1>6, <2>1, <2>2, <3>7
  <2> QED BY <2>3, <2>4
<1>10. ASSUME NEW x \in Objects, move_construct(o, x) PROVE ElementsOK'
  <2> DEFINE packet == heap[handle[x]].packet
  <2>1. packet \in {STD, CUSTOM_CMAGIC}
    BY <1>7, <1>10 DEF move_construct
  <2>2. \E new \in New(packet, heap) : heap' = new.heap
    BY <1>10 DEF move_construct, take_over
  <2>3. CallOK'
    BY <1>2, <1>10, NoCall DEF move_construct
  <2> HIDE DEF packet
  <2> QED BY <1>6, <2>1, <2>2, <2>3
<1>11. CASE destroy_uninitialized(o)
  <2>1. heap' = heap /\ CallOK'
    BY <1>2, <1>11, NoCall DEF destroy_uninitialized
  <2>2. OnlyEmptyDiffer(heap, heap')
    BY <2>1 DEF OnlyEmptyDiffer
  <2> QED BY <1>1, <1>3, <1>4, <2>1, <2>2, EmptyReplaced
<1> QED BY <1>8, <1>9, <1>10, <1>11

(* The container that a cleared object gives up has no elements.           *)
LEMMA FreedIsEmpty ==
  ASSUME CxxInv, call.stage = "cleared", NEW rest, rest = Freed(heap, Mine)
  PROVE  /\ DOMAIN rest = DOMAIN heap \ {Mine} /\ \A g \in DOMAIN rest : rest[g] = heap[g]
         /\ OnlyEmptyDiffer(heap, rest)
         /\ \A g \in DOMAIN rest : ContainerOK(kind, rest[g]) /\ Whole(kind, rest[g].slots)
<1>1. heap[Mine].slots = <<>>
  BY DEF CxxInv, ElementsOK, CallOK
<1>2. \A g \in DOMAIN heap : ContainerOK(kind, heap[g]) /\ Whole(kind, heap[g].slots)
  BY DEF CxxInv, ElementsOK, HeapOK, Clearing
<1>3. DOMAIN rest = DOMAIN heap \ {Mine} /\ \A g \in DOMAIN rest : rest[g] = heap[g]
  BY DEF Freed
<1> QED BY <1>1, <1>2, <1>3 DEF OnlyEmptyDiffer

(* The ends of failed copies, destructors and moves.                       *)
LEMMA FinishingElements ==
  ASSUME CxxInv, give_up_copy \/ finish_destroy \/ finish_move
  PROVE  ElementsOK'
<1>1. call.stage = "cleared" /\ UNCHANGED <<kind, living, iterator>>
  BY DEF give_up_copy, finish_destroy, finish_move, Finished, Continues, release
<1>2. kind \in Kinds /\ CountOK /\ IteratorOK /\ StatusOK
  BY DEF CxxInv, ElementsOK
<1>3. CASE give_up_copy \/ finish_destroy
  <2>1. heap' = Freed(heap, Mine) /\ status' = status /\ call' = Idle
    BY <1>3 DEF give_up_copy, finish_destroy, release, Return
  <2> QED BY <1>1, <1>2, <2>1, FreedIsEmpty, NoCall, EmptyReplaced
<1>4. CASE finish_move
  <2> DEFINE x == call.other
             rest == Freed(heap, Mine)
  <2>0. rest = Freed(heap, Mine)
    OBVIOUS
  <2>1. /\ DOMAIN rest = DOMAIN heap \ {Mine} /\ \A g \in DOMAIN rest : rest[g] = heap[g]
        /\ OnlyEmptyDiffer(heap, rest)
        /\ \A g \in DOMAIN rest : ContainerOK(kind, rest[g]) /\ Whole(kind, rest[g].slots)
    <3> HIDE DEF rest
    <3> QED BY <1>1, <2>0, FreedIsEmpty
  <2>2. CASE handle[x] \notin DOMAIN rest
    <3>1. status' = "undefined" /\ UNCHANGED <<handle, heap, call>>
      BY <1>4, <2>2 DEF finish_move
    <3>2. /\ call.self \in Objects /\ handle[call.self] \notin Null
          /\ x \in Objects /\ handle[x] \notin Null /\ (x = call.self => SelfMove)
      BY <1>1, <1>4, InProgress DEF finish_move, Finished, OtherOK
    <3>3. handle[x] \in DOMAIN heap /\ Mine = handle[call.self]
      BY <3>2, ContainersOfObjects DEF Mine
    <3>4. x = call.self
      BY <2>1, <2>2, <3>2, <3>3 DEF CxxInv, IInv, Owns
    <3>5. StatusOK'
      BY <3>1, <3>2, <3>4 DEF StatusOK
    <3>6. HeapOK /\ CallOK
      BY DEF CxxInv, ElementsOK
    <3>7. HeapOK' /\ CountOK' /\ IteratorOK' /\ CallOK'
      BY <1>1, <1>2, <3>1, <3>6
         DEF HeapOK, CountOK, IteratorOK, CallOK, OtherOK, Shows, Clearing, Mine, Slots
    <3> QED BY <1>1, <1>2, <3>5, <3>7 DEF ElementsOK
  <2>3. CASE handle[x] \in DOMAIN rest
    <3> DEFINE packet == rest[handle[x]].packet
    <3>1. call' = Idle /\ status' = status
      BY <1>4, <2>3 DEF finish_move, Return
    <3>2. PICK new \in New(packet, rest) : heap' = new.heap
      BY <1>4, <2>3 DEF finish_move, take_over
    <3>3. packet \in {STD, CUSTOM_CMAGIC}
      BY <2>1, <2>3 DEF ContainerOK
    <3> HIDE DEF rest, packet
    <3>4. /\ OnlyEmptyDiffer(rest, heap')
          /\ \A g \in DOMAIN heap' :
               \/ g \in DOMAIN rest /\ heap'[g] = rest[g]
               \/ ContainerOK(kind, heap'[g]) /\ heap'[g].slots = <<>>
      BY <1>2, <3>2, <3>3, NewIsEmpty
    <3>5. Whole(kind, <<>>)
      <4>1. DOMAIN <<>> = {}
        OBVIOUS
      <4> QED BY <4>1 DEF Whole, Ordered
    <3>6. \A g \in DOMAIN heap' : ContainerOK(kind, heap'[g]) /\ Whole(kind, heap'[g].slots)
      BY <2>1, <3>4, <3>5
    <3>7. OnlyEmptyDiffer(heap, heap')
      BY <2>1, <3>4 DEF OnlyEmptyDiffer
    <3> QED BY <1>1, <1>2, <3>1, <3>6, <3>7, NoCall, EmptyReplaced
  <2> QED BY <2>2, <2>3
<1> QED BY <1>3, <1>4

-----------------------------------------------------------------------------
(* The invariant.                                                          *)

(* In the beginning there is no element.                                   *)
LEMMA InitElements == CxxInit => CxxInv
<1> SUFFICES ASSUME CxxInit PROVE CxxInv
  OBVIOUS
<1>1. /\ kind \in Kinds /\ heap = <<>> /\ DOMAIN heap = {} /\ living = 0 /\ iterator = NULL
      /\ call = Idle /\ status = "ok"
  BY DEF CxxInit
<1>2. Made(heap) = {}
  BY <1>1 DEF Made
<1>3. CountOK
  BY <1>1, <1>2, FS_EmptySet DEF CountOK
<1>4. CallOK
  BY <1>1 DEF CallOK, Clearing, Idle
<1> QED BY <1>1, <1>3, <1>4, InitHandles DEF CxxInv, ElementsOK, HeapOK, IteratorOK, StatusOK

(* Every step of a program keeps the invariant.                            *)
LEMMA NextElements == CxxInv /\ [CxxNext]_cxx_vars => CxxInv'
<1> SUFFICES ASSUME CxxInv, [CxxNext]_cxx_vars PROVE CxxInv'
  OBVIOUS
<1>1. IInv'
  BY NextHandles DEF CxxInv
<1>2. CASE UNCHANGED cxx_vars
  <2>1. UNCHANGED <<kind, handle, heap, living, iterator, call, status>>
    BY <1>2 DEF cxx_vars
  <2>2. kind \in Kinds /\ HeapOK /\ CountOK /\ CallOK /\ IteratorOK /\ StatusOK
    BY DEF CxxInv, ElementsOK
  <2>3. ElementsOK'
    BY <2>1, <2>2 DEF ElementsOK, HeapOK, CountOK, IteratorOK, CallOK, StatusOK, OtherOK,
                      Shows, Clearing, Mine, Slots
  <2> QED BY <1>1, <2>3 DEF CxxInv
<1>3. CASE CxxNext
  <2>1. ASSUME NEW o \in Objects,
               \/ \E packet \in {STD, CUSTOM_CMAGIC} : default_construct(o, packet)
               \/ \E x \in Objects : copy_construct(o, x) \/ move_construct(o, x)
               \/ destroy_uninitialized(o)
        PROVE  ElementsOK'
    BY <2>1, CreatingElements
  <2>2. ASSUME NEW o \in Objects,
               \/ \E x \in Objects : copy_assign(o, x) \/ move_assign(o, x)
               \/ clear(o) \/ destroy(o)
        PROVE  ElementsOK'
    BY <2>2, EnteringElements
  <2>3. ASSUME NEW o \in Objects,
               \/ \E item \in AllItems : \E argument : push_back(o, item, argument)
               \/ \E item \in AllItems : \E pos : subscript(o, pos, item)
               \/ pop_back(o)
        PROVE  ElementsOK'
    BY <2>3, VectorElements
  <2>4. ASSUME NEW o \in Objects,
               \/ \E item \in AllItems : \E argument : \/ insert_new(o, item, argument)
                                                       \/ insert_existing(o, item, argument)
               \/ \E item \in AllItems : insert_fails(o, item)
               \/ \E key : erase(o, key)
        PROVE  ElementsOK'
    BY <2>4, TreeElements
  <2>5. ASSUME (\E o \in Objects : begin(o) \/ \E key : find(o, key)) \/ increment \/ decrement
        PROVE  ElementsOK'
    BY <2>5, TreeIterators
  <2>6. ASSUME clear_vector \/ clear_tree \/ copy_push_back \/ copy_insert PROVE ElementsOK'
    BY <2>6, ClearVectorStep, ClearTreeStep, CopyPushBackStep, CopyInsertStep
  <2>7. ASSUME finish_clear \/ start_copying \/ finish_copy PROVE ElementsOK'
    BY <2>7, IdleElements
  <2>8. ASSUME give_up_copy \/ finish_destroy \/ finish_move PROVE ElementsOK'
    BY <2>8, FinishingElements
  <2>9. ASSUME NEW o \in Objects, NEW pos, push_back_own(o, pos) PROVE ElementsOK'
    BY <2>9, OwnPushElements
  <2>10. ElementsOK'
    BY <1>3, <2>1, <2>2, <2>3, <2>4, <2>5, <2>6, <2>7, <2>8, <2>9 DEF CxxNext
  <2> QED BY <1>1, <2>10 DEF CxxInv
<1> QED BY <1>2, <1>3

(* The invariant holds in every program.                                   *)
LEMMA AlwaysCxxInv == CxxSpec => []CxxInv
BY InitElements, NextElements, PTL DEF CxxSpec

-----------------------------------------------------------------------------
(* The theorems about elements, for all programs: with any number of       *)
(* objects and elements, whatever allocations fail.                        *)

(* Variables keep their types, and a vector fits into its array.           *)
THEOREM CxxTypeCorrect == CxxSpec => []CxxTypeOK
<1>1. CxxInv => CxxTypeOK
  <2> SUFFICES ASSUME CxxInv PROVE CxxTypeOK
    OBVIOUS
  <2>1. kind \in Kinds /\ HeapOK /\ CountOK /\ StatusOK /\ Owns(handle, DOMAIN heap)
    BY DEF CxxInv, ElementsOK, IInv
  <2>2. handle \in [Objects -> Handles \cup {NULL, NONE}] /\ DOMAIN heap \subseteq Handles
    BY <2>1 DEF Owns, Null
  <2>3. living \in Nat
    BY <2>1, FS_CardinalityType DEF CountOK
  <2>4. status \in {"ok", "undefined", "aborted"}
    BY <2>1 DEF StatusOK
  <2>5. ASSUME NEW h \in DOMAIN heap
        PROVE  /\ heap[h].packet \in {STD, CUSTOM_CMAGIC} /\ Range(heap[h].slots) \subseteq Slot
               /\ kind = "vector" => Len(heap[h].slots) <= heap[h].capacity
    <3> DEFINE s == heap[h].slots
    <3>1. /\ heap[h].packet \in {STD, CUSTOM_CMAGIC} /\ s \in Seq(Items(kind))
          /\ kind = "vector" => Len(s) <= heap[h].capacity
      BY <2>1 DEF HeapOK, ContainerOK
    <3> HIDE DEF s
    <3>2. ASSUME NEW x \in Range(s) PROVE x \in Slot
      <4>1. PICK i \in DOMAIN s : x = s[i]
        BY DEF Range
      <4>2. s[i] \in Items(kind)
        BY <3>1, LenProperties, ElementOfSeq
      <4> QED BY <4>1, <4>2, ItemsFacts
    <3> QED BY <3>1, <3>2 DEF s
  <2> QED BY <2>1, <2>2, <2>3, <2>4, <2>5 DEF CxxTypeOK
<1> QED BY <1>1, AlwaysCxxInv, PTL

(* Every element that is constructed is destroyed exactly once: the count  *)
(* of constructions less destructions is that of the elements which the    *)
(* containers hold, and a destroyed element is found only in a container   *)
(* that is being cleared, where no call looks at it again.                 *)
THEOREM ElementsDestroyedOnce == CxxSpec => []ElementsLiveOnce
<1>1. CxxInv => ElementsLiveOnce
  <2> SUFFICES ASSUME CxxInv PROVE ElementsLiveOnce
    OBVIOUS
  <2>1. living = Cardinality(Constructed)
    BY DEF CxxInv, ElementsOK, CountOK, Made, Constructed
  <2>2. ASSUME NEW h \in DOMAIN heap, NEW i \in DOMAIN heap[h].slots, IsRaw(heap[h].slots[i])
        PROVE  call.stage = "clear" /\ h = Mine /\ i < call.at
    <3>1. Clearing /\ h = Mine
      BY <2>2 DEF CxxInv, ElementsOK, HeapOK, Whole
    <3>2. PartlyCleared(heap[h].slots, call.at)
      BY <3>1 DEF CxxInv, ElementsOK, CallOK
    <3> QED BY <2>2, <3>1, <3>2 DEF PartlyCleared, Clearing
  <2> QED BY <2>1, <2>2 DEF ElementsLiveOnce
<1> QED BY <1>1, AlwaysCxxInv, PTL

(* An iterator that was not invalidated points to an entry of a container  *)
(* that exists, and what an iterator of a map shows is that entry.         *)
THEOREM IteratorsShowEntries == CxxSpec => []AdapterShowsEntry
<1>1. CxxInv => AdapterShowsEntry
  <2> SUFFICES ASSUME CxxInv, iterator # NULL, iterator.key # NULL
               PROVE  /\ iterator.container \in DOMAIN heap
                      /\ iterator.key \in KeysOf(heap[iterator.container].slots)
                      /\ kind = "map" =>
                           /\ iterator.adapter \in Range(heap[iterator.container].slots)
                           /\ iterator.adapter.key = iterator.key
    BY DEF AdapterShowsEntry
  <2>1. /\ iterator.container \in DOMAIN heap
        /\ \E x \in Range(heap[iterator.container].slots) : Shows(x)
    BY DEF CxxInv, ElementsOK, IteratorOK
  <2>2. PICK x \in Range(heap[iterator.container].slots) : Shows(x)
    BY <2>1
  <2>3. x.key \in KeysOf(heap[iterator.container].slots)
    BY DEF Range, KeysOf
  <2> QED BY <2>1, <2>2, <2>3 DEF Shows
<1> QED BY <1>1, AlwaysCxxInv, PTL

(* A program that moves no object to itself, and pushes no element of a    *)
(* full vector to the vector itself, never destroys an element twice,      *)
(* reads one that is not constructed or is released, or uses a freed       *)
(* container, and the assertions in the copy loops of maps and sets always *)
(* hold.                                                                   *)
THEOREM NoUndefinedBehaviour ==
  ASSUME SelfMove = FALSE, OwnPushWhenFull = FALSE
  PROVE  CxxSpec => []NothingUndefined
<1>1. CxxInv => NothingUndefined
  BY DEF CxxInv, ElementsOK, StatusOK, NothingUndefined
<1> QED BY <1>1, AlwaysCxxInv, PTL

-----------------------------------------------------------------------------
(* The refinement: to a program that moves no object to itself and pushes  *)
(* no element of a full vector to the vector itself, objects are values.   *)

(* What an object is to a program.                                         *)
LEMMA ObjectIs ==
  ASSUME CxxInv, NEW o \in Objects
  PROVE  /\ handle[o] \in Null => ObjectOf(o) = [packet |-> handle[o], items |-> NULL]
         /\ handle[o] \notin Null =>
              /\ heap[handle[o]].packet \in Promised!Packets
              /\ ObjectOf(o) =
                   [packet |-> heap[handle[o]].packet,
                    items  |-> IF call.self = o THEN NULL ELSE heap[handle[o]].slots]
<1>1. CASE handle[o] \in Null
  BY <1>1 DEF ObjectOf, Initialized, Null
<1>2. CASE handle[o] \notin Null
  <2>1. handle[o] \in DOMAIN heap /\ heap[handle[o]].packet \in {STD, CUSTOM_CMAGIC}
    BY <1>2, ContainersOfObjects DEF ContainerOK
  <2>2. heap[handle[o]].packet \in Promised!Packets
    BY <2>1 DEF Promised!Packets, STD, CUSTOM_CMAGIC
  <2> QED BY <1>2, <2>1, <2>2 DEF ObjectOf, Initialized, Null
<1> QED BY <1>1, <1>2

(* An object stays what it is while it keeps its container, nobody changes *)
(* that, and no call on the object begins or ends.                         *)
LEMMA ObjectStays ==
  ASSUME CxxInv, CxxInv', NEW o \in Objects, handle'[o] = handle[o],
         handle[o] \notin Null => heap'[handle[o]] = heap[handle[o]],
         call'.self = o <=> call.self = o
  PROVE  ObjectOf(o)' = ObjectOf(o)
<1>1. CASE handle[o] \in Null
  <2>1. ObjectOf(o) = [packet |-> handle[o], items |-> NULL]
    BY <1>1, ObjectIs
  <2>2. ObjectOf(o)' = [packet |-> handle'[o], items |-> NULL]
    BY <1>1 DEF ObjectOf, Initialized, Null
  <2> QED BY <2>1, <2>2
<1>2. CASE handle[o] \notin Null
  <2>1. handle'[o] \in DOMAIN heap'
    BY <1>2 DEF CxxInv, IInv, Owns
  <2>2. handle[o] \in DOMAIN heap
    BY <1>2, ContainersOfObjects
  <2> QED BY <1>2, <2>1, <2>2 DEF ObjectOf, Initialized, Null
<1> QED BY <1>1, <1>2

(* When the others stay what they are, one object becomes something else.  *)
LEMMA OneBecomes ==
  ASSUME NEW o \in Objects, NEW v, ObjectOf(o)' = v,
         \A p \in Objects \ {o} : ObjectOf(p)' = ObjectOf(p)
  PROVE  AllObjects' = [AllObjects EXCEPT ![o] = v]
<1>1. AllObjects' = [p \in Objects |-> ObjectOf(p)']
  BY DEF AllObjects
<1>2. \A p \in Objects : ObjectOf(p)' = IF p = o THEN v ELSE ObjectOf(p)
  OBVIOUS
<1> QED BY <1>1, <1>2 DEF AllObjects

(* A step on the container of one object, which keeps it.  While a call    *)
(* works on the object, its items are not to be seen.                      *)
LEMMA OwnTouched ==
  ASSUME CxxInv, CxxInv', NEW o \in Objects, handle[o] \notin Null, handle' = handle,
         Touches(handle[o]), heap'[handle[o]].packet = heap[handle[o]].packet,
         call.self \in {NULL, o}, call'.self \in {NULL, o}
  PROVE  AllObjects' = [AllObjects EXCEPT ![o].items =
                          IF call'.self = o THEN NULL ELSE heap'[handle[o]].slots]
<1> DEFINE items == IF call'.self = o THEN NULL ELSE heap'[handle[o]].slots
           v == [packet |-> heap[handle[o]].packet, items |-> items]
<1>1. ObjectOf(o)' = v
  <2>1. handle'[o] \in DOMAIN heap'
    BY DEF CxxInv, IInv, Owns
  <2> QED BY <2>1 DEF ObjectOf, Initialized, Null
<1>2. ASSUME NEW p \in Objects \ {o} PROVE ObjectOf(p)' = ObjectOf(p)
  <2>1. handle[p] \notin Null => heap'[handle[p]] = heap[handle[p]]
    <3>1. handle[p] \notin Null => handle[p] # handle[o] /\ handle[p] \in DOMAIN heap
      BY ContainersOfObjects DEF CxxInv, IInv, Owns
    <3> QED BY <3>1 DEF Touches
  <2>2. ~(call'.self = p) /\ ~(call.self = p)
    BY CxxAssumption
  <2> QED BY <2>1, <2>2, ObjectStays
<1>3. AllObjects[o].packet = heap[handle[o]].packet /\ DOMAIN AllObjects[o] = {"packet", "items"}
      /\ AllObjects[o] = [packet |-> AllObjects[o].packet, items |-> AllObjects[o].items]
  BY ObjectIs DEF AllObjects
<1> HIDE DEF items
<1>4. [AllObjects EXCEPT ![o] = v] = [AllObjects EXCEPT ![o].items = items]
  <2>1. [AllObjects[o] EXCEPT !.items = items] = v
    BY <1>3
  <2> QED BY <2>1
<1> HIDE DEF v
<1>5. AllObjects' = [AllObjects EXCEPT ![o] = v]
  BY <1>1, <1>2, OneBecomes
<1> QED BY <1>4, <1>5 DEF items

(* A step on the container of the call in progress is not to be seen.      *)
LEMMA MineTouched ==
  ASSUME CxxInv, CxxInv', call.stage # "idle", handle' = handle, Touches(Mine),
         heap'[Mine].packet = heap[Mine].packet, call'.self = call.self
  PROVE  AllObjects' = AllObjects
<1> DEFINE o == call.self
<1>1. o \in Objects /\ handle[o] \notin Null /\ Mine = handle[o]
  BY InProgress DEF Mine
<1>2. AllObjects' = [AllObjects EXCEPT ![o].items = NULL]
  <2> DEFINE r == IF call'.self = o THEN NULL ELSE heap'[handle[o]].slots
  <2>1. AllObjects' = [AllObjects EXCEPT ![o].items = r]
    BY <1>1, OwnTouched
  <2>2. r = NULL
    OBVIOUS
  <2> HIDE DEF r
  <2> QED BY <2>1, <2>2
<1>3. AllObjects[o] = [packet |-> heap[handle[o]].packet, items |-> NULL]
  BY <1>1, ObjectIs DEF AllObjects
<1>4. [AllObjects EXCEPT ![o].items = NULL] = AllObjects
  BY <1>1, <1>3 DEF AllObjects
<1> QED BY <1>2, <1>4

(* A program's call on an object with a container, when none is in         *)
(* progress.                                                               *)
LEMMA CallsUsable ==
  ASSUME CxxInv, Ready, NEW o \in Objects, handle[o] \notin Null
  PROVE  /\ Promised!Usable(o) /\ PendingCall = Promised!Calm
         /\ handle[o] \in DOMAIN heap /\ ContainerOK(kind, heap[handle[o]])
         /\ Whole(kind, heap[handle[o]].slots)
         /\ AllObjects[o] = [packet |-> heap[handle[o]].packet, items |-> heap[handle[o]].slots]
<1>1. call = Idle /\ call.self = NULL /\ ~Clearing /\ PendingCall = Promised!Calm
  BY DEF Ready, Idle, Clearing, PendingCall, Promised!Calm
<1>2. AllObjects[o] = [packet |-> heap[handle[o]].packet, items |-> heap[handle[o]].slots]
  BY <1>1, ObjectIs, CxxAssumption DEF AllObjects
<1>3. Promised!Usable(o)
  <2>1. heap[handle[o]].packet \in Promised!Packets
    BY ObjectIs
  <2> QED BY <1>1, <1>2, <2>1 DEF Promised!Usable
<1> QED BY <1>1, <1>2, <1>3, ContainersOfObjects

(* Calls that work in several steps begin.                                 *)
LEMMA EnteringRefines ==
  ASSUME CxxInv, CxxInv', SelfMove = FALSE, NEW o \in Objects,
         \/ \E x \in Objects : copy_assign(o, x) \/ move_assign(o, x)
         \/ clear(o) \/ destroy(o)
  PROVE  /\ \/ Promised!Start("clear", o, NULL) \/ Promised!Start("destroy", o, NULL)
            \/ Promised!CopyToItself(o)
            \/ \E x \in Objects : Promised!Start("copy", o, x) \/ Promised!Start("move", o, x)
         /\ UNCHANGED kind
<1>1. Ready /\ handle[o] \notin Null /\ UNCHANGED <<kind, handle, heap>>
  BY DEF copy_assign, move_assign, clear, destroy, Unentered, Initialized, Null
<1>2. Promised!Usable(o) /\ handle[o] \in DOMAIN heap /\ call.self = NULL
      /\ PendingCall = Promised!Calm
  BY <1>1, CallsUsable DEF Ready, Idle
<1>3. ASSUME NEW op \in {"copy", "move", "clear", "destroy"}, NEW x,
             Enter(op, o, x), UNCHANGED last, op \in {"copy", "move"} => x # o /\ Promised!Usable(x)
      PROVE  Promised!Start(op, o, x)
  <2> DEFINE items == IF call'.self = o THEN NULL ELSE heap'[handle[o]].slots
  <2>1. call'.self = o /\ call'.op = op /\ call'.other = x
    BY <1>3 DEF Enter
  <2>2. AllObjects' = [AllObjects EXCEPT ![o].items = items]
    BY <1>1, <1>2, <2>1, OwnTouched DEF Touches
  <2>3. items = NULL
    BY <2>1
  <2> HIDE DEF items
  <2>4. PendingCall' = [op |-> op, self |-> o, other |-> x]
    BY <2>1 DEF PendingCall
  <2> QED BY <1>2, <1>3, <2>2, <2>3, <2>4 DEF Promised!Start, Promised!Begin
<1>4. ASSUME NEW x \in Objects, copy_assign(o, x) \/ move_assign(o, x)
      PROVE  \/ Promised!CopyToItself(o)
             \/ \E y \in Objects : Promised!Start("copy", o, y) \/ Promised!Start("move", o, y)
  <2>1. Promised!Usable(x)
    BY <1>1, <1>4, CallsUsable DEF copy_assign, move_assign, Initialized, Null
  <2>2. CASE copy_assign(o, x) /\ o = x
    <3>1. call' = call /\ heap' = heap /\ handle' = handle /\ Answer("copy", o, TRUE, FALSE)
      BY <2>2 DEF copy_assign, Unentered
    <3>2. PendingCall' = PendingCall
      BY <3>1 DEF PendingCall
    <3>3. \A p \in Objects : ObjectOf(p)' = ObjectOf(p)
      BY <3>1, ObjectStays
    <3>4. AllObjects' = AllObjects
      BY <3>3 DEF AllObjects
    <3> QED BY <1>2, <3>1, <3>2, <3>4 DEF Promised!CopyToItself, Promised!Said, Answer
  <2>3. CASE copy_assign(o, x) /\ o # x
    <3>1. Enter("copy", o, x) /\ UNCHANGED last
      BY <2>3 DEF copy_assign
    <3> QED BY <1>3, <2>1, <2>3, <3>1
  <2>4. CASE move_assign(o, x)
    <3>1. Enter("move", o, x) /\ UNCHANGED last /\ o # x
      BY <2>4 DEF move_assign
    <3> QED BY <1>3, <2>1, <3>1
  <2> QED BY <1>4, <2>2, <2>3, <2>4
<1>5. CASE clear(o)
  <2>1. Enter("clear", o, NULL) /\ UNCHANGED last
    BY <1>5 DEF clear
  <2> QED BY <1>1, <1>3, <2>1
<1>6. CASE destroy(o)
  <2>1. Enter("destroy", o, NULL) /\ UNCHANGED last
    BY <1>6 DEF destroy
  <2> QED BY <1>1, <1>3, <2>1
<1> QED BY <1>1, <1>4, <1>5, <1>6

-----------------------------------------------------------------------------
(* What adding and removing the last element do to a vector.               *)
LEMMA LastElementTouches ==
  ASSUME kind = "vector", NEW h \in DOMAIN heap, ContainerOK(kind, heap[h])
  PROVE  /\ heap[h].slots # <<>> /\ pop_last(h) =>
              /\ Touches(h) /\ heap'[h].packet = heap[h].packet
              /\ heap'[h].slots = Front(heap[h].slots)
         /\ \A item : push_back_template(h, item) =>
              /\ Touches(h) /\ heap'[h].packet = heap[h].packet
              /\ heap'[h].slots = Append(heap[h].slots, item)
<1>0. {"packet", "slots", "capacity", "address", "homes"} \subseteq DOMAIN heap[h]
  BY DEF ContainerOK
<1>1. ASSUME heap[h].slots # <<>>, pop_last(h)
      PROVE  /\ Touches(h) /\ heap'[h].packet = heap[h].packet
             /\ heap'[h].slots = Front(heap[h].slots)
  <2>1. PICK v \in popped(heap[h]) : heap' = [heap EXCEPT ![h] = v]
    BY <1>1 DEF pop_last
  <2>2. v.packet = heap[h].packet /\ v.slots = Front(heap[h].slots)
    BY <1>1, <2>1, PoppedIsOK
  <2> QED BY <2>1, <2>2 DEF Touches
<1>2. ASSUME NEW item, push_back_template(h, item)
      PROVE  /\ Touches(h) /\ heap'[h].packet = heap[h].packet
             /\ heap'[h].slots = Append(heap[h].slots, item)
  <2>1. PICK v \in allocate_back(heap[h]) :
          heap' = [heap EXCEPT ![h] =
                     [v EXCEPT !.slots = Append(@, item), !.homes = Append(@, v.address)]]
    BY <1>2 DEF push_back_template
  <2>2. v.packet = heap[h].packet /\ v.slots = heap[h].slots /\ DOMAIN v = DOMAIN heap[h]
    BY <2>1, AllocateBack
  <2> QED BY <1>0, <2>1, <2>2 DEF Touches
<1> QED BY <1>1, <1>2

(* What the iterations of loops do to the container.                       *)
LEMMA LoopsTouch ==
  ASSUME CxxInv, clear_vector \/ copy_push_back \/ clear_tree \/ copy_insert
  PROVE  Touches(Mine) /\ heap'[Mine].packet = heap[Mine].packet
<1> DEFINE h == Mine
<1>1. call.stage # "idle"
  BY DEF clear_vector, copy_push_back, clear_tree, copy_insert, Continues
<1>2. h \in DOMAIN heap /\ ContainerOK(kind, heap[h]) /\ {"packet", "slots"} \subseteq DOMAIN heap[h]
  BY <1>1, InProgress DEF ContainerOK
<1>3. CASE heap' = heap
  BY <1>2, <1>3 DEF Touches
<1>4. ASSUME kind = "vector", heap[h].slots # <<>>, pop_last(h)
      PROVE  Touches(h) /\ heap'[h].packet = heap[h].packet
  <2> HIDE DEF h
  <2> QED BY <1>2, <1>4, LastElementTouches
<1>5. ASSUME NEW item, kind = "vector", push_back_template(h, item)
      PROVE  Touches(h) /\ heap'[h].packet = heap[h].packet
  <2> HIDE DEF h
  <2> QED BY <1>2, <1>5, LastElementTouches
<1>6. ASSUME NEW s, heap' = [heap EXCEPT ![h].slots = s]
      PROVE  Touches(h) /\ heap'[h].packet = heap[h].packet
  <2> HIDE DEF h
  <2> QED BY <1>2, <1>6 DEF Touches
<1>7. CASE clear_vector
  BY <1>3, <1>4, <1>7 DEF clear_vector
<1>8. CASE copy_push_back
  BY <1>3, <1>5, <1>8 DEF copy_push_back, push_back_fails
<1>9. CASE clear_tree
  <2>1. \E s : heap' = [heap EXCEPT ![h].slots = s]
    <3> HIDE DEF h
    <3>1. CASE heap' = [heap EXCEPT ![h].slots[call.at] = Destroyed(@)]
      <4>1. heap' = [heap EXCEPT ![h].slots = [heap[h].slots EXCEPT ![call.at] = Destroyed(@)]]
        BY <3>1
      <4> QED BY <4>1
    <3>2. CASE heap' = [heap EXCEPT ![h].slots = <<>>]
      BY <3>2
    <3> QED BY <1>9, <3>1, <3>2 DEF clear_tree, h
  <2> QED BY <1>6, <2>1
<1>10. CASE copy_insert
  <2>1. heap' = heap \/ \E s : heap' = [heap EXCEPT ![h].slots = s]
    BY <1>10 DEF copy_insert, insert_template
  <2> QED BY <1>3, <1>6, <2>1
<1> QED BY <1>7, <1>8, <1>9, <1>10

(* A call's loops and their beginning are not to be seen.                  *)
LEMMA ContinuingStutters ==
  ASSUME CxxInv, CxxInv',
         clear_vector \/ copy_push_back \/ clear_tree \/ copy_insert \/ start_copying
  PROVE  UNCHANGED <<kind, AllObjects, PendingCall, last>>
<1>1. call.stage # "idle" /\ UNCHANGED <<kind, handle, last>>
  BY DEF clear_vector, copy_push_back, clear_tree, copy_insert, start_copying, Continues, Finished
<1>2. /\ call = [op |-> call.op, self |-> call.self, other |-> call.other,
                 stage |-> call.stage, at |-> call.at]
      /\ Mine \in DOMAIN heap
  BY <1>1, InProgress DEF CxxInv, IInv, CallSound, CallTyped
<1>3. call.stage = "copy" => call.op = "copy"
  BY CopySource
<1>4. \/ call' = call \/ \E stage : call' = [call EXCEPT !.stage = stage]
      \/ \E stage, at : call' = [call EXCEPT !.stage = stage, !.at = at]
      \/ \E at : call' = [call EXCEPT !.at = at]
      \/ /\ call.stage = "copy"
         /\ call' = [call EXCEPT !.op = "failed_copy", !.stage = "clear", !.at = 1]
  BY DEF clear_vector, copy_push_back, clear_tree, copy_insert, start_copying, Continues
<1>5. /\ call'.self = call.self /\ call'.other = call.other
      /\ call'.op = call.op \/ (call.op = "copy" /\ call'.op = "failed_copy")
  BY <1>2, <1>3, <1>4
<1>6. PendingCall' = PendingCall
  BY <1>5 DEF PendingCall
<1>7. Touches(Mine) /\ heap'[Mine].packet = heap[Mine].packet
  <2>1. CASE start_copying
    BY <1>2, <2>1 DEF start_copying, Touches
  <2> QED BY <2>1, LoopsTouch
<1>8. AllObjects' = AllObjects
  BY <1>1, <1>5, <1>7, MineTouched
<1> QED BY <1>1, <1>6, <1>8

(* The ends of clear() and of copies.                                      *)
LEMMA EndingRefines ==
  ASSUME CxxInv, CxxInv', finish_clear \/ finish_copy
  PROVE  (Promised!Cleared \/ Promised!Copied) /\ UNCHANGED kind
<1> DEFINE o == call.self
<1>1. /\ call.stage # "idle" /\ UNCHANGED <<kind, handle, heap>>
      /\ call' = Idle /\ Answer(call.op, o, TRUE, FALSE)
  BY DEF finish_clear, finish_copy, Continues, Finished, Return
<1>2. o \in Objects /\ handle[o] \notin Null /\ handle[o] \in DOMAIN heap /\ Mine = handle[o]
  BY <1>1, InProgress DEF Mine
<1>3. call'.self = NULL /\ PendingCall' = Promised!Calm
  BY <1>1 DEF Idle, PendingCall, Promised!Calm
<1>4. AllObjects' = [AllObjects EXCEPT ![o].items = heap[handle[o]].slots]
  <2> DEFINE items == IF call'.self = o THEN NULL ELSE heap'[handle[o]].slots
  <2>1. AllObjects' = [AllObjects EXCEPT ![o].items = items]
    BY <1>1, <1>2, <1>3, OwnTouched DEF Touches
  <2>2. items = heap[handle[o]].slots
    BY <1>1, <1>2, <1>3, CxxAssumption
  <2> HIDE DEF items
  <2> QED BY <2>1, <2>2
<1>5. CASE finish_clear
  <2>1. call.op = "clear" /\ call.stage = "cleared"
    BY <1>5 DEF finish_clear, Finished, Continues
  <2>2. heap[handle[o]].slots = <<>>
    BY <1>2, <2>1 DEF CxxInv, ElementsOK, CallOK
  <2>3. PendingCall.op = "clear" /\ PendingCall.self = o
    BY <2>1 DEF PendingCall
  <2> QED BY <1>1, <1>3, <1>4, <2>1, <2>2, <2>3
          DEF Promised!Cleared, Promised!End, Promised!Said, Answer
<1>6. CASE finish_copy
  <2> DEFINE source == Slots(call.other)
             s == heap[Mine].slots
  <2>1. call.stage = "copy" /\ call.at > Len(source)
    BY <1>6 DEF finish_copy, Continues
  <2>2. /\ call.other \in Objects /\ call.op = "copy" /\ handle[call.other] # Mine
        /\ source \in Seq(Items(kind)) /\ PartlyCopied(source, s, call.at)
    BY <2>1, CopySource
  <2>3. s \in Seq(Items(kind))
    BY <1>1, InProgress DEF ContainerOK
  <2> HIDE DEF source, s
  <2>4. source = s
    <3>1. Len(source) \in Nat /\ Len(s) \in Nat
      BY <2>2, <2>3, LenProperties
    <3>2. call.at = Len(source) + 1 /\ Len(s) = Len(source)
      BY <2>1, <2>2, <3>1 DEF PartlyCopied
    <3>3. \A i \in 1 .. Len(source) : s[i] = source[i]
      BY <2>2, <3>1, <3>2 DEF PartlyCopied
    <3> QED BY <2>2, <2>3, <3>2, <3>3, SeqEqual
  <2>5. call.other # o /\ handle[call.other] \notin Null
    BY <1>1, <1>2, <2>2, InProgress DEF OtherOK
  <2>6. AllObjects[call.other].items = source
    BY <2>2, <2>5, ObjectIs DEF AllObjects, Slots, source
  <2>7. PendingCall.op = "copy" /\ PendingCall.self = o /\ PendingCall.other = call.other
    BY <2>2 DEF PendingCall
  <2>8. heap[handle[o]].slots = AllObjects[PendingCall.other].items
    BY <1>2, <2>4, <2>6, <2>7 DEF s
  <2> QED BY <1>1, <1>3, <1>4, <2>2, <2>7, <2>8
          DEF Promised!Copied, Promised!End, Promised!Said, Answer
<1> QED BY <1>1, <1>5, <1>6

-----------------------------------------------------------------------------
(* Objects stay what they are when handles of others change, while their   *)
(* own containers are not touched.                                         *)
LEMMA OthersStay ==
  ASSUME CxxInv, CxxInv', NEW o \in Objects, NEW D \in SUBSET Objects, o \in D,
         \A p \in Objects \ D : handle'[p] = handle[p],
         \A g \in DOMAIN heap : g = handle[o] \/ heap'[g] = heap[g],
         call.self \in {NULL, o}, call'.self \in {NULL, o}
  PROVE  \A p \in Objects \ D : ObjectOf(p)' = ObjectOf(p)
<1>1. ASSUME NEW p \in Objects \ D PROVE ObjectOf(p)' = ObjectOf(p)
  <2>1. handle[p] \notin Null => heap'[handle[p]] = heap[handle[p]]
    <3>1. handle[p] \notin Null => handle[p] # handle[o] /\ handle[p] \in DOMAIN heap
      BY ContainersOfObjects DEF CxxInv, IInv, Owns
    <3> QED BY <3>1
  <2>2. ~(call'.self = p) /\ ~(call.self = p)
    BY CxxAssumption
  <2>3. handle'[p] = handle[p]
    OBVIOUS
  <2> QED BY <2>1, <2>2, <2>3, ObjectStays
<1> QED BY <1>1

(* The ends of failed copies and of destructors.                           *)
LEMMA ReleasingRefines ==
  ASSUME CxxInv, CxxInv', give_up_copy \/ finish_destroy
  PROVE  (Promised!CopyFailed \/ Promised!Destroyed) /\ UNCHANGED kind
<1>1. call.stage # "idle" /\ UNCHANGED kind /\ call' = Idle
  BY DEF give_up_copy, finish_destroy, Continues, Finished, Return, release
<1>2. PICK o \in Objects : o = call.self /\ handle[o] \notin Null /\ Mine = handle[o]
  BY <1>1, InProgress DEF Mine
<1>3. call'.self = NULL /\ PendingCall' = Promised!Calm
  BY <1>1 DEF Idle, PendingCall, Promised!Calm
<1>4. ASSUME NEW r \in Null, release(r)
      PROVE  AllObjects' = [AllObjects EXCEPT ![o] = [packet |-> r, items |-> NULL]]
  <2>1. handle' = [handle EXCEPT ![o] = r] /\ handle \in [Objects -> Handles \cup Null]
    BY <1>2, <1>4 DEF release, CxxInv, IInv, Owns
  <2>2. \A g \in DOMAIN heap : g = handle[o] \/ heap'[g] = heap[g]
    BY <1>2, <1>4 DEF release, Freed
  <2>3. \A p \in Objects \ {o} : ObjectOf(p)' = ObjectOf(p)
    <3> DEFINE D == {o}
    <3>1. D \in SUBSET Objects /\ o \in D /\ \A p \in Objects \ D : handle'[p] = handle[p]
      BY <1>2, <2>1
    <3> HIDE DEF D
    <3>2. \A p \in Objects \ D : ObjectOf(p)' = ObjectOf(p)
      BY <1>2, <1>3, <2>2, <3>1, OthersStay
    <3> QED BY <3>2 DEF D
  <2>4. ObjectOf(o)' = [packet |-> r, items |-> NULL]
    BY <1>2, <2>1 DEF ObjectOf, Initialized, Null
  <2> QED BY <1>2, <2>3, <2>4, OneBecomes
<1>5. CASE give_up_copy
  <2>1. call.op = "failed_copy" /\ release(NULL) /\ Answer("copy", o, FALSE, FALSE)
    BY <1>2, <1>5 DEF give_up_copy, Finished
  <2>2. AllObjects' = [AllObjects EXCEPT ![o] = Promised!Broken]
    BY <1>4, <2>1 DEF Null, Promised!Broken
  <2>3. PendingCall.op = "copy" /\ PendingCall.self = o
    BY <1>2, <2>1 DEF PendingCall
  <2> QED BY <1>1, <1>3, <2>1, <2>2, <2>3
          DEF Promised!CopyFailed, Promised!End, Promised!Said, Answer
<1>6. CASE finish_destroy
  <2>1. call.op = "destroy" /\ release(NONE) /\ Answer("destroy", o, TRUE, FALSE)
    BY <1>2, <1>6 DEF finish_destroy, Finished, Return
  <2>2. AllObjects' = [AllObjects EXCEPT ![o] = Promised!Nothing]
    BY <1>4, <2>1 DEF Null, Promised!Nothing
  <2>3. PendingCall.op = "destroy" /\ PendingCall.self = o
    BY <1>2, <2>1 DEF PendingCall
  <2> QED BY <1>1, <1>3, <2>1, <2>2, <2>3
          DEF Promised!Destroyed, Promised!End, Promised!Said, Answer
<1> QED BY <1>1, <1>5, <1>6

(* One object takes over the container of another one.                     *)
LEMMA TakingRefines ==
  ASSUME CxxInv, CxxInv', NEW o \in Objects, NEW x \in Objects, o # x,
         handle[x] \notin Null, NEW h, handle[x] \in DOMAIN h,
         \A g \in DOMAIN h : g \in DOMAIN heap /\ h[g] = heap[g],
         \A g \in DOMAIN heap : g = handle[o] \/ g \in DOMAIN h,
         take_over(o, x, h), call.self \in {NULL, o}, call'.self = NULL
  PROVE  Promised!Taken(o, x)
<1> DEFINE packet == h[handle[x]].packet
<1>1. PICK new \in New(packet, h) :
        handle' = [handle EXCEPT ![o] = handle[x], ![x] = new.handle] /\ heap' = new.heap
  BY DEF take_over
<1>2. packet = heap[handle[x]].packet /\ packet \in {STD, CUSTOM_CMAGIC} /\ kind \in Kinds
  BY ContainersOfObjects DEF ContainerOK, CxxInv, ElementsOK
<1>3. AllObjects[x] = [packet |-> packet, items |-> heap[handle[x]].slots]
  BY <1>2, ObjectIs, CxxAssumption DEF AllObjects
<1> HIDE DEF packet
<1>4. /\ \A g \in DOMAIN h : g \in DOMAIN heap' /\ heap'[g] = h[g]
      /\ new.handle # NULL =>
           /\ new.handle \in Handles /\ new.handle \in DOMAIN heap'
           /\ heap'[new.handle].slots = <<>> /\ heap'[new.handle].packet = packet
  BY <1>1, <1>2, NewIsEmpty
<1>5. handle \in [Objects -> Handles \cup Null]
  BY DEF CxxInv, IInv, Owns
<1>6. /\ handle'[o] = handle[x] /\ handle'[x] = new.handle
      /\ \A p \in Objects \ {o, x} : handle'[p] = handle[p]
  BY <1>1, <1>5
<1>7. \A p \in Objects \ {o, x} : ObjectOf(p)' = ObjectOf(p)
  <2> DEFINE D == {o, x}
  <2>1. D \in SUBSET Objects /\ o \in D /\ \A p \in Objects \ D : handle'[p] = handle[p]
    BY <1>6
  <2>2. \A g \in DOMAIN heap : g = handle[o] \/ heap'[g] = heap[g]
    BY <1>4
  <2> HIDE DEF D
  <2>3. \A p \in Objects \ D : ObjectOf(p)' = ObjectOf(p)
    BY <2>1, <2>2, OthersStay
  <2> QED BY <2>3 DEF D
<1>8. ObjectOf(o)' = AllObjects[x]
  <2>1. handle'[o] \in DOMAIN heap' /\ heap'[handle'[o]] = heap[handle[x]] /\ ~(call'.self = o)
    BY <1>4, <1>6, CxxAssumption
  <2> QED BY <1>2, <1>3, <1>6, <2>1 DEF ObjectOf, Initialized, Null
<1>9. ObjectOf(x)' \in {Promised!Empty(packet), Promised!Broken}
  <2>1. CASE new.handle = NULL
    BY <1>6, <2>1 DEF ObjectOf, Initialized, Promised!Broken
  <2>2. CASE new.handle # NULL
    <3>1. new.handle # NONE
      BY <1>4, <2>2, CxxAssumption
    <3>2. ~(call'.self = x)
      BY CxxAssumption
    <3> QED BY <1>4, <1>6, <2>2, <3>1, <3>2 DEF ObjectOf, Initialized, Promised!Empty
  <2> QED BY <2>1, <2>2
<1>10. AllObjects' = [AllObjects EXCEPT ![o] = AllObjects[x], ![x] = ObjectOf(x)']
  <2> DEFINE v == AllObjects[x]
             w == ObjectOf(x)'
  <2>1. AllObjects' = [p \in Objects |-> ObjectOf(p)']
    BY DEF AllObjects
  <2>2. ObjectOf(o)' = v /\ ObjectOf(x)' = w
    BY <1>8
  <2> HIDE DEF v, w
  <2>3. \A p \in Objects : ObjectOf(p)' = IF p = x THEN w ELSE IF p = o THEN v ELSE ObjectOf(p)
    BY <1>7, <2>2
  <2>4. AllObjects' = [AllObjects EXCEPT ![o] = v, ![x] = w]
    BY <2>1, <2>3 DEF AllObjects
  <2> QED BY <2>4 DEF v, w
<1>11. PICK rest \in {Promised!Empty(packet), Promised!Broken} : ObjectOf(x)' = rest
  BY <1>9
<1>12. AllObjects' = [AllObjects EXCEPT ![o] = AllObjects[x], ![x] = rest]
  BY <1>10, <1>11
<1>13. rest \in {Promised!Empty(AllObjects[x].packet), Promised!Broken}
  BY <1>3, <1>11
<1> QED BY <1>12, <1>13 DEF Promised!Taken

(* The end of a move.  The two objects are not the same one, so that the   *)
(* container of the other one is still there.                              *)
LEMMA MovingRefines ==
  ASSUME CxxInv, CxxInv', SelfMove = FALSE, finish_move
  PROVE  Promised!Moved /\ UNCHANGED kind
<1> DEFINE rest == Freed(heap, Mine)
<1>1. call.stage = "cleared" /\ call.op = "move" /\ UNCHANGED kind
  BY DEF finish_move, Finished, Continues
<1>2. PICK o \in Objects : o = call.self /\ handle[o] \notin Null /\ Mine = handle[o]
  BY <1>1, InProgress DEF Mine
<1>3. PICK x \in Objects : x = call.other /\ handle[x] \notin Null /\ o # x
  BY <1>1, <1>2, InProgress DEF OtherOK
<1>4. DOMAIN rest = DOMAIN heap \ {handle[o]} /\ \A g \in DOMAIN rest : rest[g] = heap[g]
  BY <1>2 DEF Freed
<1>5. handle[x] \in DOMAIN rest
  <2>1. handle[x] \in DOMAIN heap /\ handle[x] # handle[o]
    BY <1>3, ContainersOfObjects DEF CxxInv, IInv, Owns
  <2> QED BY <1>4, <2>1
<1>6. take_over(o, x, rest) /\ call' = Idle /\ Answer("move", o, TRUE, FALSE)
  BY <1>1, <1>2, <1>3, <1>5 DEF finish_move, Return
<1>7. call'.self = NULL /\ PendingCall' = Promised!Calm
  BY <1>6 DEF Idle, PendingCall, Promised!Calm
<1>8. PendingCall.op = "move" /\ PendingCall.self = o /\ PendingCall.other = x
  BY <1>1, <1>2, <1>3 DEF PendingCall
<1>9. Promised!Taken(o, x)
  <2> HIDE DEF rest
  <2>1. /\ \A g \in DOMAIN rest : g \in DOMAIN heap /\ rest[g] = heap[g]
        /\ \A g \in DOMAIN heap : g = handle[o] \/ g \in DOMAIN rest
    BY <1>4
  <2> QED BY <1>2, <1>3, <1>5, <1>6, <1>7, <2>1, TakingRefines
<1> QED BY <1>1, <1>6, <1>7, <1>8, <1>9 DEF Promised!Moved, Promised!End, Promised!Said, Answer

(* An object receives what an allocation answered.                         *)
LEMMA ReceivingRefines ==
  ASSUME CxxInv, CxxInv', Ready, NEW o \in Objects, handle[o] \in Null,
         NEW packet \in {STD, CUSTOM_CMAGIC}, NEW new \in New(packet, heap),
         handle' = [handle EXCEPT ![o] = new.handle], heap' = new.heap,
         call'.self \in {NULL, o}
  PROVE  /\ new.handle = NULL => AllObjects' = [AllObjects EXCEPT ![o] = Promised!Broken]
         /\ new.handle # NULL =>
              AllObjects' = [AllObjects EXCEPT ![o] =
                [packet |-> packet, items |-> IF call'.self = o THEN NULL ELSE <<>>]]
<1>1. call.self = NULL /\ kind \in Kinds /\ handle \in [Objects -> Handles \cup Null]
  BY DEF Ready, Idle, CxxInv, ElementsOK, IInv, Owns
<1>2. /\ \A g \in DOMAIN heap : heap'[g] = heap[g]
      /\ new.handle # NULL =>
           /\ new.handle \in Handles /\ new.handle \in DOMAIN heap'
           /\ heap'[new.handle].slots = <<>> /\ heap'[new.handle].packet = packet
  BY <1>1, NewIsEmpty
<1>3. handle'[o] = new.handle
  BY <1>1
<1>4. \A p \in Objects \ {o} : ObjectOf(p)' = ObjectOf(p)
  <2> DEFINE D == {o}
  <2>1. D \in SUBSET Objects /\ o \in D /\ \A p \in Objects \ D : handle'[p] = handle[p]
    BY <1>1
  <2> HIDE DEF D
  <2>2. \A p \in Objects \ D : ObjectOf(p)' = ObjectOf(p)
    BY <1>1, <1>2, <2>1, OthersStay
  <2> QED BY <2>2 DEF D
<1>5. ASSUME new.handle = NULL PROVE AllObjects' = [AllObjects EXCEPT ![o] = Promised!Broken]
  <2>1. ObjectOf(o)' = Promised!Broken
    BY <1>3, <1>5 DEF ObjectOf, Initialized, Promised!Broken
  <2> QED BY <1>4, <2>1, OneBecomes
<1>6. ASSUME new.handle # NULL
      PROVE  AllObjects' = [AllObjects EXCEPT ![o] =
               [packet |-> packet, items |-> IF call'.self = o THEN NULL ELSE <<>>]]
  <2> DEFINE v == [packet |-> packet, items |-> IF call'.self = o THEN NULL ELSE <<>>]
  <2>1. new.handle # NONE
    BY <1>2, <1>6, CxxAssumption
  <2>2. ObjectOf(o)' = v
    BY <1>2, <1>3, <1>6, <2>1 DEF ObjectOf, Initialized
  <2> HIDE DEF v
  <2>3. AllObjects' = [AllObjects EXCEPT ![o] = v]
    BY <1>4, <2>2, OneBecomes
  <2> QED BY <2>3 DEF v
<1> QED BY <1>5, <1>6

(* Constructors, and the destructor of an object without a container.      *)
LEMMA CreatingRefines ==
  ASSUME CxxInv, CxxInv', NEW o \in Objects,
         \/ \E packet \in {STD, CUSTOM_CMAGIC} : default_construct(o, packet)
         \/ \E x \in Objects : copy_construct(o, x) \/ move_construct(o, x)
         \/ destroy_uninitialized(o)
  PROVE  /\ \/ \E packet \in Promised!Packets : Promised!Create(o, packet)
            \/ \E x \in Objects : \/ Promised!StartCopyConstruction(o, x)
                                  \/ Promised!MoveConstruction(o, x)
            \/ Promised!Destroyed
         /\ UNCHANGED kind
<1>1. Ready /\ handle[o] \in Null /\ UNCHANGED kind
  BY DEF default_construct, copy_construct, move_construct, destroy_uninitialized,
         Constructing, Null
<1>2. call = Idle /\ call.self = NULL /\ PendingCall = Promised!Calm
  BY <1>1 DEF Ready, Idle, PendingCall, Promised!Calm
<1>3. handle[o] = NONE => AllObjects[o] = Promised!Nothing
  BY <1>1, ObjectIs DEF AllObjects, Promised!Nothing
<1>4. ASSUME NEW packet \in {STD, CUSTOM_CMAGIC}, default_construct(o, packet)
      PROVE  packet \in Promised!Packets /\ Promised!Create(o, packet)
  <2>1. PICK new \in New(packet, heap) :
          /\ handle' = [handle EXCEPT ![o] = new.handle] /\ heap' = new.heap
          /\ Answer("create", o, new.handle # NULL, FALSE)
    BY <1>4 DEF default_construct
  <2>2. handle[o] = NONE /\ call' = call /\ PendingCall' = PendingCall
    BY <1>4 DEF default_construct, Constructing, PendingCall
  <2>3. ~(call'.self = o)
    BY <1>2, <2>2, CxxAssumption
  <2>4. /\ new.handle = NULL => AllObjects' = [AllObjects EXCEPT ![o] = Promised!Broken]
        /\ new.handle # NULL =>
             AllObjects' = [AllObjects EXCEPT ![o] =
               [packet |-> packet, items |-> IF call'.self = o THEN NULL ELSE <<>>]]
    BY <1>1, <1>2, <2>1, <2>2, ReceivingRefines
  <2>5. new.handle # NULL => AllObjects' = [AllObjects EXCEPT ![o] = Promised!Empty(packet)]
    BY <2>3, <2>4 DEF Promised!Empty
  <2>6. CASE new.handle = NULL
    BY <1>2, <1>3, <2>1, <2>2, <2>4, <2>6
       DEF Promised!Create, Promised!Packets, Promised!Said, Answer, STD, CUSTOM_CMAGIC
  <2>7. CASE new.handle # NULL
    BY <1>2, <1>3, <2>1, <2>2, <2>5, <2>7
       DEF Promised!Create, Promised!Packets, Promised!Said, Answer, STD, CUSTOM_CMAGIC
  <2> QED BY <2>6, <2>7
<1>5. ASSUME NEW x \in Objects, copy_construct(o, x) PROVE Promised!StartCopyConstruction(o, x)
  <2> DEFINE packet == heap[handle[x]].packet
  <2>1. handle[o] = NONE /\ handle[x] \notin Null
    BY <1>5 DEF copy_construct, Constructing, Initialized, Null
  <2>2. /\ packet \in {STD, CUSTOM_CMAGIC} /\ Promised!Usable(x)
        /\ AllObjects[x] = [packet |-> packet, items |-> heap[handle[x]].slots]
    BY <1>1, <2>1, CallsUsable DEF ContainerOK
  <2>3. PICK new \in New(packet, heap) :
          /\ handle' = [handle EXCEPT ![o] = new.handle] /\ heap' = new.heap
          /\ IF new.handle = NULL
             THEN Answer("copy", o, FALSE, FALSE) /\ UNCHANGED call
             ELSE Enter("copy", o, x) /\ UNCHANGED last
    BY <1>5 DEF copy_construct
  <2> HIDE DEF packet
  <2>4. CASE new.handle = NULL
    <3>1. call' = call /\ PendingCall' = PendingCall /\ Answer("copy", o, FALSE, FALSE)
      BY <2>3, <2>4 DEF PendingCall
    <3>2. AllObjects' = [AllObjects EXCEPT ![o] = Promised!Broken]
      BY <1>1, <1>2, <2>2, <2>3, <2>4, <3>1, ReceivingRefines
    <3> QED BY <1>3, <2>1, <2>2, <3>1, <3>2
            DEF Promised!StartCopyConstruction, Promised!Said, Answer
  <2>5. CASE new.handle # NULL
    <3>1. call'.self = o /\ PendingCall' = [op |-> "copy", self |-> o, other |-> x]
          /\ UNCHANGED last
      BY <2>3, <2>5 DEF Enter, PendingCall
    <3>2. AllObjects' = [AllObjects EXCEPT ![o] =
            [packet |-> packet, items |-> IF call'.self = o THEN NULL ELSE <<>>]]
      BY <1>1, <1>2, <2>2, <2>3, <2>5, <3>1, ReceivingRefines
    <3>3. [AllObjects[x] EXCEPT !.items = NULL] = [packet |-> packet, items |-> NULL]
      BY <2>2
    <3>4. AllObjects' = [AllObjects EXCEPT ![o] = [AllObjects[x] EXCEPT !.items = NULL]]
      BY <3>1, <3>2, <3>3
    <3> QED BY <1>3, <2>1, <2>2, <3>1, <3>4
            DEF Promised!StartCopyConstruction, Promised!Begin
  <2> QED BY <2>4, <2>5
<1>6. ASSUME NEW x \in Objects, move_construct(o, x) PROVE Promised!MoveConstruction(o, x)
  <2>1. /\ handle[o] = NONE /\ handle[x] \notin Null /\ o # x
        /\ take_over(o, x, heap) /\ call' = call /\ Answer("move", o, TRUE, FALSE)
    BY <1>6 DEF move_construct, Constructing, Initialized, Null
  <2>2. Promised!Usable(x) /\ handle[x] \in DOMAIN heap
    BY <1>1, <2>1, CallsUsable
  <2>3. Promised!Taken(o, x)
    BY <1>2, <2>1, <2>2, TakingRefines
  <2>4. PendingCall' = PendingCall
    BY <2>1 DEF PendingCall
  <2> QED BY <1>3, <2>1, <2>2, <2>3, <2>4 DEF Promised!MoveConstruction, Promised!Said, Answer
<1>7. CASE destroy_uninitialized(o)
  <2>1. /\ handle[o] = NULL /\ handle' = [handle EXCEPT ![o] = NONE]
        /\ heap' = heap /\ call' = call /\ Answer("destroy", o, TRUE, FALSE)
    BY <1>7 DEF destroy_uninitialized
  <2>2. handle'[o] = NONE /\ \A p \in Objects \ {o} : handle'[p] = handle[p]
    BY <2>1 DEF CxxInv, IInv, Owns
  <2>3. \A p \in Objects \ {o} : ObjectOf(p)' = ObjectOf(p)
    BY <2>1, <2>2, ObjectStays
  <2>4. ObjectOf(o)' = Promised!Nothing
    BY <2>2 DEF ObjectOf, Initialized, Promised!Nothing
  <2>5. AllObjects' = [AllObjects EXCEPT ![o] = Promised!Nothing]
    BY <2>3, <2>4, OneBecomes
  <2>6. AllObjects[o] = Promised!Broken
    BY <1>1, <2>1, ObjectIs DEF AllObjects, Promised!Broken
  <2>7. PendingCall' = PendingCall
    BY <2>1 DEF PendingCall
  <2>8. Promised!Said("destroy", o, TRUE, FALSE)
    BY <2>1 DEF Promised!Said, Answer
  <2>9. Promised!Destroyed
    BY <1>2, <2>5, <2>6, <2>7, <2>8 DEF Promised!Destroyed
  <2> QED BY <1>1, <2>9
<1> QED BY <1>1, <1>4, <1>5, <1>6, <1>7

-----------------------------------------------------------------------------
(* A program's call on the elements of one object, which keeps its         *)
(* container.                                                              *)
LEMMA OwnBecomes ==
  ASSUME CxxInv, CxxInv', Ready, NEW o \in Objects, handle[o] \notin Null,
         UNCHANGED <<handle, call>>, Touches(handle[o]),
         heap'[handle[o]].packet = heap[handle[o]].packet
  PROVE  Promised!Becomes(o, heap'[handle[o]].slots)
<1> DEFINE items == IF call'.self = o THEN NULL ELSE heap'[handle[o]].slots
<1>1. call.self = NULL /\ call'.self = NULL
  BY DEF Ready, Idle
<1>2. AllObjects' = [AllObjects EXCEPT ![o].items = items]
  BY <1>1, OwnTouched
<1>3. items = heap'[handle[o]].slots
  BY <1>1, CxxAssumption
<1> HIDE DEF items
<1>4. PendingCall' = PendingCall
  BY DEF PendingCall
<1> QED BY <1>2, <1>3, <1>4, CallsUsable DEF Promised!Becomes

(* The parts of an argument tell to which template it belongs.             *)
LEMMA ArgumentOfKind ==
  ASSUME kind \in Kinds, NEW item \in AllItems, IsItem(item)
  PROVE  /\ kind = "vector" => item \in [value : Values]
         /\ kind = "map" => item \in [key : Keys, value : Values]
         /\ kind = "set" => item \in [key : Keys]
<1>1. DOMAIN item = PartsOf(kind) /\ "key" # "value"
  BY PartsFacts DEF IsItem
<1>2. CASE item \in [value : Values]
  <2>1. DOMAIN item = {"value"}
    BY <1>2
  <2> QED BY <1>1, <1>2, <2>1 DEF PartsOf
<1>3. CASE item \in [key : Keys, value : Values]
  <2>1. DOMAIN item = {"key", "value"}
    BY <1>3
  <2> QED BY <1>1, <1>3, <2>1 DEF PartsOf
<1>4. CASE item \in [key : Keys]
  <2>1. DOMAIN item = {"key"}
    BY <1>4
  <2> QED BY <1>1, <1>4, <2>1 DEF PartsOf
<1> QED BY <1>2, <1>3, <1>4 DEF AllItems

(* A program's calls that change elements of a vector.                     *)
LEMMA VectorRefines ==
  ASSUME CxxInv, CxxInv', NEW o \in Objects,
         \/ \E item \in AllItems : \E argument : push_back(o, item, argument)
         \/ \E item \in AllItems : \E pos : subscript(o, pos, item)
         \/ pop_back(o)
  PROVE  Promised!Usable(o) /\ (Promised!Add(o) \/ Promised!Change(o)) /\ UNCHANGED kind
<1> DEFINE h == handle[o]
           s == heap[h].slots
<1>1. Ready /\ kind = "vector" /\ handle[o] \notin Null /\ UNCHANGED <<kind, handle, call>>
  BY DEF push_back, subscript, pop_back, Initialized, Null
<1>2. /\ Promised!Usable(o) /\ h \in DOMAIN heap /\ ContainerOK(kind, heap[h])
      /\ AllObjects[o].items = s
      /\ {"packet", "slots"} \subseteq DOMAIN heap[h]
  <2>1. /\ Promised!Usable(o) /\ h \in DOMAIN heap /\ ContainerOK(kind, heap[h])
        /\ AllObjects[o] = [packet |-> heap[h].packet, items |-> s]
    BY <1>1, CallsUsable
  <2> QED BY <2>1 DEF ContainerOK
<1>3. ASSUME Touches(h), heap'[h].packet = heap[h].packet
      PROVE  Promised!Becomes(o, heap'[h].slots)
  BY <1>1, <1>3, OwnBecomes
<1> HIDE DEF h
<1>4. ASSUME NEW item \in AllItems, NEW argument, push_back(o, item, argument)
      PROVE  Promised!Add(o)
  <2>1. item \in [value : Values]
    BY <1>1, <1>4, ArgumentOfKind DEF push_back, CxxInv, ElementsOK
  <2> DEFINE rvalue == argument = "&&"
  <2>2. rvalue \in BOOLEAN
    OBVIOUS
  <2>3. CASE push_back_template(h, item) /\ Answer("push_back", o, TRUE, rvalue)
    <3>1. Promised!Becomes(o, Append(s, item))
      BY <1>1, <1>2, <1>3, <2>3, LastElementTouches
    <3>2. Promised!PushBack(o, item, rvalue)
      BY <1>2, <2>3, <3>1 DEF Promised!PushBack, Promised!Said, Answer
    <3> HIDE DEF rvalue
    <3> QED BY <1>1, <2>1, <2>2, <3>2 DEF Promised!Add
  <2>4. CASE push_back_fails(h) /\ Answer("push_back", o, FALSE, FALSE)
    <3>1. heap' = heap
      BY <2>4 DEF push_back_fails
    <3>2. Promised!Becomes(o, s)
      BY <1>2, <1>3, <3>1 DEF Touches
    <3>3. Promised!PushBack(o, item, rvalue)
      BY <1>2, <2>4, <3>2 DEF Promised!PushBack, Promised!Said, Answer
    <3> HIDE DEF rvalue
    <3> QED BY <1>1, <2>1, <2>2, <3>3 DEF Promised!Add
  <2> QED BY <1>4, <2>3, <2>4 DEF push_back, h
<1>5. ASSUME NEW item \in AllItems, NEW pos, subscript(o, pos, item) PROVE Promised!Change(o)
  <2>1. item \in [value : Values] /\ pos \in DOMAIN s
    BY <1>1, <1>5, ArgumentOfKind DEF subscript, CxxInv, ElementsOK, Slots, h
  <2>2. heap' = [heap EXCEPT ![h].slots = [s EXCEPT ![pos] = item]]
    BY <1>5 DEF subscript, h
  <2>3. Touches(h) /\ heap'[h].packet = heap[h].packet /\ heap'[h].slots = [s EXCEPT ![pos] = item]
    BY <1>2, <2>2 DEF Touches
  <2>4. Promised!Becomes(o, [s EXCEPT ![pos] = item])
    BY <1>3, <2>3
  <2>5. Answer("assign", o, TRUE, FALSE)
    BY <1>5 DEF subscript
  <2>6. Promised!Assign(o, pos, item)
    BY <1>2, <2>4, <2>5 DEF Promised!Assign, Promised!Said, Answer
  <2> QED BY <1>1, <1>2, <2>1, <2>6 DEF Promised!Change
<1>6. CASE pop_back(o)
  <2>1. s # <<>> /\ pop_last(h) /\ Answer("pop_back", o, TRUE, FALSE)
    BY <1>6 DEF pop_back, Slots, h
  <2>2. Promised!Becomes(o, Front(s))
    BY <1>1, <1>2, <1>3, <2>1, LastElementTouches
  <2>3. Promised!PopBack(o)
    BY <1>2, <2>1, <2>2 DEF Promised!PopBack, Promised!Said, Answer, Front, Promised!Front
  <2> QED BY <1>1, <1>2, <2>1, <2>3 DEF Promised!Change
<1> QED BY <1>1, <1>2, <1>4, <1>5, <1>6

-----------------------------------------------------------------------------
(* Entries in the order of their keys are determined by what they are.     *)
LEMMA SameEntries ==
  ASSUME NEW s, NEW t, NEW n \in Nat, DOMAIN s = 1 .. n, DOMAIN t = 1 .. n,
         Ordered(s), Ordered(t), Range(s) = Range(t),
         \A i \in DOMAIN s : s[i].key \in Int, \A i \in DOMAIN t : t[i].key \in Int
  PROVE  \A i \in 1 .. n : s[i] = t[i]
<1>1. KeysOf(s) = KeysOf(t)
  <2>1. KeysOf(s) = {x.key : x \in Range(s)} /\ KeysOf(t) = {x.key : x \in Range(t)}
    BY DEF KeysOf, Range
  <2> QED BY <2>1
<1>2. \A key : Position(s, key) = Position(t, key)
  BY <1>1 DEF Position
<1>3. ASSUME NEW i \in 1 .. n PROVE s[i] = t[i]
  <2>1. PICK j \in DOMAIN t : s[i] = t[j]
    BY DEF Range
  <2>2. Position(s, s[i].key) = i
    BY PositionOfKey
  <2>3. Position(t, t[j].key) = j
    BY PositionOfKey
  <2>4. i = j
    BY <1>2, <2>1, <2>2, <2>3
  <2> QED BY <2>1, <2>4
<1> QED BY <1>3

(* So the abstract maps and sets have their entries in this order too.     *)
LEMMA InOrderIs ==
  ASSUME NEW k, k # "vector", NEW s \in Seq(Items(k)), Whole(k, s), NEW R, R = Range(s)
  PROVE  Promised!InOrder(R) = s
<1> DEFINE n == Len(s)
<1>1. /\ DOMAIN s = 1 .. n /\ n \in Nat /\ Ordered(s)
      /\ \A i \in DOMAIN s : s[i].key \in Int
  BY EntryKeys
<1> HIDE DEF n
<1>2. s \in [1 .. n -> R]
  <2>1. s = [i \in DOMAIN s |-> s[i]]
    OBVIOUS
  <2> QED BY <1>1, <2>1 DEF Range
<1>3. Cardinality(R) = n
  <2>1. \A i, j \in 1 .. n : s[i] = s[j] => i = j
    <3> SUFFICES ASSUME NEW i \in 1 .. n, NEW j \in 1 .. n, s[i] = s[j] PROVE i = j
      OBVIOUS
    <3>1. Position(s, s[i].key) = i
      BY <1>1, PositionOfKey
    <3>2. Position(s, s[j].key) = j
      BY <1>1, PositionOfKey
    <3> QED BY <3>1, <3>2
  <2>2. \A x \in R : \E i \in 1 .. n : s[i] = x
    BY <1>1 DEF Range
  <2>3. s \in Bijection(1 .. n, R)
    BY <1>2, <2>1, <2>2, Fun_IsBij
  <2>4. IsFiniteSet(1 .. n) /\ Cardinality(1 .. n) = n
    <3>1. 1 \in Int /\ n \in Int
      BY <1>1
    <3>2. IsFiniteSet(1 .. n) /\ Cardinality(1 .. n) = IF 1 > n THEN 0 ELSE n - 1 + 1
      BY ONLY <3>1, FS_Interval
    <3> QED BY <1>1, <3>2
  <2> QED BY <2>3, <2>4, FS_Bijection DEF ExistsBijection
<1> DEFINE t == Promised!InOrder(R)
<1>4. \E x \in [1 .. Cardinality(R) -> R] :
        Promised!Range(x) = R /\ \A i, j \in DOMAIN x : i < j => x[i].key < x[j].key
  <2>1. Promised!Range(s) = R /\ \A i, j \in DOMAIN s : i < j => s[i].key < s[j].key
    BY <1>1 DEF Ordered, Range, Promised!Range
  <2> QED BY <1>2, <1>3, <2>1
<1>5. t \in [1 .. Cardinality(R) -> R] /\ Promised!Range(t) = R
      /\ \A i, j \in DOMAIN t : i < j => t[i].key < t[j].key
  <2> DEFINE S == [1 .. Cardinality(R) -> R]
             P(x) == Promised!Range(x) = R /\ \A i, j \in DOMAIN x : i < j => x[i].key < x[j].key
  <2>1. \E x \in S : P(x)
    BY <1>4
  <2>2. t = CHOOSE x \in S : P(x)
    <3>1. Promised!Cardinality(R) = Cardinality(R)
      BY DEF Promised!Cardinality, Cardinality
    <3> QED BY <3>1 DEF Promised!InOrder
  <2> HIDE DEF t, S, P
  <2>3. t \in S /\ P(t)
    BY <2>1, <2>2
  <2> QED BY <2>3 DEF S, P
<1> HIDE DEF t
<1>6. /\ t \in [1 .. n -> R] /\ DOMAIN t = 1 .. n /\ Ordered(t) /\ Range(t) = Range(s)
      /\ \A i \in DOMAIN t : t[i].key \in Int
  <2>1. t \in [1 .. n -> R] /\ DOMAIN t = 1 .. n /\ Ordered(t) /\ Range(t) = Range(s)
    BY <1>3, <1>5 DEF Ordered, Range, Promised!Range
  <2>2. ASSUME NEW i \in DOMAIN t PROVE t[i].key \in Int
    <3>1. t[i] \in Range(s)
      BY <2>1
    <3>2. PICK j \in DOMAIN s : t[i] = s[j]
      BY <3>1 DEF Range
    <3> QED BY <1>1, <3>2
  <2> QED BY <2>1, <2>2
<1>7. \A i \in 1 .. n : s[i] = t[i]
  BY <1>1, <1>6, SameEntries
<1>8. s = t
  <2>1. s = [i \in 1 .. n |-> s[i]] /\ t = [i \in 1 .. n |-> t[i]]
    BY <1>2, <1>6
  <2> QED BY <1>7, <2>1
<1> QED BY <1>8 DEF t

(* A program's insertions and erasures.                                    *)
LEMMA TreeRefines ==
  ASSUME CxxInv, CxxInv', NEW o \in Objects,
         \/ \E item \in AllItems : \E argument : \/ insert_new(o, item, argument)
                                                 \/ insert_existing(o, item, argument)
         \/ \E item \in AllItems : insert_fails(o, item)
         \/ \E key \in Keys : erase(o, key)
  PROVE  Promised!Usable(o) /\ (Promised!Add(o) \/ Promised!Change(o)) /\ UNCHANGED kind
<1> DEFINE h == handle[o]
           s == heap[h].slots
           t == heap'[h].slots
<1>1. Ready /\ IsTree /\ handle[o] \notin Null /\ UNCHANGED <<kind, handle, call>>
  BY DEF insert_new, insert_existing, insert_fails, erase, Initialized, Null
<1>2. /\ Promised!Usable(o) /\ h \in DOMAIN heap /\ ContainerOK(kind, heap[h])
      /\ Whole(kind, s) /\ AllObjects[o].items = s
  <2>1. /\ Promised!Usable(o) /\ h \in DOMAIN heap /\ ContainerOK(kind, heap[h])
        /\ Whole(kind, s) /\ AllObjects[o] = [packet |-> heap[h].packet, items |-> s]
    BY <1>1, CallsUsable
  <2> QED BY <2>1
<1>3. kind \in Kinds /\ kind # "vector" /\ kind \in {"map", "set"} /\ CountOK
  BY <1>1, PartsFacts DEF CxxInv, ElementsOK
<1>4. Slots(o) = s
  BY DEF Slots
<1>5. s \in Seq(Items(kind)) /\ \A i \in DOMAIN s : s[i].key \in Int
  <2>1. s \in Seq(Items(kind))
    BY <1>2 DEF ContainerOK
  <2> HIDE DEF s
  <2> QED BY <1>2, <1>3, <2>1, EntryKeys
<1>6. ASSUME Touches(h), heap'[h].packet = heap[h].packet PROVE Promised!Becomes(o, t)
  BY <1>1, <1>6, OwnBecomes
<1>7. ASSUME heap' = heap PROVE Promised!Becomes(o, s)
  BY <1>2, <1>6, <1>7 DEF Touches
<1> HIDE DEF h, s
<1>8. /\ Promised!Range(s) = Range(s)
      /\ \A key : key \in KeysOf(s) <=> \E x \in Range(s) : x.key = key
  BY DEF Range, Promised!Range, KeysOf
<1>9. ASSUME NEW item \in AllItems, IsItem(item), NEW rvalue \in BOOLEAN,
             Promised!Insert(o, item, rvalue)
      PROVE  Promised!Add(o)
  <2>1. CASE kind = "map"
    BY <1>3, <1>9, <2>1, ArgumentOfKind DEF Promised!Add
  <2>2. CASE kind = "set"
    BY <1>3, <1>9, <2>2, ArgumentOfKind DEF Promised!Add
  <2> QED BY <1>3, <2>1, <2>2
<1>10. ASSUME NEW item \in AllItems, NEW argument, insert_new(o, item, argument)
       PROVE  Promised!Add(o)
  <2> DEFINE rvalue == argument = "&&"
  <2>1. /\ IsItem(item) /\ insert_template(h, item) /\ item.key \notin KeysOf(s)
        /\ Answer("insert", o, "inserted", rvalue) /\ rvalue \in BOOLEAN
    BY <1>10 DEF insert_new, insert_template, h, s
  <2>2. item \in Items(kind) /\ ~IsRaw(item)
    BY <1>3, <2>1, ArgumentFacts
  <2>3. /\ Touches(h) /\ ContainerOK(kind, heap'[h]) /\ Whole(kind, t)
        /\ heap'[h].packet = heap[h].packet /\ Range(t) = Range(s) \cup {item}
    BY <1>2, <1>3, <2>1, <2>2, InsertStep DEF s
  <2>4. t \in Seq(Items(kind))
    BY <2>3 DEF ContainerOK
  <2>5. Promised!Becomes(o, t)
    BY <1>6, <2>3
  <2> HIDE DEF t, rvalue
  <2>6. Promised!InOrder(Range(s) \cup {item}) = t
    BY <1>3, <2>3, <2>4, InOrderIs
  <2>7. Promised!Insert(o, item, rvalue)
    BY <1>2, <1>8, <2>1, <2>5, <2>6 DEF Promised!Insert, Promised!Said, Answer
  <2> QED BY <1>9, <2>1, <2>7
<1>11. ASSUME NEW item \in AllItems, NEW argument, insert_existing(o, item, argument)
       PROVE  Promised!Add(o)
  <2>1. /\ IsItem(item) /\ item.key \in KeysOf(s) /\ heap' = heap
        /\ Answer("insert", o, "exists", FALSE)
    BY <1>4, <1>11 DEF insert_existing
  <2>2. Promised!Insert(o, item, FALSE)
    BY <1>2, <1>7, <1>8, <2>1 DEF Promised!Insert, Promised!Said, Answer
  <2> QED BY <1>9, <2>1, <2>2
<1>12. ASSUME NEW item \in AllItems, insert_fails(o, item) PROVE Promised!Add(o)
  <2>1. /\ IsItem(item) /\ item.key \notin KeysOf(s) /\ heap' = heap
        /\ Answer("insert", o, "failed", FALSE)
    BY <1>4, <1>12 DEF insert_fails
  <2>2. Promised!Insert(o, item, FALSE)
    BY <1>2, <1>7, <1>8, <2>1 DEF Promised!Insert, Promised!Said, Answer
  <2> QED BY <1>9, <2>1, <2>2
<1>13. ASSUME NEW key \in Keys, erase(o, key) PROVE Promised!Change(o)
  <2> DEFINE R == {x \in Range(s) : x.key # key}
  <2>1. Promised!Becomes(o, Promised!InOrder(R))
    <3>1. CASE key \in KeysOf(s)
      <4> DEFINE i == Position(s, key)
      <4>0. /\ i = Position(heap[h].slots, key) /\ key \in KeysOf(heap[h].slots)
            /\ Whole(kind, heap[h].slots)
        BY <1>2, <3>1 DEF s
      <4>1. destruct(heap[h].slots[i]) /\ heap' = [heap EXCEPT ![h].slots = RemoveAt(@, i)]
        BY <1>4, <1>13, <3>1 DEF erase, h, s
      <4> HIDE DEF i
      <4>2. /\ Touches(h) /\ ContainerOK(kind, heap'[h]) /\ Whole(kind, heap'[h].slots)
            /\ heap'[h].packet = heap[h].packet
            /\ InsertedAt(heap'[h].slots, heap[h].slots, i, heap[h].slots[i])
            /\ heap[h].slots[i].key = key
            /\ Range(heap[h].slots) = Range(heap'[h].slots) \cup {heap[h].slots[i]}
        BY <1>2, <1>3, <4>0, <4>1, EraseStep
      <4>3. Promised!Becomes(o, t) /\ t \in Seq(Items(kind))
        BY <1>6, <4>2 DEF ContainerOK
      <4>4. Whole(kind, t) /\ InsertedAt(t, s, i, s[i]) /\ s[i].key = key
            /\ Range(s) = Range(t) \cup {s[i]}
        BY <4>2 DEF s
      <4> HIDE DEF t
      <4>5. /\ DOMAIN s = 1 .. Len(s) /\ Len(s) \in Nat /\ Ordered(s)
            /\ DOMAIN t = 1 .. Len(t) /\ Len(t) \in Nat
        BY <1>2, <1>3, <1>5, <4>3, <4>4, EntryKeys
      <4>6. ASSUME NEW x \in Range(t) PROVE x.key # key
        <5>1. PICK j \in 1 .. Len(t) : x = t[j]
          BY <4>5 DEF Range
        <5>2. s[Shift(j, i)] = x /\ Shift(j, i) # i
          BY <4>4, <4>5, <5>1 DEF InsertedAt, Shift
        <5>3. Shift(j, i) \in DOMAIN s /\ i \in DOMAIN s
          BY <4>4, <4>5, <5>1 DEF InsertedAt, Shift
        <5>4. Position(s, s[i].key) = i /\ Position(s, s[Shift(j, i)].key) = Shift(j, i)
          BY <1>5, <4>5, <5>3, PositionOfKey
        <5> QED BY <4>4, <5>2, <5>4
      <4>7. R = Range(t)
        BY <4>4, <4>6
      <4>8. Promised!InOrder(R) = t
        BY <1>3, <4>3, <4>4, <4>7, InOrderIs
      <4> QED BY <4>3, <4>8
    <3>2. CASE key \notin KeysOf(s)
      <4>1. heap' = heap
        BY <1>4, <1>13, <3>2 DEF erase
      <4>2. R = Range(s)
        BY <1>8, <3>2
      <4>3. Promised!InOrder(R) = s
        BY <1>2, <1>3, <1>5, <4>2, InOrderIs
      <4> QED BY <1>7, <4>1, <4>3
    <3> QED BY <3>1, <3>2
  <2>2. Answer("erase", o, TRUE, FALSE)
    BY <1>13 DEF erase
  <2>3. Promised!Erase(o, key)
    BY <1>2, <1>8, <2>1, <2>2 DEF Promised!Erase, Promised!Said, Answer
  <2> QED BY <1>3, <2>3 DEF Promised!Change
<1> QED BY <1>1, <1>2, <1>10, <1>11, <1>12, <1>13

-----------------------------------------------------------------------------
(* A program's calls on iterators are not to be seen.                      *)
LEMMA IteratorsStutter ==
  ASSUME CxxInv, CxxInv',
         \/ \E o \in Objects : begin(o) \/ \E key : find(o, key)
         \/ increment \/ decrement \/ UNCHANGED cxx_vars
  PROVE  UNCHANGED <<kind, AllObjects, PendingCall, last>>
<1>1. UNCHANGED <<kind, handle, heap, call, last>>
  BY DEF begin, find, increment, decrement, MoveIterator, cxx_vars
<1>2. \A o \in Objects : ObjectOf(o)' = ObjectOf(o)
  BY <1>1, ObjectStays
<1> QED BY <1>1, <1>2 DEF AllObjects, PendingCall

(* A push of an element of the vector itself, when the vector is not full, *)
(* adds a copy of the element.                                             *)
LEMMA OwnPushRefines ==
  ASSUME CxxInv, CxxInv', OwnPushWhenFull = FALSE,
         NEW o \in Objects, NEW pos, push_back_own(o, pos)
  PROVE  Promised!Usable(o) /\ (Promised!Add(o) \/ Promised!Change(o)) /\ UNCHANGED kind
<1>1. /\ push_back(o, Slots(o)[pos], "const &") /\ kind = "vector"
      /\ Ready /\ Initialized(o) /\ pos \in DOMAIN Slots(o)
  BY OwnPushFacts
<1>2. Slots(o)[pos] \in AllItems
  BY <1>1, OwnElementIsItem
<1>3. \E item \in AllItems : \E argument : push_back(o, item, argument)
  BY <1>1, <1>2
<1> QED BY <1>3, VectorRefines

(* Every step of the program is one of the abstract objects, or none.      *)
LEMMA NextRefines ==
  ASSUME CxxInv, CxxInv', SelfMove = FALSE, OwnPushWhenFull = FALSE, [CxxNext]_cxx_vars
  PROVE  [Promised!Next]_<<kind, AllObjects, PendingCall, last>>
<1>1. ASSUME NEW o \in Objects,
             \/ \E packet \in {STD, CUSTOM_CMAGIC} : default_construct(o, packet)
             \/ \E x \in Objects : copy_construct(o, x) \/ move_construct(o, x)
             \/ destroy_uninitialized(o)
      PROVE  Promised!Next
  BY <1>1, CreatingRefines DEF Promised!Next
<1>2. ASSUME NEW o \in Objects,
             \/ \E x \in Objects : copy_assign(o, x) \/ move_assign(o, x)
             \/ clear(o) \/ destroy(o)
      PROVE  Promised!Next
  BY <1>2, EnteringRefines DEF Promised!Next
<1>3. ASSUME NEW o \in Objects,
             \/ \E item \in AllItems : \E argument : push_back(o, item, argument)
             \/ \E item \in AllItems : \E pos : subscript(o, pos, item)
             \/ pop_back(o)
      PROVE  Promised!Next
  BY <1>3, VectorRefines DEF Promised!Next
<1>4. ASSUME NEW o \in Objects,
             \/ \E item \in AllItems : \E argument : \/ insert_new(o, item, argument)
                                                     \/ insert_existing(o, item, argument)
             \/ \E item \in AllItems : insert_fails(o, item)
             \/ \E key \in Keys : erase(o, key)
      PROVE  Promised!Next
  BY <1>4, TreeRefines DEF Promised!Next
<1>5. ASSUME \/ \E o \in Objects : begin(o) \/ \E key : find(o, key)
             \/ increment \/ decrement \/ UNCHANGED cxx_vars
      PROVE  UNCHANGED <<kind, AllObjects, PendingCall, last>>
  BY <1>5, IteratorsStutter
<1>6. ASSUME clear_vector \/ copy_push_back \/ clear_tree \/ copy_insert \/ start_copying
      PROVE  UNCHANGED <<kind, AllObjects, PendingCall, last>>
  BY <1>6, ContinuingStutters
<1>7. CASE finish_clear \/ finish_copy
  BY <1>7, EndingRefines DEF Promised!Next
<1>8. CASE give_up_copy \/ finish_destroy
  BY <1>8, ReleasingRefines DEF Promised!Next
<1>9. CASE finish_move
  BY <1>9, MovingRefines DEF Promised!Next
<1>10. ASSUME NEW o \in Objects, NEW pos, push_back_own(o, pos) PROVE Promised!Next
  BY <1>10, OwnPushRefines DEF Promised!Next
<1> QED BY <1>1, <1>2, <1>3, <1>4, <1>5, <1>6, <1>7, <1>8, <1>9, <1>10 DEF CxxNext

(* The objects of a program that moves none to itself, and pushes no       *)
(* element of a full vector to the vector itself, are values: a copy has   *)
(* the elements of its source whatever the target had before, a moved      *)
(* object is empty or null, a copy that fails leaves a null handle, and a  *)
(* failed insertion changes and consumes nothing.                          *)
THEOREM ObjectsAreValues ==
  ASSUME SelfMove = FALSE, OwnPushWhenFull = FALSE
  PROVE  CxxSpec => ImplementsContainers
<1>1. CxxInit => Promised!Init
  <2> SUFFICES ASSUME CxxInit PROVE Promised!Init
    OBVIOUS
  <2>1. kind \in {"vector", "map", "set"}
    BY CxxAssumption DEF CxxInit
  <2>2. \A o \in Objects : ObjectOf(o) = Promised!Nothing
    BY DEF CxxInit, ObjectOf, Initialized, Promised!Nothing
  <2>3. AllObjects = [o \in Objects |-> Promised!Nothing]
    BY <2>2 DEF AllObjects
  <2>4. PendingCall = Promised!Calm
    BY DEF CxxInit, Idle, PendingCall, Promised!Calm
  <2>5. last = [op |-> "none", object |-> NULL, answer |-> TRUE, consumed |-> FALSE]
    BY DEF CxxInit
  <2> QED BY <2>1, <2>3, <2>4, <2>5 DEF Promised!Init
<1>2. CxxInv /\ CxxInv' /\ [CxxNext]_cxx_vars
      => [Promised!Next]_<<kind, AllObjects, PendingCall, last>>
  BY NextRefines
<1> QED BY <1>1, <1>2, AlwaysCxxInv, PTL DEF CxxSpec, ImplementsContainers, Promised!Spec
=============================================================================
