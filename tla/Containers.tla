------------------------------ MODULE Containers ------------------------------
(***************************************************************************)
(* What vector.hpp, map.hpp and set.hpp promise: objects that are values.  *)
(* A copy equals its source and shares nothing with it, a move empties its *)
(* source, and what fails leaves no object half changed: at worst an       *)
(* object is Broken, which operator bool tells.                            *)
(***************************************************************************)
EXTENDS Integers, Sequences, SequencesExt, FiniteSets

CONSTANTS Objects, Keys, Values, NULL, NONE

VARIABLES
  kind,     (* "vector", "map" or "set"                                    *)
  object,   (* Nothing, Broken, or an allocator and items; the items are   *)
            (* NULL while a call replaces them                             *)
  pending,  (* the call in progress                                        *)
  last      (* the last call that returned, and its answer                 *)

Packets == {"STD", "CUSTOM_CMAGIC"}

(* There is no object, or one that operator bool says is not initialized.  *)
Nothing == [packet |-> NONE, items |-> NULL]

Broken == [packet |-> NULL, items |-> NULL]

Said(op, o, answer, consumed) ==
  last' = [op |-> op, object |-> o, answer |-> answer, consumed |-> consumed]

Calm == [op |-> "none", self |-> NULL, other |-> NULL]

Usable(o) == pending = Calm /\ object[o].packet \in Packets

Empty(packet) == [packet |-> packet, items |-> <<>>]

Init ==
  /\ kind \in {"vector", "map", "set"}
  /\ object = [o \in Objects |-> Nothing] /\ pending = Calm
  /\ last = [op |-> "none", object |-> NULL, answer |-> TRUE, consumed |-> FALSE]

Create(o, packet) ==
  /\ pending = Calm /\ object[o] = Nothing
  /\ \/ object' = [object EXCEPT ![o] = Empty(packet)] /\ Said("create", o, TRUE, FALSE)
     \/ object' = [object EXCEPT ![o] = Broken] /\ Said("create", o, FALSE, FALSE)
  /\ UNCHANGED pending

(* A call that replaces the items of o begins.                             *)
Begin(op, o, x) ==
  /\ pending' = [op |-> op, self |-> o, other |-> x]
  /\ UNCHANGED last

StartCopyConstruction(o, x) ==
  /\ object[o] = Nothing /\ Usable(x)
  /\ \/ /\ object' = [object EXCEPT ![o] = [object[x] EXCEPT !.items = NULL]]
        /\ Begin("copy", o, x)
     \/ /\ object' = [object EXCEPT ![o] = Broken]
        /\ Said("copy", o, FALSE, FALSE) /\ UNCHANGED pending

Start(op, o, x) ==
  /\ Usable(o) /\ (op \in {"copy", "move"} => o # x /\ Usable(x))
  /\ object' = [object EXCEPT ![o].items = NULL]
  /\ Begin(op, o, x)

(* The pending call takes effect.                                          *)
End(op, answer) ==
  /\ pending.op = op /\ pending' = Calm
  /\ Said(op, pending.self, answer, FALSE)

Copied ==
  /\ End("copy", TRUE)
  /\ object' = [object EXCEPT ![pending.self].items = object[pending.other].items]

CopyFailed ==
  /\ End("copy", FALSE)
  /\ object' = [object EXCEPT ![pending.self] = Broken]

(* o takes what x has; x is empty, with its allocator, or Broken.          *)
Taken(o, x) ==
  \E rest \in {Empty(object[x].packet), Broken} :
    object' = [object EXCEPT ![o] = object[x], ![x] = rest]

Moved == End("move", TRUE) /\ Taken(pending.self, pending.other)

MoveConstruction(o, x) ==
  /\ object[o] = Nothing /\ Usable(x) /\ Taken(o, x)
  /\ Said("move", o, TRUE, FALSE) /\ UNCHANGED pending

CopyToItself(o) == Usable(o) /\ Said("copy", o, TRUE, FALSE) /\ UNCHANGED <<object, pending>>

Cleared ==
  /\ End("clear", TRUE)
  /\ object' = [object EXCEPT ![pending.self].items = <<>>]

Destroyed ==
  \/ End("destroy", TRUE) /\ object' = [object EXCEPT ![pending.self] = Nothing]
  \/ /\ pending = Calm
     /\ \E o \in Objects : /\ object[o] = Broken
                           /\ object' = [object EXCEPT ![o] = Nothing]
                           /\ Said("destroy", o, TRUE, FALSE)
     /\ UNCHANGED pending

-----------------------------------------------------------------------------
(* What one call does with the items of o.                                 *)
Becomes(o, items) ==
  /\ Usable(o) /\ object' = [object EXCEPT ![o].items = items]
  /\ UNCHANGED pending

PushBack(o, item, rvalue) ==
  \/ Becomes(o, Append(object[o].items, item)) /\ Said("push_back", o, TRUE, rvalue)
  \/ Becomes(o, object[o].items) /\ Said("push_back", o, FALSE, FALSE)

PopBack(o) == Becomes(o, Front(object[o].items)) /\ Said("pop_back", o, TRUE, FALSE)

Assign(o, pos, item) ==
  Becomes(o, [object[o].items EXCEPT ![pos] = item]) /\ Said("assign", o, TRUE, FALSE)

(* The items in the order of their keys.                                   *)
InOrder(items) ==
  CHOOSE s \in [1 .. Cardinality(items) -> items] :
    /\ Range(s) = items
    /\ \A i, j \in DOMAIN s : i < j => s[i].key < s[j].key

(* Only an insertion that answers "inserted" consumes its argument.        *)
Insert(o, item, rvalue) ==
  LET items == object[o].items
      exists == \E old \in Range(items) : old.key = item.key
  IN  \/ /\ ~exists /\ Becomes(o, InOrder(Range(items) \cup {item}))
         /\ Said("insert", o, "inserted", rvalue)
      \/ exists /\ Becomes(o, items) /\ Said("insert", o, "exists", FALSE)
      \/ ~exists /\ Becomes(o, items) /\ Said("insert", o, "failed", FALSE)

Erase(o, key) ==
  /\ Becomes(o, InOrder({item \in Range(object[o].items) : item.key # key}))
  /\ Said("erase", o, TRUE, FALSE)

-----------------------------------------------------------------------------
Add(o) ==
  \E rvalue \in BOOLEAN :
    \/ kind = "vector" /\ \E item \in [value : Values] : PushBack(o, item, rvalue)
    \/ kind = "map" /\ \E item \in [key : Keys, value : Values] : Insert(o, item, rvalue)
    \/ kind = "set" /\ \E item \in [key : Keys] : Insert(o, item, rvalue)

Change(o) ==
  IF kind = "vector"
  THEN \/ object[o].items # <<>> /\ PopBack(o)
       \/ \E pos \in DOMAIN object[o].items, item \in [value : Values] : Assign(o, pos, item)
  ELSE \E key \in Keys : Erase(o, key)

Next ==
  /\ \/ \E o \in Objects, packet \in Packets : Create(o, packet)
     \/ \E o \in Objects :
          \/ Start("clear", o, NULL) \/ Start("destroy", o, NULL) \/ CopyToItself(o)
          \/ Usable(o) /\ (Add(o) \/ Change(o))
     \/ \E o, x \in Objects :
          \/ StartCopyConstruction(o, x) \/ MoveConstruction(o, x)
          \/ Start("copy", o, x) \/ Start("move", o, x)
     \/ Copied \/ CopyFailed \/ Moved \/ Cleared \/ Destroyed
  /\ UNCHANGED kind

Spec == Init /\ [][Next]_<<kind, object, pending, last>>
=============================================================================
