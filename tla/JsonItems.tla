------------------------------ MODULE JsonItems ------------------------------
(***************************************************************************)
(* The items of cJSON.c and the memory they live in.  A heap is a record:  *)
(* the items that are allocated, the number of strings that are, and the   *)
(* number of items there is room for.  The operators below are the         *)
(* functions on item lists; each returns the heap that it leaves behind.   *)
(***************************************************************************)
EXTENDS Integers, Sequences, FiniteSetsExt, Functions

CONSTANTS
  Items,          (* the addresses that the allocator may hand out         *)
  FoldCase(_)     (* tolower, for a whole key                              *)

ASSUME ItemsAssumption == Items \subseteq Nat \ {0} /\ IsFiniteSet(Items)

NULL == 0

(* A string is its bytes with the zero that ends them, so that no string  *)
(* is an empty one.                                                        *)
NoString == <<>>

Types == {"Invalid", "NULL", "False", "True", "Number", "String", "Raw",
          "Array", "Object"}

(* struct cJSON after memset.  orig is history: what a reference refers to.*)
Blank ==
  [type |-> "Invalid", ref |-> FALSE, const |-> FALSE, next |-> NULL,
   prev |-> NULL, child |-> NULL, val |-> NoString, num |-> 0, string |-> NoString,
   orig |-> NULL]

Live(h) == DOMAIN h.items

EmptyHeap(room) == [items |-> <<>>, strs |-> 0, room |-> room]

Exhausted(h) == Cardinality(Live(h)) >= h.room

(* The address malloc returns: any that is free.                           *)
Fresh(h) == Min(Items \ Live(h))

(* cJSON_New_Item, with the fields that the caller then sets, and the      *)
(* strings allocated for them.                                             *)
NewItem(h, item, strings) ==
  [h EXCEPT !.items = [i \in Live(h) \cup {Fresh(h)} |->
                         IF i = Fresh(h) THEN item ELSE h.items[i]],
            !.strs = @ + strings]

(* The strings that cJSON_Delete frees with an item.                       *)
OwnStrings(item) ==
  (IF ~item.ref /\ item.val # NoString THEN 1 ELSE 0)
    + (IF ~item.const /\ item.string # NoString THEN 1 ELSE 0)

(* What cJSON_Delete goes on to from an item: its successor, and its       *)
(* children unless they belong to somebody else.                           *)
Onward(h, i) ==
  {h.items[i].next} \cup (IF h.items[i].ref THEN {} ELSE {h.items[i].child})

Reach(h, i) ==
  LET within[n \in 0 .. Cardinality(Items)] ==
        IF n = 0 THEN {i} \ {NULL}
        ELSE LET s == within[n - 1]
             IN  s \cup (UNION {Onward(h, j) : j \in s} \ {NULL})
  IN  within[Cardinality(Items)]

Delete(h, i) ==
  LET gone == Reach(h, i)
  IN  [h EXCEPT !.items = Restrict(h.items, Live(h) \ gone),
                !.strs = @ - MapThenSumSet(LAMBDA j : OwnStrings(h.items[j]), gone)]

SetField(h, i, item) == [h EXCEPT !.items[i] = item]

(* The list that begins with an item.                                      *)
Chain(h, i) ==
  LET from[n \in 0 .. Cardinality(Items), j \in Items \cup {NULL}] ==
        IF n = 0 \/ j = NULL THEN <<>> ELSE <<j>> \o from[n - 1, h.items[j].next]
  IN  from[Cardinality(Items), i]

Children(h, p) == Chain(h, h.items[p].child)

(* cJSON_GetArraySize, get_array_item (which counts from 0).               *)
ArraySize(h, p) == Len(Children(h, p))

ArrayItem(h, p, which) ==
  IF which < ArraySize(h, p) THEN Children(h, p)[which + 1] ELSE NULL

SameName(a, b, case_sensitive) ==
  IF case_sensitive THEN a = b ELSE FoldCase(a) = FoldCase(b)

(* get_object_item: the first child of that name.                          *)
ObjectItem(h, p, name, case_sensitive) ==
  LET c  == Children(h, p)
      at == {k \in 1 .. Len(c) :
               SameName(h.items[c[k]].string, name, case_sensitive)}
  IN  IF at = {} THEN NULL ELSE c[Min(at)]

Suffix(h, prev, i) ==
  [h EXCEPT !.items[prev].next = i, !.items[i].prev = prev]

AddItemToArray(h, p, i) ==
  IF h.items[p].child = NULL
    THEN [h EXCEPT !.items[p].child = i]
    ELSE Suffix(h, Children(h, p)[ArraySize(h, p)], i)

(* The key of an item is exchanged; a key of its own is freed.             *)
Rename(h, i, name, constant_key) ==
  LET it == h.items[i]
  IN  [SetField(h, i, [it EXCEPT !.string = name, !.const = constant_key])
        EXCEPT !.strs = @ + (IF constant_key THEN 0 ELSE 1)
                          - (IF ~it.const /\ it.string # NoString THEN 1 ELSE 0)]

(* ... or lost, if there is no memory for the new one.                     *)
Unnamed(h, i) ==
  LET it == h.items[i]
  IN  [SetField(h, i, [it EXCEPT !.string = NoString, !.const = FALSE])
        EXCEPT !.strs = @ - (IF ~it.const /\ it.string # NoString THEN 1 ELSE 0)]

AddItemToObject(h, p, name, i, constant_key) ==
  AddItemToArray(Rename(h, i, name, constant_key), p, i)

LOCAL Unlinked(h, i) == [h EXCEPT !.items[i].prev = NULL, !.items[i].next = NULL]

(* The pointers that lead to an item are set to q: next of its             *)
(* predecessor or child of the parent, and prev of its successor.          *)
LOCAL SetNextOf(h, j, q) == IF j = NULL THEN h ELSE [h EXCEPT !.items[j].next = q]
LOCAL SetPrevOf(h, j, q) == IF j = NULL THEN h ELSE [h EXCEPT !.items[j].prev = q]
LOCAL SetChildIf(h, p, i, q) ==
  IF h.items[p].child = i THEN [h EXCEPT !.items[p].child = q] ELSE h

(* Mutant: the successor still points back to the item.                    *)
DetachForgetsBack(h, p, i) ==
  Unlinked(SetChildIf(SetNextOf(h, h.items[i].prev, h.items[i].next), p, i,
                      h.items[i].next), i)

DetachItemViaPointer(h, p, i) ==
  LET it == h.items[i]
      h1 == SetNextOf(h, it.prev, it.next)
      h2 == SetPrevOf(h1, it.next, it.prev)
  IN  Unlinked(SetChildIf(h2, p, i, it.next), i)

InsertItemInArray(h, p, which, i) ==
  LET after == ArrayItem(h, p, which)
      prev  == h.items[after].prev
      h1    == [h EXCEPT !.items[i].next = after, !.items[i].prev = prev,
                         !.items[after].prev = i]
  IN  IF after = NULL THEN AddItemToArray(h, p, i)
      ELSE IF after = h.items[p].child THEN [h1 EXCEPT !.items[p].child = i]
      ELSE [h1 EXCEPT !.items[prev].next = i]

(* Mutant: the successors stay with the item, and are freed with it.       *)
ReplaceDropsRest(h, p, i, new) ==
  LET it == h.items[i]
      h1 == [SetNextOf(h, it.prev, new) EXCEPT !.items[new].prev = it.prev]
  IN  IF i = new THEN h ELSE Delete(SetChildIf(h1, p, i, new), i)

ReplaceItemViaPointer(h, p, i, new) ==
  LET it == h.items[i]
      h1 == [h EXCEPT !.items[new].next = it.next, !.items[new].prev = it.prev]
      h2 == SetNextOf(SetPrevOf(h1, it.next, new), it.prev, new)
  IN  IF i = new THEN h ELSE Delete(Unlinked(SetChildIf(h2, p, i, new), i), i)

(* create_reference: a copy of the item that shares its children and its   *)
(* value.                                                                  *)
Reference(h, i) ==
  [h.items[i] EXCEPT !.string = NoString, !.ref = TRUE, !.next = NULL,
                     !.prev = NULL, !.orig = i]
=============================================================================
