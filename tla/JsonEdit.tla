------------------------------ MODULE JsonEdit ------------------------------
(***************************************************************************)
(* An application that builds, edits, copies and frees trees of items with *)
(* the public functions of cJSON.c.  Every call is one step: the library   *)
(* has no threads.  An allocation may fail: allocs is the number of        *)
(* allocations that succeed in a call.  A call whose first allocation fails *)
(* changes nothing, and is left out.                                       *)
(***************************************************************************)
EXTENDS JsonItems, SequencesExt

CONSTANTS
  Names,       (* keys                                                     *)
  Literals,    (* those that are constants of the application's program    *)
  Programs,    (* applications: the types of the items that one creates,   *)
               (* and the number of items that there is memory for         *)
  MaxAllocs,   (* bound on allocs                                          *)
  MaxLost      (* bound on lost                                            *)

ASSUME EditAssumption ==
  /\ Literals \subseteq Names /\ NoString \notin Names /\ MaxAllocs \in Nat
  /\ \A p \in Programs : p.types \subseteq Types /\ p.room <= Cardinality(Items)

VARIABLES
  program,   (* the application: one of Programs                           *)
  heap,
  roots,     (* the items the application holds                            *)
  lost       (* history: items handed over by a call that did not take them*)

vars == <<program, heap, roots, lost>>

Init ==
  /\ program \in Programs
  /\ heap = EmptyHeap(program.room) /\ roots = {} /\ lost = {}

Item(i) == heap.items[i]

IsContainer(i) == Item(i).type \in {"Array", "Object"}

(* An item and what hangs from it.                                         *)
Below(i) == {i} \cup (IF Item(i).ref THEN {} ELSE Reach(heap, Item(i).child))

RefsTo(S) == {r \in Live(heap) : Item(r).ref /\ Item(r).orig \in S}

(* What a careful application keeps to while references exist: it neither  *)
(* edits nor frees what they refer to, and edits nothing through them.     *)
Editable(p) ==
  /\ IsContainer(p) /\ ~Item(p).ref /\ p \notin lost
  /\ \A r \in Live(heap) : Item(r).ref => p \notin Below(Item(r).orig)

Deletable(i) == RefsTo(Below(i)) \subseteq Below(i)

(* i may be hung from a container p of that type.                          *)
Hangable(p, type, i) ==
  Editable(p) /\ Item(p).type = type /\ i \in roots /\ p \notin Below(i)

SomeString == <<0>>

(* A value and its string, if the type has one.                            *)
Valued(type) ==
  [Blank EXCEPT !.type = type,
                !.val = IF type \in {"String", "Raw"} THEN SomeString ELSE NoString]
ValueStrings(type) == IF type \in {"String", "Raw"} THEN 1 ELSE 0

AllocsFor(type) == 1 + ValueStrings(type)

(* cJSON_CreateNull .. cJSON_CreateObject.                                 *)
CreateItem(type) ==
  /\ ~Exhausted(heap)
  /\ heap' = NewItem(heap, Valued(type), ValueStrings(type))
  /\ roots' = roots \cup {Fresh(heap)}
  /\ UNCHANGED lost

(* cJSON_CreateIntArray and its three siblings: numbers or strings are     *)
(* linked as they come; if one cannot be had, the array is freed with      *)
(* those before it.                                                        *)
CreateArray(type, count, allocs) ==
  LET a     == Fresh(heap)
      start == [h |-> NewItem(heap, Valued("Array"), 0), last |-> NULL,
                left |-> allocs - 1, ok |-> TRUE]
      Link(s, k) ==
        LET n  == Fresh(s.h)
            h1 == NewItem(s.h, Valued(type), ValueStrings(type))
        IN  IF ~s.ok \/ s.left < AllocsFor(type) \/ Exhausted(s.h)
              THEN [s EXCEPT !.ok = FALSE]
              ELSE [h |-> IF s.last = NULL THEN [h1 EXCEPT !.items[a].child = n]
                                           ELSE Suffix(h1, s.last, n),
                    last |-> n, left |-> s.left - AllocsFor(type), ok |-> TRUE]
      end == FoldLeft(Link, start, [k \in 1 .. count |-> k])
  IN  /\ allocs > 0 /\ ~Exhausted(heap)
      /\ heap' = IF end.ok THEN end.h ELSE Delete(end.h, a)
      /\ roots' = IF end.ok THEN roots \cup {a} ELSE roots
      /\ UNCHANGED lost

(* The item is handed over, whether or not the call takes it.              *)
HandOver(i, taken) ==
  /\ roots' = roots \ {i}
  /\ lost' = IF taken THEN lost ELSE lost \cup {i}
  /\ Cardinality(lost') <= MaxLost

AddToArray(p, i) ==
  /\ Hangable(p, "Array", i)
  /\ heap' = AddItemToArray(heap, p, i)
  /\ HandOver(i, TRUE)

(* The public functions do not report that the key could not be copied.    *)
AddToObject(p, name, i, constant_key, allocs) ==
  /\ Hangable(p, "Object", i)
  /\ LET taken == constant_key \/ allocs > 0
     IN  /\ heap' = IF taken THEN AddItemToObject(heap, p, name, i, constant_key)
                    ELSE heap
         /\ HandOver(i, taken)

(* cJSON_AddNullToObject .. cJSON_AddArrayToObject: if the key cannot be   *)
(* copied the new item is freed.                                           *)
AddNewToObject(p, name, type, allocs) ==
  /\ Editable(p) /\ Item(p).type = "Object"
  /\ ~Exhausted(heap) /\ allocs >= AllocsFor(type)
  /\ LET i  == Fresh(heap)
         h1 == NewItem(heap, Valued(type), ValueStrings(type))
     IN  heap' = IF allocs > AllocsFor(type)
                   THEN AddItemToObject(h1, p, name, i, FALSE)
                   ELSE Delete(h1, i)
  /\ UNCHANGED <<roots, lost>>

(* cJSON_AddItemReferenceToArray, ...ToObject: a reference whose key       *)
(* cannot be copied stays where it is.                                     *)
AddReference(p, i, allocs) ==
  /\ Editable(p) /\ ~Exhausted(heap) /\ p \notin Below(i) /\ ~Item(i).ref
  /\ allocs > 0
  /\ LET r  == Fresh(heap)
         h1 == NewItem(heap, Reference(heap, i), 0)
     IN  \/ /\ Item(p).type = "Array"
            /\ heap' = AddItemToArray(h1, p, r)
            /\ UNCHANGED lost
         \/ \E name \in Names :
              /\ Item(p).type = "Object"
              /\ heap' = IF allocs > 1 THEN AddItemToObject(h1, p, name, r, FALSE) ELSE h1
              /\ lost' = IF allocs > 1 THEN lost ELSE lost \cup {r}
              /\ Cardinality(lost') <= MaxLost
  /\ UNCHANGED roots

Insert(p, which, i) ==
  /\ Hangable(p, "Array", i)
  /\ heap' = InsertItemInArray(heap, p, which, i)
  /\ HandOver(i, TRUE)

(* A case sensitive search follows the name of every child on its way; a   *)
(* careful application makes none among children without a name.           *)
Searches(p) ==
  IF Item(p).type # "Object" THEN {}
  ELSE IF \E c \in ToSet(Children(heap, p)) : Item(c).string = NoString THEN {FALSE}
  ELSE BOOLEAN

(* The children that a call may name: by position, or by key.              *)
Named(p) ==
  {ArrayItem(heap, p, w) : w \in 0 .. ArraySize(heap, p)}
    \cup {ObjectItem(heap, p, n, cs) : n \in Names, cs \in Searches(p)}

Detach(p, i) ==
  /\ Editable(p) /\ i \in Named(p) \ {NULL}
  /\ heap' = DetachItemViaPointer(heap, p, i)
  /\ roots' = roots \cup {i}
  /\ UNCHANGED lost

DeleteFrom(p, i) ==
  /\ Editable(p) /\ i \in Named(p) \ {NULL} /\ Deletable(i)
  /\ heap' = Delete(DetachItemViaPointer(heap, p, i), i)
  /\ UNCHANGED <<roots, lost>>

(* cJSON_ReplaceItemInArray: nothing happens if there is no such child.    *)
ReplaceInArray(p, which, new) ==
  /\ Hangable(p, "Array", new)
  /\ LET i == ArrayItem(heap, p, which)
     IN  /\ i # NULL => Deletable(i)
         /\ heap' = IF i = NULL THEN heap ELSE ReplaceItemViaPointer(heap, p, i, new)
         /\ HandOver(new, i # NULL)

(* replace_item_in_object: the new item gets the key, even if there is no  *)
(* child to replace, and none if the key cannot be copied.                 *)
ReplaceInObject(p, name, new, case_sensitive, allocs) ==
  /\ Hangable(p, "Object", new) /\ case_sensitive \in Searches(p)
  /\ LET h1 == IF allocs > 0 THEN Rename(heap, new, name, FALSE)
                             ELSE Unnamed(heap, new)
         i  == ObjectItem(heap, p, name, case_sensitive)
     IN  /\ i # NULL => Deletable(i)
         /\ heap' = IF i = NULL THEN h1 ELSE ReplaceItemViaPointer(h1, p, i, new)
         /\ HandOver(new, i # NULL)

DeleteRoot(i) ==
  /\ i \in roots /\ Deletable(i)
  /\ heap' = Delete(heap, i)
  /\ roots' = roots \ {i}
  /\ UNCHANGED lost

(* cJSON_Duplicate.  References are followed, so that the copy owns all    *)
(* its items.  left is the number of allocations that still succeed.       *)
RECURSIVE DuplicateTree(_, _, _, _)
DuplicateTree(h, i, recurse, left) ==
  LET it      == h.items[i]
      strVal  == it.val # NoString
      strName == it.string # NoString /\ ~it.const
      gotVal  == strVal => left > 1
      gotName == gotVal /\ (strName => left > 1 + (IF strVal THEN 1 ELSE 0))
      copy    == [Blank EXCEPT !.type = it.type, !.const = it.const,
                               !.num = it.num,
                               !.val = IF gotVal THEN it.val ELSE NoString,
                               !.string = IF gotName THEN it.string ELSE NoString]
      new     == Fresh(h)
      h1      == NewItem(h, copy, OwnStrings(copy))
      Failed(g) == [h |-> g, item |-> NULL, left |-> 0]
      (* one child: linked behind the copies of its predecessors *)
      Child(s, c) ==
        LET d == DuplicateTree(s.h, c, TRUE, s.left)
        IN  IF ~s.ok THEN s
            ELSE IF d.item = NULL THEN [s EXCEPT !.h = d.h, !.ok = FALSE]
            ELSE [h |-> IF s.last = NULL THEN [d.h EXCEPT !.items[new].child = d.item]
                                         ELSE Suffix(d.h, s.last, d.item),
                  last |-> d.item, left |-> d.left, ok |-> TRUE]
      end == FoldLeft(Child,
                      [h |-> h1, last |-> NULL, left |-> left - 1 - OwnStrings(copy),
                       ok |-> TRUE],
                      IF recurse THEN Chain(h, it.child) ELSE <<>>)
  IN  IF left = 0 \/ Exhausted(h) THEN Failed(h)
      ELSE IF ~gotName \/ ~end.ok
             THEN Failed(Delete(IF gotName THEN end.h ELSE h1, new))
      ELSE [h |-> end.h, item |-> new, left |-> end.left]

Duplicate(i, recurse, allocs) ==
  LET d == DuplicateTree(heap, i, recurse, allocs)
  IN  /\ allocs > 0 /\ ~Exhausted(heap)
      /\ heap' = d.h
      /\ roots' = IF d.item = NULL THEN roots ELSE roots \cup {d.item}
      /\ UNCHANGED lost

Edit ==
  \/ \E type \in program.types : CreateItem(type)
  \/ \E type \in program.types \cap {"Number", "String"} :
       \E n \in 1 .. 3, a \in 0 .. MaxAllocs : CreateArray(type, n, a)
  \/ \E p \in Live(heap) :
       \/ \E i \in roots : AddToArray(p, i)
       \/ \E i \in roots, n \in Names, a \in 0 .. 1 :
            AddToObject(p, n, i, n \in Literals, a)
       \/ \E n \in Names, type \in program.types, a \in 0 .. 3 : AddNewToObject(p, n, type, a)
       \/ \E i \in Live(heap) : Detach(p, i) \/ DeleteFrom(p, i)
       \/ \E i \in Live(heap), a \in 1 .. 2 : AddReference(p, i, a)
       \/ \E i \in roots, w \in 0 .. 3 : Insert(p, w, i) \/ ReplaceInArray(p, w, i)
       \/ \E i \in roots, n \in Names, cs \in BOOLEAN, a \in 0 .. 1 :
            ReplaceInObject(p, n, i, cs, a)
       \/ \E r \in BOOLEAN, a \in 0 .. MaxAllocs : Duplicate(p, r, a)
  \/ \E i \in roots : DeleteRoot(i)

Next == Edit /\ UNCHANGED program

Spec == Init /\ [][Next]_vars

-----------------------------------------------------------------------------
(* Where an item is: with the application, forgotten, or in a list.        *)
Places(i) ==
  Cardinality({p \in Live(heap) : ~Item(p).ref /\ i \in ToSet(Children(heap, p))})
    + (IF i \in roots THEN 1 ELSE 0) + (IF i \in lost THEN 1 ELSE 0)

(* The lists are well formed after every sequence of edits, whatever       *)
(* allocation failed: next and prev of neighbours agree, the first of a    *)
(* list has no predecessor, no pointer leads to freed memory, every item   *)
(* has exactly one place (so none is freed twice, none is unreachable),    *)
(* and the strings in memory are those that the items own.                 *)
ListInv ==
  /\ \A i \in Live(heap) :
       /\ {Item(i).next, Item(i).prev, Item(i).child} \subseteq Live(heap) \cup {NULL}
       /\ Item(i).next # NULL => Item(Item(i).next).prev = i
       /\ Item(i).prev # NULL => Item(Item(i).prev).next = i
       /\ Item(i).child # NULL => Item(Item(i).child).prev = NULL
       /\ i \in roots \cup lost => Item(i).next = NULL /\ Item(i).prev = NULL
       /\ Places(i) = 1
  /\ heap.strs = MapThenSumSet(LAMBDA i : OwnStrings(Item(i)), Live(heap))

(* The trees that the lists stand for.                                     *)
TreeOf(i) ==
  [type |-> Item(i).type, name |-> Item(i).string, own |-> ~Item(i).ref,
   kids |-> Children(heap, i)]

Forest ==
  INSTANCE JsonForest WITH trees <- [i \in Live(heap) |-> TreeOf(i)], roots <- roots

(* Every call does what its name says to the ordered trees: it adds, moves,*)
(* removes, frees or copies the items it is about, keeps the order of the  *)
(* others, and leaves every other tree alone.                              *)
ForestSpec == Forest!Spec
=============================================================================
