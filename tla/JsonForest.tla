----------------------------- MODULE JsonForest -----------------------------
(***************************************************************************)
(* What the editing functions of cJSON promise: items form ordered trees.  *)
(* A tree is [type, name, own, kids] for each of its items: own is FALSE   *)
(* for a reference, which shows the children of another item.  roots are   *)
(* the items that the application holds.                                   *)
(***************************************************************************)
EXTENDS Integers, Sequences, SequencesExt, FiniteSets

VARIABLES trees, roots

forestVars == <<trees, roots>>

Init == trees = <<>> /\ roots = {}

LOCAL Kids(i) == trees[i].kids
LOCAL OwnKids(i) == IF trees[i].own THEN ToSet(Kids(i)) ELSE {}
LOCAL Without(S) == [i \in DOMAIN trees \ S |-> trees[i]]

(* An item and all that hangs from it.                                     *)
LOCAL Under(i) ==
  LET within[n \in 0 .. Cardinality(DOMAIN trees)] ==
        IF n = 0 THEN {i}
        ELSE within[n - 1] \cup UNION {OwnKids(j) : j \in within[n - 1]}
  IN  within[Cardinality(DOMAIN trees)]

(* The items that are new after a step, the others unchanged.              *)
LOCAL Born == DOMAIN trees' \ DOMAIN trees
LOCAL Single(i) ==
  /\ Born = {i}
  /\ IF trees'[i].own THEN trees'[i].kids = <<>>
     ELSE \E j \in DOMAIN trees : trees'[i].kids = Kids(j) /\ trees'[i].type = trees[j].type
LOCAL OthersStay == \A i \in DOMAIN trees : i \in DOMAIN trees' /\ trees'[i] = trees[i]

(* A new item, or an array of new items, in the hands of the application.  *)
Make ==
  \E top \in Born :
    /\ roots' = roots \cup {top}
    /\ \A i \in Born : trees'[i].own /\ (i # top => trees'[i].kids = <<>>)
    /\ ToSet(trees'[top].kids) = Born \ {top} /\ IsInjective(trees'[top].kids)

(* The items of t that hang from i, shape by shape.                        *)
LOCAL SameShape(t, i, u, j) ==
  LET same[n \in 0 .. Cardinality(DOMAIN u), a \in DOMAIN t, b \in DOMAIN u] ==
        /\ t[a].type = u[b].type /\ Len(t[a].kids) = Len(u[b].kids)
        /\ n > 0 => \A k \in DOMAIN t[a].kids : same[n - 1, t[a].kids[k], u[b].kids[k]]
        /\ n > 0 => \A k \in DOMAIN t[a].kids :
                      t[t[a].kids[k]].name = u[u[b].kids[k]].name
  IN  same[Cardinality(DOMAIN u), i, j]

(* A copy of a tree, or of its top, made of new items.                     *)
Copy ==
  \E top \in Born, i \in DOMAIN trees :
    /\ roots' = roots \cup {top}
    /\ trees'[top].name = trees[i].name /\ \A j \in Born : trees'[j].own
    /\ \/ SameShape(trees, i, trees', top)
       \/ Born = {top} /\ trees'[top].kids = <<>> /\ trees'[top].type = trees[i].type

(* A new item that nobody holds.                                           *)
Stray ==
  /\ UNCHANGED roots
  /\ \E i \in Born : Single(i)

Adding ==
  /\ OthersStay
  /\ Make \/ Stray \/ Copy

(* A new item is hung from p, behind its last child.                       *)
PlaceNew(p) ==
  \E i \in Born :
    /\ Single(i)
    /\ \A j \in DOMAIN trees :
         trees'[j] = IF j = p THEN [trees[p] EXCEPT !.kids = Append(@, i)] ELSE trees[j]

(* An item is named anew when it gets a place.                             *)
LOCAL Renamed(t, i) == [t EXCEPT ![i].name = trees'[i].name]

(* An item of the application's is hung from p, before its k-th child.     *)
Place(p, k, i) ==
  /\ p \notin Under(i)
  /\ trees' = Renamed([trees EXCEPT ![p].kids = InsertAt(@, k, i)], i)

(* ... or takes the place of the k-th, which is freed with all that hangs  *)
(* from it.                                                                *)
Exchange(p, k, i) ==
  /\ p \notin Under(i)
  /\ trees' = Renamed([Without(Under(Kids(p)[k])) EXCEPT ![p].kids = ReplaceAt(@, k, i)], i)

(* ... or finds none: nobody holds it any more.                            *)
Lose(i) == trees' = Renamed(trees, i)

(* The k-th child of p is handed to the application, or freed with all     *)
(* that hangs from it.                                                     *)
HandBack(p, k) ==
  /\ roots' = roots \cup {Kids(p)[k]}
  /\ trees' = [trees EXCEPT ![p].kids = RemoveAt(@, k)]

Evict(p, k) ==
  trees' = [Without(Under(Kids(p)[k])) EXCEPT ![p].kids = RemoveAt(@, k)]

Free(i) == trees' = Without(Under(i))

(* The steps by what becomes of the items that the application holds.      *)
Next ==
  \/ Adding
  \/ /\ roots' = roots
     /\ \E p \in DOMAIN trees :
          PlaceNew(p) \/ \E k \in 1 .. Len(Kids(p)) : Evict(p, k)
  \/ \E i \in roots :
       /\ roots' = roots \ {i}
       /\ \/ Free(i)
          \/ /\ i \in DOMAIN trees'
             /\ \/ Lose(i)
                \/ \E p \in DOMAIN trees :
                     \/ \E k \in 1 .. Len(Kids(p)) + 1 : Place(p, k, i)
                     \/ \E k \in 1 .. Len(Kids(p)) : Exchange(p, k, i)
  \/ \E p \in DOMAIN trees : \E k \in 1 .. Len(Kids(p)) : HandBack(p, k)

Spec == Init /\ [][Next]_forestVars
=============================================================================
