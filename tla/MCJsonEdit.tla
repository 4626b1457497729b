----------------------------- MODULE MCJsonEdit -----------------------------
(* JsonEdit on a few items.  The keys are "a" and "A"; the lists of three that *)
(* insertion and removal in the middle need are arrays.                     *)
EXTENDS JsonEdit

ItemsValue    == 1 .. 4
a == <<97, 0>>
A == <<65, 0>>

NamesValue    == {a, A}
LiteralsValue == {a}
FoldValue(k)  == IF k = A THEN a ELSE k
ProgramsValue == {[types |-> {"Array", "String"}, room |-> 4],
                  [types |-> {"Object", "String"}, room |-> 2],
                  [types |-> {"Array", "Object"}, room |-> 3]}
=============================================================================
