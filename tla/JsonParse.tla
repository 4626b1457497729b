----------------------------- MODULE JsonParse ------------------------------
(***************************************************************************)
(* The parser of cJSON.c as a machine.  A text is a sequence of tokens     *)
(* that ends with the zero byte; pos is the token at buffer.offset.  The   *)
(* calls of parse_value, parse_array and parse_object that are under way   *)
(* are the frames of a stack; any allocation may fail.                     *)
(***************************************************************************)
EXTENDS JsonItems, JsonString

CONSTANTS
  Texts,           (* the texts to parse                                   *)
  NestingLimit     (* CJSON_NESTING_LIMIT                                  *)

VARIABLES
  text,
  require,         (* require_null_terminated                              *)
  pos,
  heap,
  stack,           (* [item, type, head, last]: the lists being built      *)
  depth,           (* buffer.depth                                         *)
  mode,            (* what the code is about to do                         *)
  item,            (* the item that the next value goes to                 *)
  root,            (* the item to return                                   *)
  error,           (* global_error: the token it points to, or 0           *)
  starved          (* history: an allocation has failed                    *)

parseVars == <<text, require, pos, heap, stack, depth, mode, item, root, error, starved>>

(* Tokens.  A token "Bad" begins no value.                                 *)
T(t)       == [t |-> t]
Num(n)     == [t |-> "Num", num |-> n]
Str(units) == [t |-> "Str", units |-> units]

WellEnded(s) ==
  /\ Len(s) \in Nat \ {0} /\ s[Len(s)].t = "NUL"
  /\ \A i \in 1 .. Len(s) - 1 : s[i].t # "NUL"

ASSUME ParseAssumption == NestingLimit \in Nat /\ \A s \in Texts : WellEnded(s)

LiteralType == [null |-> "NULL", false |-> "False", true |-> "True"]
CloserOf    == [type \in {"Array", "Object"} |-> IF type = "Array" THEN "]" ELSE "}"]
OpenerType  == [t \in {"[", "{"} |-> IF t = "[" THEN "Array" ELSE "Object"]

At(p) == text[p].t

(* buffer_skip_whitespace: every byte up to 32 is white, the zero at the   *)
(* end too; who runs past the end goes back to the zero.                   *)
White(p) == At(p) \in {"Ws", "NUL"}

(* Mutant: nobody goes back to the zero.                                   *)
SkipPastEnd(p) ==
  IF \E q \in p .. Len(text) : ~White(q) /\ \A r \in p .. q - 1 : White(r)
    THEN CHOOSE q \in p .. Len(text) : ~White(q) /\ \A r \in p .. q - 1 : White(r)
    ELSE Len(text) + 1

Skip(p) ==
  IF \E q \in p .. Len(text) : ~White(q) /\ \A r \in p .. q - 1 : White(r)
    THEN CHOOSE q \in p .. Len(text) : ~White(q) /\ \A r \in p .. q - 1 : White(r)
    ELSE Len(text)

(* skip_utf8_bom                                                           *)
AfterBom == IF At(1) = "BOM" /\ Len(text) >= 3 THEN 2 ELSE 1

Fail(p) ==
  /\ mode' = "failed" /\ pos' = p
  /\ UNCHANGED <<heap, stack, depth, item, root, error, starved>>

NoMemory(p) ==
  /\ mode' = "failed" /\ pos' = p /\ starved' = TRUE
  /\ UNCHANGED <<heap, stack, depth, item, root, error>>

Succeed(h, p) ==
  /\ heap' = h /\ pos' = p /\ mode' = "after"
  /\ UNCHANGED <<stack, depth, item, root, error, starved>>

ParseInit ==
  /\ text \in Texts /\ require \in BOOLEAN
  /\ pos = 1 /\ stack = <<>> /\ depth = 0 /\ mode = "start"
  /\ item = NULL /\ root = NULL /\ error = 0 /\ starved = FALSE

(* cJSON_ParseWithOpts up to its call of parse_value.                      *)
Begin ==
  /\ mode = "start"
  /\ heap' = NewItem(heap, Blank, 0)
  /\ root' = Fresh(heap) /\ item' = Fresh(heap)
  /\ pos' = Skip(AfterBom) /\ mode' = "value"
  /\ UNCHANGED <<stack, depth, error, starved>>

NoRoot == mode = "start" /\ NoMemory(1)

(* parse_value                                                             *)
ParseLiteral ==
  /\ mode = "value" /\ At(pos) \in DOMAIN LiteralType
  /\ Succeed([heap EXCEPT !.items[item].type = LiteralType[At(pos)]], pos + 1)

ParseNumber ==
  /\ mode = "value" /\ At(pos) = "Num"
  /\ Succeed([heap EXCEPT !.items[item].type = "Number",
                          !.items[item].num = text[pos].num], pos + 1)

(* parse_string: the value of the item, or its key.                        *)
StringAt(p) == At(p) = "Str" /\ Decodes(text[p].units)

StringOf(p) == CString(Bytes(text[p].units))

ParseString ==
  /\ mode = "value" /\ At(pos) = "Str"
  /\ \/ /\ StringAt(pos)
        /\ Succeed([heap EXCEPT !.items[item].type = "String",
                                !.items[item].val = StringOf(pos),
                                !.strs = @ + 1], pos + 1)
     \/ StringAt(pos) /\ NoMemory(pos)
     \/ ~StringAt(pos) /\ Fail(pos)

ParseNothing ==
  /\ mode = "value"
  /\ At(pos) \notin DOMAIN LiteralType \cup DOMAIN OpenerType \cup {"Num", "Str"}
  /\ Fail(pos)

(* The end of parse_array and parse_object: the list becomes the child.    *)
Filled(h, i, type, head) ==
  [h EXCEPT !.items[i].type = type, !.items[i].child = head]

(* The beginning of parse_array and parse_object, up to the loop, which    *)
(* finds pos in front of the first element.                                *)
OpenContainer(type) ==
  LET first == Skip(pos + 1)
  IN  /\ mode = "value" /\ At(pos) \in DOMAIN OpenerType
      /\ type = OpenerType[At(pos)]
      /\ IF depth >= NestingLimit THEN Fail(pos)
         ELSE IF At(first) = CloserOf[type]
           THEN Succeed(Filled(heap, item, type, NULL), first + 1)
         ELSE /\ stack' = Append(stack, [item |-> item, type |-> type,
                                         head |-> NULL, last |-> NULL])
              /\ depth' = depth + 1
              /\ pos' = first - 1 /\ mode' = "next"
              /\ UNCHANGED <<heap, item, root, error, starved>>

Top == stack[Len(stack)]

(* A new item at the end of the list that the top frame builds.            *)
Grown(new) ==
  LET head == IF Top.head = NULL THEN new ELSE Top.head
  IN  [stack EXCEPT ![Len(stack)] = [Top EXCEPT !.head = head, !.last = new]]

WithNew ==
  LET h1 == NewItem(heap, Blank, 0)
  IN  IF Top.head = NULL THEN h1 ELSE Suffix(h1, Top.last, Fresh(heap))

NextElement ==
  /\ mode = "next" /\ Top.type = "Array"
  /\ heap' = WithNew /\ stack' = Grown(Fresh(heap)) /\ item' = Fresh(heap)
  /\ pos' = Skip(pos + 1) /\ mode' = "value"
  /\ UNCHANGED <<depth, root, error, starved>>

(* The key is parsed into the item, and becomes its name.                  *)
NextMember ==
  LET new   == Fresh(heap)
      key   == Skip(pos + 1)
      colon == Skip(key + 1)
      Keyed == [WithNew EXCEPT !.items[new].type = "String",
                               !.items[new].string = StringOf(key),
                               !.strs = @ + 1]
  IN  /\ mode = "next" /\ Top.type = "Object"
      /\ stack' = Grown(new) /\ item' = new
      /\ \/ /\ heap' = WithNew                   (* no key, or no memory *)
            /\ pos' = (IF At(key) = "Str" THEN key ELSE key + 1)
            /\ mode' = "failed"
            /\ starved' = (starved \/ StringAt(key))
         \/ /\ StringAt(key)
            /\ heap' = Keyed /\ UNCHANGED starved
            /\ IF At(colon) = ":"
                 THEN pos' = Skip(colon + 1) /\ mode' = "value"
                 ELSE pos' = colon /\ mode' = "failed"
      /\ UNCHANGED <<depth, root, error>>

NoElement == mode = "next" /\ NoMemory(pos)

(* After parse_value has returned true to parse_array or parse_object.     *)
AfterValue ==
  LET p == Skip(pos)
  IN  /\ mode = "after" /\ stack # <<>>
      /\ \/ /\ At(p) = ","
            /\ pos' = p /\ mode' = "next"
            /\ UNCHANGED <<heap, stack, depth, item, root, error, starved>>
         \/ /\ At(p) = CloserOf[Top.type]
            /\ heap' = Filled(heap, Top.item, Top.type, Top.head)
            /\ stack' = Front(stack) /\ depth' = depth - 1
            /\ pos' = p + 1
            /\ UNCHANGED <<mode, item, root, error, starved>>
         \/ At(p) \notin {",", CloserOf[Top.type]} /\ Fail(p)

(* ... and to cJSON_ParseWithOpts.                                         *)
Finish ==
  LET p == IF require THEN Skip(pos) ELSE pos
  IN  /\ mode = "after" /\ stack = <<>>
      /\ IF require /\ At(p) # "NUL" THEN Fail(p)
         ELSE /\ pos' = p /\ mode' = "parsed"
              /\ UNCHANGED <<heap, stack, depth, item, root, error, starved>>

(* The failure is handed up: every function frees the list it was building.*)
(* Mutant: only the root is freed.                                         *)
UnwindKeepsList ==
  /\ mode = "failed" /\ stack # <<>>
  /\ stack' = Front(stack)
  /\ UNCHANGED <<pos, heap, depth, mode, item, root, error, starved>>

Unwind ==
  /\ mode = "failed" /\ stack # <<>>
  /\ heap' = Delete(heap, Top.head)
  /\ stack' = Front(stack)
  /\ UNCHANGED <<pos, depth, mode, item, root, error, starved>>

GiveUp ==
  /\ mode = "failed" /\ stack = <<>>
  /\ heap' = Delete(heap, root)
  /\ root' = NULL
  /\ error' = IF pos <= Len(text) THEN pos ELSE Len(text)
  /\ mode' = "parsed"
  /\ UNCHANGED <<pos, stack, depth, item, starved>>

ParseStep ==
  \/ Begin \/ NoRoot \/ ParseLiteral \/ ParseNumber \/ ParseString \/ ParseNothing
  \/ \E type \in DOMAIN CloserOf : OpenContainer(type)
  \/ NextElement \/ NextMember \/ NoElement \/ AfterValue \/ Finish
  \/ Unwind \/ GiveUp

ParseNext == ParseStep /\ UNCHANGED <<text, require>>

ParseSpec == ParseInit /\ heap = EmptyHeap(Cardinality(Items)) /\ [][ParseNext]_parseVars

-----------------------------------------------------------------------------
(* The parser never looks behind the zero that ends the text, whatever the *)
(* text is and wherever it stops being JSON, nor nests deeper than the     *)
(* limit (buffer_skip_whitespace, parse_array, parse_object).              *)
InsideText ==
  /\ mode \in {"value", "next", "after"} => pos \in 1 .. Len(text)
  /\ mode = "parsed" /\ root # NULL => pos \in 1 .. Len(text)
  /\ depth <= NestingLimit
=============================================================================
