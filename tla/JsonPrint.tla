----------------------------- MODULE JsonPrint ------------------------------
(***************************************************************************)
(* The printer of cJSON.c as a machine.  The text is kept as tokens, and   *)
(* the printbuffer as its length and offset in bytes.  The calls of        *)
(* print_array and print_object that are under way are the frames of path; *)
(* any allocation may fail.                                                *)
(***************************************************************************)
EXTENDS JsonItems, JsonString

CONSTANTS
  IntMax,          (* INT_MAX                                              *)
  DefaultSize,     (* default_buffer_size of print()                       *)
  Lengths,         (* prebuffer, or the length of the caller's buffer      *)
  Infinite         (* a number that is none: print_number writes null      *)

VARIABLES
  heap,
  how,             (* "print", "buffered", "given": the function called    *)
  format,
  buffer,          (* [live, length, offset]                               *)
  out,             (* the tokens before the offset                         *)
  tail,            (* those behind it, which strlen finds                  *)
  nul,             (* a zero ends them                                     *)
  top,             (* history: the end of the last write                   *)
  path,            (* the containers that are open                         *)
  at,              (* the item that is printed                             *)
  phase            (* what the code is about to do                         *)

printVars == <<how, format, buffer, out, tail, nul, top, path, at, phase>>

Tok(t)   == [t |-> t]
Spaces(n) == [k \in 1 .. n |-> Tok("Ws")]

NumToken(n) == IF n = Infinite THEN Tok("null") ELSE [t |-> "Num", num |-> n]

TokWidth(tok) ==
  CASE tok.t \in {"null", "true"} -> 4
    [] tok.t = "false"            -> 5
    [] tok.t = "Num"              -> IF tok.num < 10 THEN 1 ELSE 2
    [] tok.t = "Str"              -> 2 + WidthOf(tok.units)
    [] OTHER                      -> 1

TextWidth(toks) == FoldLeft(LAMBDA w, tok : w + TokWidth(tok), 0, toks)

PrintInit ==
  /\ how = "print" /\ format = FALSE
  /\ buffer = [live |-> FALSE, length |-> 0, offset |-> 0]
  /\ out = <<>> /\ tail = <<>> /\ nul = FALSE /\ top = 0
  /\ path = <<>> /\ at = NULL /\ phase = "idle"

(* ensure: the buffers that it may leave; none if it refuses before it     *)
(* looks for memory.                                                       *)
NewSize(n) == IF n <= IntMax \div 2 THEN 2 * n ELSE IntMax

(* Mutant: what is in the buffer already is not counted.                   *)
EnsureForgetsOffset(needed) ==
  LET n == needed + 1
  IN  IF ~buffer.live \/ needed > IntMax THEN {}
      ELSE IF n <= buffer.length THEN {buffer}
      ELSE IF how = "given" \/ n > IntMax THEN {}
      ELSE {[buffer EXCEPT !.length = NewSize(n)],
            [buffer EXCEPT !.length = 0, !.live = FALSE]}

Ensure(needed) ==
  LET n == needed + buffer.offset + 1
  IN  IF \/ ~buffer.live
         \/ buffer.length > 0 /\ buffer.offset >= buffer.length
         \/ needed > IntMax
        THEN {}
      ELSE IF n <= buffer.length THEN {buffer}
      ELSE IF how = "given" \/ n > IntMax THEN {}
      ELSE {[buffer EXCEPT !.length = NewSize(n)],
            [buffer EXCEPT !.length = 0, !.live = FALSE]}

(* Tokens are written at the offset, over what may be there; moved says    *)
(* whether the offset moves behind them.                                   *)
Written(b, toks, zero, moved) ==
  LET w == TextWidth(toks)
  IN  /\ b.live
      /\ buffer' = [b EXCEPT !.offset = IF moved THEN @ + w ELSE @]
      /\ out' = IF moved THEN out \o toks ELSE out
      /\ tail' = IF moved THEN <<>> ELSE toks
      /\ nul' = zero
      /\ top' = b.offset + w + (IF zero THEN 1 ELSE 0)

(* print_value returns false: every caller does, at once.                  *)
Refused(needed) ==
  /\ \/ Ensure(needed) = {} /\ UNCHANGED buffer
     \/ \E b \in Ensure(needed) : ~b.live /\ buffer' = b
  /\ phase' = "refused"
  /\ UNCHANGED <<out, tail, nul, top, path, at>>

Write(needed, toks, zero, moved) ==
  \E b \in Ensure(needed) : Written(b, toks, zero, moved)

It == heap.items[at]

(* print, cJSON_PrintBuffered and cJSON_PrintPreallocated up to their call *)
(* of print_value.                                                         *)
StartPrint(i) ==
  /\ phase = "idle"
  /\ how' \in {"print", "buffered", "given"} /\ format' \in BOOLEAN
  /\ \/ \E n \in (IF how' = "print" THEN {DefaultSize} ELSE Lengths) :
          /\ buffer' = [live |-> TRUE, length |-> n, offset |-> 0]
          /\ at' = i /\ phase' = "value"
     \/ /\ how' # "given" /\ phase' = "unprinted" /\ UNCHANGED <<buffer, at>>
  /\ UNCHANGED <<out, tail, nul, top, path>>

(* print_value of an item without children.                                *)
ScalarTokens(it) ==
  CASE it.type = "NULL"   -> <<Tok("null")>>
    [] it.type = "True"   -> <<Tok("true")>>
    [] it.type = "False"  -> <<Tok("false")>>
    [] it.type = "Number" -> <<NumToken(it.num)>>
    [] it.type = "String" -> <<[t |-> "Str", units |-> PrintedUnits(it.val)]>>

Scalars == {"NULL", "True", "False", "Number", "String"}

Needed(it) ==
  IF it.type = "String" THEN OutputLength(it.val) ELSE TextWidth(ScalarTokens(it)) + 1

PrintScalar ==
  /\ phase = "value" /\ It.type \in Scalars
  /\ \/ /\ Write(Needed(It), ScalarTokens(It), TRUE,
                 It.type = "Number")
        /\ phase' = "printed" /\ UNCHANGED <<path, at>>
     \/ Refused(Needed(It))

(* Below an open container comes its first child, or its end.              *)
Descend ==
  LET c == It.child
  IN  /\ path' = Append(path, at)
      /\ at' = c
      /\ phase' = IF c = NULL THEN "close"
                  ELSE IF It.type = "Array" THEN "value"
                  ELSE IF format THEN "indent" ELSE "key"

OpenArray ==
  /\ phase = "value" /\ It.type = "Array"
  /\ \/ Write(1, <<Tok("[")>>, FALSE, TRUE) /\ Descend
     \/ Refused(1)

OpenObject ==
  LET length == IF format THEN 2 ELSE 1
  IN  /\ phase = "value" /\ It.type = "Object"
      /\ \/ /\ Write(length + 1, <<Tok("{")>> \o Spaces(length - 1), FALSE, TRUE)
            /\ Descend
         \/ Refused(length + 1)

Depth == Len(path)

Indent ==
  /\ phase = "indent"
  /\ \/ Write(Depth, Spaces(Depth), FALSE, TRUE) /\ phase' = "key" /\ UNCHANGED <<path, at>>
     \/ Refused(Depth)

Key ==
  /\ phase = "key"
  /\ \/ /\ Write(OutputLength(It.string),
                 <<[t |-> "Str", units |-> PrintedUnits(It.string)]>>, TRUE, FALSE)
        /\ phase' = "keyed" /\ UNCHANGED <<path, at>>
     \/ Refused(OutputLength(It.string))

(* update_offset: strlen, from the offset.                                 *)
UpdateOffset(next) ==
  /\ buffer' = [buffer EXCEPT !.offset = @ + TextWidth(tail)]
  /\ out' = out \o tail /\ tail' = <<>> /\ phase' = next
  /\ UNCHANGED <<nul, top, path, at>>

(* Mutant: the colon is written over the key.                              *)
KeyOverwritten ==
  /\ phase = "keyed" /\ phase' = "colon"
  /\ UNCHANGED <<buffer, out, tail, nul, top, path, at>>

KeyDone == phase = "keyed" /\ UpdateOffset("colon")

Colon ==
  LET length == IF format THEN 2 ELSE 1
  IN  /\ phase = "colon"
      /\ \/ /\ Write(length, <<Tok(":")>> \o Spaces(length - 1), FALSE, TRUE)
            /\ phase' = "value" /\ UNCHANGED <<path, at>>
         \/ Refused(length)

(* print_value has returned true to print_array or print_object.           *)
ValueDone ==
  phase = "printed" /\ path # <<>> /\ UpdateOffset("separate")

Parent == path[Len(path)]

OnTo(next) ==
  /\ at' = It.next /\ UNCHANGED path
  /\ phase' = IF It.next = NULL THEN "close" ELSE next

Separate ==
  LET more   == IF It.next # NULL THEN 1 ELSE 0
      line   == IF format THEN 1 ELSE 0
      comma  == [k \in 1 .. more |-> Tok(",")]
      inList == heap.items[Parent].type = "Array"
      length == IF inList THEN more * (1 + line) ELSE more + line
  IN  /\ phase = "separate"
      /\ \/ /\ inList /\ more = 0
            /\ OnTo("value")
            /\ UNCHANGED <<buffer, out, tail, nul, top>>
         \/ /\ ~inList \/ more = 1
            /\ Write(length + 1, comma \o Spaces(length - more), TRUE, TRUE)
            /\ OnTo(IF inList THEN "value" ELSE IF format THEN "indent" ELSE "key")
         \/ (~inList \/ more = 1) /\ Refused(length + 1)

Close ==
  LET inList == heap.items[Parent].type = "Array"
      tabs   == IF format /\ ~inList THEN Depth - 1 ELSE 0
      needed == IF format /\ ~inList THEN Depth + 1 ELSE 2
  IN  /\ phase = "close"
      /\ \/ /\ Write(needed, Spaces(tabs) \o <<Tok(IF inList THEN "]" ELSE "}")>>, TRUE, FALSE)
            /\ path' = Front(path) /\ at' = Parent /\ phase' = "printed"
         \/ Refused(needed)

(* print: the text moves to a buffer of its size, if there is one.         *)
Trim ==
  /\ phase = "printed" /\ path = <<>> /\ how = "print"
  /\ LET end == buffer.offset + TextWidth(tail)
     IN  \/ /\ buffer' = [live |-> TRUE, length |-> end + 1, offset |-> end]
            /\ phase' = "text"
         \/ /\ buffer' = [buffer EXCEPT !.live = FALSE, !.offset = end]
            /\ phase' = "unprinted"
  /\ out' = out \o tail /\ tail' = <<>>
  /\ UNCHANGED <<nul, top, path, at>>

HandOver ==
  /\ phase = "printed" /\ path = <<>> /\ how # "print"
  /\ phase' = "text"
  /\ UNCHANGED <<buffer, out, tail, nul, top, path, at>>

(* The failure arrives: the buffer is freed unless it is the caller's.     *)
Drop ==
  /\ phase = "refused"
  /\ buffer' = [buffer EXCEPT !.live = how = "given"]
  /\ phase' = "unprinted"
  /\ UNCHANGED <<out, tail, nul, top, path, at>>

PrintStep ==
  \/ PrintScalar \/ OpenArray \/ OpenObject
  \/ Indent \/ Key \/ KeyDone \/ Colon \/ ValueDone \/ Separate \/ Close
  \/ Trim \/ HandOver \/ Drop

PrintNext ==
  /\ \/ \E i \in Live(heap) : StartPrint(i)
     \/ PrintStep /\ UNCHANGED <<how, format>>
  /\ UNCHANGED heap

PrintSpec == PrintInit /\ [][PrintNext]_<<heap, printVars>>
=============================================================================
