------------------------------ MODULE JsonText ------------------------------
(***************************************************************************)
(* Text to items and back: an application parses a text, prints what it    *)
(* got by one of the print functions, frees it, and parses the print.  The *)
(* reference is the grammar of JSON, as the set of values that a text can  *)
(* stand for.                                                              *)
(***************************************************************************)
EXTENDS JsonParse

CONSTANTS
  IntMax, DefaultSize, Lengths,    (* of JsonPrint                         *)
  Meaning(_),                      (* the bytes that a literal stands for, *)
                                   (* as a set of one, or none             *)
  Infinite                         (* of JsonPrint                         *)

ASSUME TextAssumption ==
  IntMax \in Nat /\ DefaultSize \in Nat \ {0} /\ Lengths \subseteq Nat

VARIABLES how, format, buffer, out, tail, nul, top, path, at, phase,
  turn,      (* the first or the second text                               *)
  first      (* the value that was printed                                 *)

printerVars == <<how, format, buffer, out, tail, nul, top, path, at, phase>>

vars == <<parseVars, printerVars, turn, first>>

Printer == INSTANCE JsonPrint

-----------------------------------------------------------------------------
(* Values, and the grammar.                                                *)
Value(type, num, val, kids) == [type |-> type, num |-> num, val |-> val, kids |-> kids]

Leaf(type) == Value(type, 0, NoString, <<>>)

Scalar(tok) ==
  CASE tok.t \in DOMAIN LiteralType -> {Leaf(LiteralType[tok.t])}
    [] tok.t = "Num" -> {Value("Number", tok.num, NoString, <<>>)}
    [] tok.t = "Str" -> {Value("String", 0, b, <<>>) : b \in Meaning(tok.units)}
    [] OTHER -> {}

(* The values that exactly the tokens s stand for, none of them white, in  *)
(* containers at most n deep; a member is a pair of a name and a value.    *)
RECURSIVE Values(_, _), Members(_, _, _)
Values(s, n) ==
  IF Len(s) = 1 THEN Scalar(s[1])
  ELSE IF Len(s) < 2 \/ n = 0 THEN {}
  ELSE LET inner == SubSeq(s, 2, Len(s) - 1)
           Is(o, c) == s[1].t = o /\ s[Len(s)].t = c
           type  == IF Is("[", "]") THEN "Array" ELSE "Object"
       IN  IF ~Is("[", "]") /\ ~Is("{", "}") THEN {}
           ELSE IF inner = <<>> THEN {Leaf(type)}
           ELSE {Value(type, 0, NoString, k) : k \in Members(inner, type, n - 1)}

Members(s, type, n) ==
  LET One(r) ==
        IF type = "Array" THEN {<<NoString, v>> : v \in Values(r, n)}
        ELSE IF Len(r) < 3 \/ r[1].t # "Str" \/ r[2].t # ":" THEN {}
        ELSE {<<b, v>> : b \in Meaning(r[1].units), v \in Values(SubSeq(r, 3, Len(r)), n)}
  IN  {<<m>> : m \in One(s)}
        \cup UNION {{Append(k, m) : k \in Members(SubSeq(s, 1, i - 1), type, n),
                                    m \in One(SubSeq(s, i + 1, Len(s)))} :
                      i \in {j \in 2 .. Len(s) - 1 : s[j].t = ","}}

(* What a text stands for: all of it, or a beginning if more may follow.   *)
Denoted(s, all) ==
  LET b    == IF s[1].t = "BOM" THEN Tail(s) ELSE s
      core == SelectSeq(b, LAMBDA tok : tok.t \notin {"Ws", "NUL"})
  IN  UNION {Values(SubSeq(core, 1, k), NestingLimit) :
               k \in IF all THEN {Len(core)} ELSE 1 .. Len(core)}

(* The value that an item of the heap stands for.                          *)
RECURSIVE ValueOf(_, _)
ValueOf(h, i) ==
  LET it == h.items[i]
      c  == Chain(h, it.child)
  IN  Value(it.type, it.num, it.val,
            [k \in 1 .. Len(c) |-> <<h.items[c[k]].string, ValueOf(h, c[k])>>])

(* A number that is none is printed as null.                               *)
RECURSIVE Shown(_)
Shown(v) ==
  IF v.type = "Number" /\ v.num = Infinite THEN Leaf("NULL")
  ELSE [v EXCEPT !.kids = [k \in DOMAIN @ |-> <<@[k][1], Shown(@[k][2])>>]]

(* The bytes that printing a value takes, indented or not; d is its depth. *)
RECURSIVE Size(_, _, _)
Size(v, fmt, d) ==
  LET n    == Len(v.kids)
      line == IF fmt THEN 1 ELSE 0
      Sum(F(_)) == FoldLeft(LAMBDA w, k : w + F(k), 0, [k \in 1 .. n |-> k])
      Name(k)   == Printer!TokWidth(Str(PrintedUnits(v.kids[k][1])))
      Sub(k)    == Size(v.kids[k][2], fmt, d + 1)
      commas    == IF n = 0 THEN 0 ELSE n - 1
  IN  CASE v.type = "Array"  -> 2 + Sum(Sub) + commas * (1 + line)
        [] v.type = "Object" ->
             2 + Sum(Sub) + Sum(Name) + n + commas
               + line * (1 + n * (d + 1) + n + n + d)
        [] OTHER -> Printer!TextWidth(Printer!ScalarTokens(v))

-----------------------------------------------------------------------------
Init ==
  /\ ParseInit /\ heap = EmptyHeap(Cardinality(Items))
  /\ Printer!PrintInit
  /\ turn = 1 /\ first = Leaf("Invalid")

Parse ==
  /\ ParseStep
  /\ UNCHANGED <<text, require, printerVars, turn, first>>

PrintValue ==
  /\ mode = "parsed" /\ root # NULL /\ turn = 1
  /\ \/ Printer!StartPrint(root) /\ first' = ValueOf(heap, root)
     \/ Printer!PrintStep /\ UNCHANGED <<how, format, first>>
  /\ UNCHANGED <<parseVars, turn>>

(* The items are freed, and the print is parsed.                           *)
ReadBack ==
  /\ phase = "text" /\ turn = 1
  /\ heap' = Delete(heap, root)
  /\ text' = Append(out \o tail, T("NUL")) /\ require' = TRUE
  /\ pos' = 1 /\ mode' = "start" /\ root' = NULL /\ item' = NULL
  /\ turn' = 2
  /\ UNCHANGED <<stack, depth, error, starved, printerVars, first>>

Next == Parse \/ PrintValue \/ ReadBack

Spec == Init /\ [][Next]_vars

-----------------------------------------------------------------------------
(* What comes out of the parser is what the grammar says: the value if the *)
(* text (its beginning, unless the whole is required) stands for one,      *)
(* nothing if it stands for none or memory ran out; and the position that  *)
(* is reported is inside the text, and only reported for a failure.        *)
ParsedRight ==
  mode = "parsed" =>
    /\ IF root = NULL THEN starved \/ Denoted(text, require) = {}
                      ELSE Denoted(text, require) = {ValueOf(heap, root)}
    /\ error \in 0 .. Len(text) /\ (turn = 1 => (error = 0 <=> root # NULL))

(* Whatever fails and wherever, the memory that stays allocated is that of *)
(* the value the application got, and of the text it got.                  *)
NothingLeaks ==
  /\ mode = "parsed" =>
       /\ Live(heap) = Reach(heap, root)
       /\ heap.strs = MapThenSumSet(LAMBDA i : OwnStrings(heap.items[i]), Live(heap))
  /\ phase = "unprinted" => buffer.live = (how = "given")

(* No write leaves its buffer: the bytes of a string fit what parse_string *)
(* allocated, every token what ensure granted, and there is a zero where   *)
(* strlen and the reader of the print look for one.                        *)
WritesFit ==
  /\ mode = "value" /\ StringAt(pos) =>
       Len(Bytes(text[pos].units)) + 1 <= AllocationLength(text[pos].units)
  /\ buffer.live => top <= buffer.length
  /\ phase \in {"printed", "keyed", "text"} => nul

(* A print is read back as the value that was printed.                     *)
ReadsBack ==
  turn = 2 /\ mode = "parsed" /\ ~starved =>
    root # NULL /\ ValueOf(heap, root) = Shown(first)

(* cJSON_PrintPreallocated never refuses a buffer that has one byte more   *)
(* than the text and its zero; cJSON.h asks the caller for five.           *)
EnoughIsEnough ==
  how = "given" /\ phase = "unprinted" => buffer.length < Size(first, format, 0) + 2
=============================================================================
