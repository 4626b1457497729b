----------------------------- MODULE JsonString -----------------------------
(***************************************************************************)
(* String literals of cJSON.c.  What stands between the quotes is a        *)
(* sequence of units: a byte as it is, an escaped character, a UTF-16      *)
(* literal \uXXXX with its code, one whose four characters are not all     *)
(* digits, or an escape that JSON does not know.  A string in memory is    *)
(* its bytes and the zero that ends them.                                  *)
(***************************************************************************)
EXTENDS Integers, Sequences, SequencesExt, FiniteSetsExt

Raw(b)  == [kind |-> "raw", code |-> b]
Esc(b)  == [kind |-> "esc", code |-> b]
U(code) == [kind |-> "u", code |-> code]
NoHex   == [kind |-> "nohex", code |-> 0]
Unknown == [kind |-> "unknown", code |-> 0]

Quote     == 34
Backslash == 92

(* \b \f \n \r \t, and the quote and the backslash, have a short escape.   *)
ShortEscapes == {8, 9, 10, 12, 13, Quote, Backslash}

(* Characters of the text that a unit takes.                               *)
Width(u) ==
  CASE u.kind = "raw"                -> 1
    [] u.kind \in {"esc", "unknown"} -> 2
    [] u.kind \in {"u", "nohex"}     -> 6

WidthOf(units) == FoldLeft(LAMBDA w, u : w + Width(u), 0, units)

(* parse_hex4: characters that are not digits make the code 0.             *)
Hex4(u) == IF u.kind = "nohex" THEN 0 ELSE u.code

Literal16(u) == u.kind \in {"u", "nohex"}
IsHigh(u) == Literal16(u) /\ Hex4(u) \in 55296 .. 56319
IsLow(u)  == Literal16(u) /\ Hex4(u) \in 56320 .. 57343

FromPair(high, low) == 65536 + (high % 1024) * 1024 + (low % 1024)

(* The last byte carries six bits, and so does every byte but the first.   *)
Utf8(cp) ==
  LET Tail6(k) == 128 + ((cp \div 64 ^ k) % 64)
  IN  IF cp < 128 THEN <<cp>>
      ELSE IF cp < 2048  THEN <<192 + (cp \div 64), Tail6(0)>>
      ELSE IF cp < 65536 THEN <<224 + (cp \div 4096), Tail6(1), Tail6(0)>>
      ELSE <<240 + (cp \div 262144), Tail6(2), Tail6(1), Tail6(0)>>

(* A surrogate is one of a pair, whose other half is next to it.           *)
PairOk(units, i) ==
  /\ IsHigh(units[i]) => i < Len(units) /\ IsLow(units[i + 1])
  /\ IsLow(units[i])  => i > 1 /\ IsHigh(units[i - 1])

(* Mutant: a second half of a pair may stand alone.                        *)
DecodesLoneLow(units) ==
  \A i \in 1 .. Len(units) :
    /\ units[i].kind # "unknown"
    /\ IsHigh(units[i]) => i < Len(units) /\ IsLow(units[i + 1])

Decodes(units) ==
  \A i \in 1 .. Len(units) : units[i].kind # "unknown" /\ PairOk(units, i)

BytesAt(units, i) ==
  LET u == units[i]
  IN  CASE ~Literal16(u) -> <<u.code>>
        [] IsHigh(u) -> Utf8(FromPair(Hex4(u), Hex4(units[i + 1])))
        [] IsLow(u)  -> <<>>
        [] OTHER     -> Utf8(Hex4(u))

(* What parse_string writes before the zero.                               *)
Bytes(units) == FlattenSeq([i \in 1 .. Len(units) |-> BytesAt(units, i)])

(* The string that the bytes are to who reads up to the first zero.        *)
CString(bytes) ==
  LET zeros == {i \in 1 .. Len(bytes) : bytes[i] = 0}
      n     == IF zeros = {} THEN Len(bytes) ELSE Min(zeros) - 1
  IN  Append(SubSeq(bytes, 1, n), 0)

(* What parse_string allocates: from the opening quote to the closing one, *)
(* less a byte for every backslash, and the zero.                          *)
AllocationLength(units) ==
  1 + WidthOf(units) - Len(SelectSeq(units, LAMBDA u : u.kind # "raw")) + 1

(* print_string_ptr                                                        *)
UnitOf(b) ==
  CASE b \in ShortEscapes                -> Esc(b)
    [] b < 32 /\ b \notin ShortEscapes   -> U(b)
    [] OTHER                             -> Raw(b)

PrintedUnits(string) ==
  IF string = <<>> THEN <<>>
  ELSE [i \in 1 .. Len(string) - 1 |-> UnitOf(string[i])]

(* What print_string_ptr reserves room for: a byte more for a short escape,*)
(* five for a UTF-16 literal, and two quotes and the zero.                 *)
(* Mutant: every escape counts five bytes.                                 *)
OutputLengthLong(string) ==
  LET n(b) == IF b \in ShortEscapes \/ b < 32 THEN 6 ELSE 1
  IN  FoldLeft(LAMBDA w, b : IF b = 0 THEN w ELSE w + n(b), 0, string) + 3

OutputLength(string) ==
  LET n(b) == IF b \in ShortEscapes THEN 2 ELSE IF b < 32 THEN 6 ELSE 1
  IN  FoldLeft(LAMBDA w, b : IF b = 0 THEN w ELSE w + n(b), 0, string) + 3
=============================================================================
