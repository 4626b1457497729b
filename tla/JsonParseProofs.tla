--------------------------- MODULE JsonParseProofs --------------------------
(***************************************************************************)
(* Proofs about JsonParse, for any texts that end with their only zero and *)
(* any nesting limit.                                                      *)
(***************************************************************************)
EXTENDS JsonParse, TLAPS

(* Where the parser is, by what it is about to do: before the zero when    *)
(* the next token is known not to be it, at the zero at most otherwise.    *)
PlaceInv ==
  /\ WellEnded(text) /\ pos \in Int
  /\ mode = "start" => pos = 1
  /\ mode \in {"value", "after"} => pos \in 1 .. Len(text)
  /\ mode = "next" => pos \in 1 .. Len(text) - 1
  /\ mode = "parsed" /\ root # NULL => pos \in 1 .. Len(text)

DepthInv == depth \in Int /\ depth <= NestingLimit

(* The frames of the calls that are under way: the list that a frame       *)
(* builds closes with a bracket, never with the zero.                      *)
Frames(S) == [item : S, type : {"Array", "Object"}, head : S, last : S]

FramesInv == \E S : stack \in Seq(Frames(S))

BusyInv == mode = "next" => stack # <<>>

IInv == PlaceInv /\ DepthInv /\ FramesInv /\ BusyInv

(* A token that is not the zero is not the last.                           *)
LEMMA NotTheEnd ==
  ASSUME WellEnded(text), NEW p \in 1 .. Len(text), At(p) # "NUL"
  PROVE  p + 1 \in 1 .. Len(text) /\ p \in 1 .. Len(text) - 1
  BY DEF WellEnded, At

LEMMA CloserIsToken ==
  ASSUME NEW type \in {"Array", "Object"}
  PROVE  CloserOf[type] # "NUL"
  BY DEF CloserOf

LEMMA SkipStays ==
  ASSUME WellEnded(text), NEW p \in 1 .. Len(text)
  PROVE  Skip(p) \in p .. Len(text)
<1> DEFINE Stop(q) == ~White(q) /\ \A r \in p .. q - 1 : White(r)
<1> HIDE DEF Stop
<1>1. CASE \E q \in p .. Len(text) : Stop(q)
  <2>1. (CHOOSE q \in p .. Len(text) : Stop(q)) \in p .. Len(text)
    BY <1>1
  <2> QED
    BY <1>1, <2>1 DEF Skip, Stop
<1>2. CASE ~ \E q \in p .. Len(text) : Stop(q)
  BY <1>2 DEF Skip, Stop, WellEnded
<1> QED
  BY <1>1, <1>2

LEMMA AfterBomInside ==
  ASSUME WellEnded(text)
  PROVE  AfterBom \in 1 .. Len(text)
  BY DEF AfterBom, WellEnded

LEMMA SeqMonotone ==
  ASSUME NEW A, NEW B, A \subseteq B, NEW s \in Seq(A)
  PROVE  s \in Seq(B)
  OBVIOUS

LEMMA LastReplaced ==
  ASSUME NEW A, NEW s \in Seq(A), s # <<>>, NEW x \in A
  PROVE  [s EXCEPT ![Len(s)] = x] \in Seq(A)
  OBVIOUS

LEMMA FrontFrames ==
  ASSUME NEW S, stack \in Seq(Frames(S)), stack # <<>>
  PROVE  /\ Front(stack) \in Seq(Frames(S))
         /\ Top \in Frames(S)
  BY DEF Front, Top

LEMMA FramesStep == IInv /\ [ParseNext]_parseVars => FramesInv'
<1> SUFFICES ASSUME IInv, [ParseNext]_parseVars PROVE FramesInv'
  OBVIOUS
<1> PICK S : stack \in Seq(Frames(S))
  BY DEF IInv, FramesInv
<1>1. CASE stack' = stack
  BY <1>1 DEF FramesInv
<1>2. CASE stack # <<>> /\ stack' = Front(stack)
  BY <1>2, FrontFrames DEF FramesInv
<1>3. ASSUME NEW type \in {"Array", "Object"},
             stack' = Append(stack, [item |-> item, type |-> type,
                                     head |-> NULL, last |-> NULL])
      PROVE  FramesInv'
  <2> DEFINE R == S \cup {item, NULL}
  <2>1. stack \in Seq(Frames(R))
    <3>1. Frames(S) \subseteq Frames(R)
      BY DEF Frames
    <3> QED
      BY <3>1, SeqMonotone
  <2>2. [item |-> item, type |-> type, head |-> NULL, last |-> NULL] \in Frames(R)
    BY DEF Frames
  <2>3. stack' \in Seq(Frames(R))
    BY <1>3, <2>1, <2>2
  <2> QED
    BY <2>3 DEF FramesInv
<1>4. ASSUME NEW new, stack # <<>>, stack' = Grown(new)
      PROVE  FramesInv'
  <2> DEFINE R == S \cup {new}
  <2>1. stack \in Seq(Frames(R))
    <3>1. Frames(S) \subseteq Frames(R)
      BY DEF Frames
    <3> QED
      BY <3>1, SeqMonotone
  <2>2. Top \in Frames(R)
    BY <1>4, <2>1, FrontFrames
  <2>3. ASSUME NEW h \in {new, Top.head}
        PROVE  [Top EXCEPT !.head = h, !.last = new] \in Frames(R)
    BY <2>2 DEF Frames
  <2>4. stack' \in Seq(Frames(R))
    BY <1>4, <2>1, <2>3, LastReplaced DEF Grown, Top
  <2> QED
    BY <2>4 DEF FramesInv
<1>5. ASSUME NEW type \in DOMAIN CloserOf, OpenContainer(type) PROVE FramesInv'
  BY <1>1, <1>3, <1>5 DEF OpenContainer, CloserOf, Fail, Succeed
<1>6. CASE Unwind
  BY <1>2, <1>6 DEF Unwind
<1>7. CASE AfterValue
  BY <1>1, <1>2, <1>7 DEF AfterValue, Fail
<1>8. CASE NextElement \/ NextMember
  <2>1. stack # <<>>
    BY <1>8 DEF IInv, BusyInv, NextElement, NextMember
  <2> QED
    BY <1>4, <1>8, <2>1 DEF NextElement, NextMember
<1> QED
  BY <1>1, <1>5, <1>6, <1>7, <1>8
  DEF ParseNext, ParseStep, parseVars, Begin, NoRoot, ParseLiteral, ParseNumber, ParseString,
      ParseNothing, NoElement, Finish, GiveUp, Fail, NoMemory, Succeed

(* Between an element and the next the list is under construction.         *)
LEMMA BusyStep == IInv /\ [ParseNext]_parseVars => BusyInv'
<1> SUFFICES ASSUME IInv, [ParseNext]_parseVars, mode' = "next" PROVE stack' # <<>>
  BY DEF BusyInv
<1>1. CASE mode = "next" /\ stack' = stack
  BY <1>1 DEF IInv, BusyInv
<1>2. CASE AfterValue
  BY <1>2 DEF AfterValue, Fail
<1>3. ASSUME NEW type \in DOMAIN CloserOf, OpenContainer(type) PROVE stack' # <<>>
  <2>1. stack' = Append(stack, [item |-> item, type |-> type, head |-> NULL, last |-> NULL])
    BY <1>3 DEF OpenContainer, Fail, Succeed
  <2> QED
    BY <2>1 DEF IInv, FramesInv
<1> QED
  BY <1>1, <1>2, <1>3
  DEF ParseNext, ParseStep, parseVars, Begin, NoRoot, ParseLiteral, ParseNumber, ParseString,
      ParseNothing, NextElement, NextMember, NoElement, Finish, Unwind, GiveUp, Fail,
      NoMemory, Succeed

LEMMA DepthStep == IInv /\ [ParseNext]_parseVars => DepthInv'
<1> SUFFICES ASSUME IInv, [ParseNext]_parseVars PROVE DepthInv'
  OBVIOUS
<1> USE DEF IInv, DepthInv
<1>1. CASE depth' = depth
  BY <1>1
<1>2. CASE AfterValue
  <2>1. depth' \in {depth, depth - 1}
    BY <1>2 DEF AfterValue, Fail
  <2> QED
    BY <2>1, ParseAssumption
<1>3. ASSUME NEW type \in DOMAIN CloserOf, OpenContainer(type) PROVE DepthInv'
  BY <1>3, ParseAssumption DEF OpenContainer, Fail, Succeed
<1> QED
  BY <1>1, <1>2, <1>3
  DEF ParseNext, ParseStep, parseVars, Begin, NoRoot, ParseLiteral, ParseNumber, ParseString,
      ParseNothing, NextElement, NextMember, NoElement, Finish, Unwind, GiveUp, Fail,
      NoMemory, Succeed

(* The token at which a step goes on.                                      *)
LEMMA PlaceStep == IInv /\ [ParseNext]_parseVars => PlaceInv'
<1> SUFFICES ASSUME IInv, [ParseNext]_parseVars PROVE PlaceInv'
  OBVIOUS
<1>0. /\ WellEnded(text) /\ pos \in Int /\ Len(text) \in Nat \ {0}
      /\ WellEnded(text') /\ Len(text') = Len(text)
  BY DEF IInv, PlaceInv, WellEnded, ParseNext, parseVars
<1>1. CASE UNCHANGED parseVars
  BY <1>1 DEF IInv, PlaceInv, parseVars
<1>2. ASSUME mode' = "failed", pos' \in Int PROVE PlaceInv'
  BY <1>0, <1>2 DEF PlaceInv
<1>a. ASSUME mode' \in {"value", "after"}, pos' \in 1 .. Len(text) PROVE PlaceInv'
  BY <1>0, <1>a DEF PlaceInv
<1>b. ASSUME mode' = "next", pos' \in 1 .. Len(text) - 1 PROVE PlaceInv'
  BY <1>0, <1>b DEF PlaceInv
<1>3. ASSUME mode' = "after", mode = "value", pos' = pos + 1, At(pos) # "NUL" PROVE PlaceInv'
  <2>1. pos \in 1 .. Len(text)
    BY <1>3 DEF PlaceInv, IInv
  <2> QED
    BY <1>0, <1>3, <1>a, <2>1, NotTheEnd
<1>4. CASE Begin
  <2>1. Skip(AfterBom) \in 1 .. Len(text)
    BY <1>0, AfterBomInside, SkipStays
  <2> QED
    BY <1>0, <1>4, <2>1 DEF Begin, PlaceInv
<1>5. CASE NoRoot \/ ParseNothing \/ NoElement
  BY <1>0, <1>2, <1>5 DEF NoRoot, ParseNothing, NoElement, NoMemory, Fail
<1>6. CASE ParseLiteral \/ ParseNumber
  BY <1>3, <1>6 DEF ParseLiteral, ParseNumber, Succeed, LiteralType
<1>7. CASE ParseString
  BY <1>0, <1>2, <1>3, <1>7 DEF ParseString, Succeed, Fail, NoMemory
<1>8. ASSUME NEW type \in DOMAIN CloserOf, OpenContainer(type) PROVE PlaceInv'
  <2>1. pos \in 1 .. Len(text) /\ At(pos) # "NUL"
    BY <1>8 DEF OpenContainer, IInv, PlaceInv, OpenerType
  <2>2. pos + 1 \in 1 .. Len(text)
    BY <1>0, <2>1, NotTheEnd
  <2> DEFINE first == Skip(pos + 1)
  <2>3. first \in pos + 1 .. Len(text)
    BY <1>0, <2>2, SkipStays
  <2>4. CASE depth >= NestingLimit
    BY <1>0, <1>2, <1>8, <2>4 DEF OpenContainer, Fail
  <2>5. CASE ~(depth >= NestingLimit) /\ At(first) = CloserOf[type]
    <3>1. At(first) # "NUL"
      BY <2>5, CloserIsToken DEF CloserOf
    <3>2. first + 1 \in 1 .. Len(text)
      BY <1>0, <2>1, <2>3, <3>1, NotTheEnd
    <3>3. mode' = "after" /\ pos' = first + 1
      BY <1>8, <2>5 DEF OpenContainer, Succeed
    <3> HIDE DEF first
    <3> QED
      BY <1>a, <3>2, <3>3
  <2>6. CASE ~(depth >= NestingLimit) /\ At(first) # CloserOf[type]
    <3>1. mode' = "next" /\ pos' = first - 1
      BY <1>8, <2>6 DEF OpenContainer
    <3> HIDE DEF first
    <3>2. first - 1 \in 1 .. Len(text) - 1
      BY <1>0, <2>1, <2>3
    <3> QED
      BY <1>b, <3>1, <3>2
  <2> QED
    BY <2>4, <2>5, <2>6
<1>9. CASE NextElement
  <2>1. Skip(pos + 1) \in 1 .. Len(text)
    BY <1>0, <1>9, SkipStays DEF NextElement, IInv, PlaceInv
  <2> QED
    BY <1>0, <1>9, <2>1 DEF NextElement, PlaceInv
<1>10. CASE NextMember
  <2> DEFINE key == Skip(pos + 1)  colon == Skip(key + 1)
  <2>1. key \in 1 .. Len(text)
    BY <1>0, <1>10, SkipStays DEF NextMember, IInv, PlaceInv
  <2>2. StringAt(key) => key + 1 \in 1 .. Len(text)
    BY <1>0, <2>1, NotTheEnd DEF StringAt
  <2>3. StringAt(key) => colon \in 1 .. Len(text)
    BY <1>0, <2>1, <2>2, SkipStays
  <2>4. StringAt(key) /\ At(colon) = ":" => colon + 1 \in 1 .. Len(text)
    BY <1>0, <2>3, NotTheEnd
  <2>5. StringAt(key) /\ At(colon) = ":" => Skip(colon + 1) \in 1 .. Len(text)
    BY <1>0, <2>3, <2>4, SkipStays
  <2>6. \/ mode' = "failed" /\ pos' \in {key, key + 1}
        \/ StringAt(key) /\ mode' = "failed" /\ pos' = colon
        \/ /\ StringAt(key) /\ At(colon) = ":"
           /\ mode' = "value" /\ pos' = Skip(colon + 1)
    BY <1>10 DEF NextMember
  <2> HIDE DEF key, colon
  <2>7. key \in Int /\ key + 1 \in Int /\ (StringAt(key) => colon \in Int)
    BY <2>1, <2>3
  <2> QED
    BY <1>2, <1>a, <2>5, <2>6, <2>7
<1>11. CASE AfterValue
  <2> DEFINE p == Skip(pos)
  <2>0. pos \in 1 .. Len(text)
    BY <1>11 DEF AfterValue, IInv, PlaceInv
  <2>1. p \in 1 .. Len(text)
    BY <1>0, <2>0, SkipStays
  <2>2. CloserOf[Top.type] # "NUL"
    <3> PICK S : stack \in Seq(Frames(S))
      BY DEF IInv, FramesInv
    <3>1. Top \in Frames(S)
      BY <1>11, FrontFrames DEF AfterValue
    <3> QED
      BY <3>1, CloserIsToken DEF Frames
  <2>3. At(p) # "NUL" => p + 1 \in 1 .. Len(text) /\ p \in 1 .. Len(text) - 1
    BY <1>0, <2>1, NotTheEnd
  <2>4. \/ At(p) = "," /\ pos' = p /\ mode' = "next"
        \/ At(p) = CloserOf[Top.type] /\ pos' = p + 1 /\ mode' = "after"
        \/ pos' = p /\ mode' = "failed"
    BY <1>11 DEF AfterValue, Fail
  <2>5. p \in Int
    BY <2>1
  <2> HIDE DEF p
  <2> QED
    BY <1>2, <1>a, <1>b, <2>2, <2>3, <2>4, <2>5
<1>12. CASE Finish
  <2>1. Skip(pos) \in 1 .. Len(text) /\ pos \in 1 .. Len(text)
    BY <1>0, <1>12, SkipStays DEF Finish, IInv, PlaceInv
  <2> QED
    BY <1>0, <1>2, <1>12, <2>1 DEF Finish, Fail, PlaceInv
<1>13. CASE Unwind
  BY <1>0, <1>2, <1>13 DEF Unwind
<1>14. CASE GiveUp
  BY <1>0, <1>14 DEF GiveUp, PlaceInv
<1> QED
  BY <1>1, <1>4, <1>5, <1>6, <1>7, <1>8, <1>9, <1>10, <1>11, <1>12, <1>13, <1>14
  DEF ParseNext, ParseStep

LEMMA InitInv == ParseInit => IInv
<1> SUFFICES ASSUME ParseInit PROVE IInv
  OBVIOUS
<1>1. stack \in Seq(Frames({}))
  BY DEF ParseInit
<1> QED
  BY <1>1, ParseAssumption
  DEF ParseInit, IInv, PlaceInv, DepthInv, FramesInv, BusyInv, NULL

(* cJSON_ParseWithOpts reads no token behind the zero and opens no more    *)
(* containers than CJSON_NESTING_LIMIT, on any text.                       *)
THEOREM ParserStaysInside == ParseSpec => []InsideText
<1>1. IInv => InsideText
  BY DEF IInv, PlaceInv, DepthInv, InsideText, WellEnded
<1>2. IInv /\ [ParseNext]_parseVars => IInv'
  BY PlaceStep, DepthStep, FramesStep, BusyStep DEF IInv
<1> QED
  BY InitInv, <1>1, <1>2, PTL DEF ParseSpec
=============================================================================
