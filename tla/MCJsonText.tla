----------------------------- MODULE MCJsonText -----------------------------
(* Instances of JsonText: all short texts over a few tokens, and texts that *)
(* are one token away from a value.                                         *)
EXTENDS JsonText

ItemsValue   == 1 .. 6
FoldValue(k) == k

(* String literals and what they mean.  E9 takes two bytes, 20AC three, the *)
(* pair D83D DE00 four; a code that is not four digits is taken for 0, and  *)
(* the string ends there.                                                   *)
a == <<Raw(97)>>
b == <<Raw(98), Esc(Quote)>>

Literals ==
  { <<a, <<97, 0>>>>,
    <<b, <<98, 34, 0>>>>,
    <<<<>>, <<0>>>>,
    <<<<U(233)>>, <<195, 169, 0>>>>,
    <<<<U(8364), Raw(97)>>, <<226, 130, 172, 97, 0>>>>,
    <<<<Raw(97), U(55357), U(56832)>>, <<97, 240, 159, 152, 128, 0>>>>,
    <<<<Esc(10), Esc(Backslash), Esc(47)>>, <<10, 92, 47, 0>>>>,
    <<<<U(7), Raw(97)>>, <<7, 97, 0>>>>,
    <<<<Raw(97), U(0), Raw(98)>>, <<97, 0>>>>,
    <<<<Raw(97), NoHex, Raw(98)>>, <<97, 0>>>>,
    (* as they are printed *)
    <<<<Raw(195), Raw(169)>>, <<195, 169, 0>>>>,
    <<<<Raw(226), Raw(130), Raw(172), Raw(97)>>, <<226, 130, 172, 97, 0>>>>,
    <<<<Raw(97), Raw(240), Raw(159), Raw(152), Raw(128)>>, <<97, 240, 159, 152, 128, 0>>>>,
    <<<<Esc(10), Esc(Backslash), Raw(47)>>, <<10, 92, 47, 0>>>> }

(* Literals that mean nothing.                                              *)
Wrong ==
  { <<Unknown>>, <<Raw(97), U(56832)>>, <<U(55357)>>, <<U(55357), Raw(97)>>,
    <<U(55357), U(55357), U(56832)>>, <<U(55357), NoHex>>, <<U(55357), U(56832), U(56832)>> }

MeaningValue(units) == {p[2] : p \in {q \in Literals : q[1] = units}}

S == Str(a)
N == Num(7)

Ended(ts) == {Append(t, T("NUL")) : t \in ts}

Short ==
  LET alphabet == {T(t) : t \in {"Ws", "[", "]", "{", "}", ",", ":"}} \cup {N, S}
  IN  UNION {[1 .. n -> alphabet] : n \in 0 .. 4}

Long ==
  { <<T("["), N, T(","), S, T(","), T("null"), T("]")>>,
    <<T("{"), S, T(":"), T("["), T("true"), T("]"), T(","), Str(b), T(":"), T("{"), T("}"), T("}")>>,
    <<T("["), T("{"), S, T(":"), Num(Infinite), T("}"), T(","), T("["), T("]"), T("]")>>,
    <<T("["), T("["), T("["), N, T("]"), T("]"), T("]")>>,
    <<T("{"), S, T(":"), T("{"), S, T(":"), Num(42), T("}"), T("}")>>,
    <<T("BOM"), T("false")>> }

Without(t, k)   == SubSeq(t, 1, k - 1) \o SubSeq(t, k + 1, Len(t))
With(t, k, tok) == SubSeq(t, 1, k) \o <<tok>> \o SubSeq(t, k + 1, Len(t))

Near ==
  Long \cup UNION {{Without(t, k) : k \in 1 .. Len(t)} : t \in Long}
       \cup UNION {{With(t, k, tok) : k \in 0 .. Len(t), tok \in {T("Ws"), T(","), T("Bad")}} :
                     t \in Long}
       \cup UNION {{[t EXCEPT ![k] = tok] : k \in 1 .. Len(t), tok \in {T("]"), T(":"), T("Ws")}} :
                     t \in Long}

Strings ==
  LET All == {p[1] : p \in Literals} \cup Wrong
  IN  {<<Str(u)>> : u \in All}
        \cup {<<T("{"), Str(u), T(":"), Str(u), T("}")>> : u \in All}

TextsValue == Ended(Short \cup Near \cup Strings \cup {<<T("BOM")>>})
=============================================================================
