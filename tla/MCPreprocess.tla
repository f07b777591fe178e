---------------------------- MODULE MCPreprocess ----------------------------
(***************************************************************************)
(* One header, with and without a guard, included from main files of a few *)
(* lines; an object-like macro m, the function-like macro F, the guard G.  *)
(***************************************************************************)
EXTENDS CPreprocess

T(toks) == [k |-> "text", toks |-> toks]
L(k, m) == [k |-> k, m |-> m]
D(m, body) == [k |-> "define", m |-> m, body |-> body]
Bare(k) == [k |-> k]
EndIf == L("endif", "m")
OrElse == L("else", "m")
Inc == [k |-> "include", file |-> "h"]

Use == T(<<"m">>)
Open == T(<<"g(", "m">>)
Close == T(<<"m", ")">>)
Name == T(<<"F">>)
Args == T(<<"(", "m", ")">>)

(* What headers are made of. *)
Piece == {<<Use>>, <<Open>>, <<Close>>, <<Name>>, <<Args>>, <<D("m", "1")>>, <<D("m", "F")>>,
          <<L("undef", "m")>>, <<Inc>>, <<L("push", "m")>>, <<L("pop", "m")>>,
          <<L("ifdef", "m"), Use, OrElse, D("m", "1"), EndIf>>,
          <<L("ifndef", "m"), Use, L("elif", "G"), Name, OrElse, Close, EndIf>>}
Guarding(body) == <<L("ifndef", "G"), D("G", "1")>> \o body \o <<EndIf>>
Bodies2 == Piece \union {p \o q : p \in Piece, q \in Piece}
Headers ==
    Bodies2 \union {Guarding(b) : b \in Bodies2}
    \union {<<Bare("once")>> \o b : b \in Piece}
    \union {<<L("ifndef", "G"), D("G", "1")>> \o b \o <<OrElse>> \o c \o <<EndIf>> :
              b \in {<<Use>>, <<Name>>}, c \in Piece}
    \union {Guarding(b) \o c : b \in {<<Use>>, <<Name>>}, c \in Piece}
    \union {<<L("ifndef", "G"), D("m", "1")>> \o b \o <<EndIf>> : b \in Piece}
MCTexts == {[h |-> lines] : lines \in Headers}

MCMainLines ==
    {Use, Open, Close, Name, Args, D("m", "1"), L("undef", "m"), D("F", "b"), L("undef", "G"),
     L("ifdef", "m"), OrElse, EndIf, Inc, L("pop", "m")}
=============================================================================
