------------------------------- MODULE MCLines -------------------------------
(***************************************************************************)
(* Small macro tables over the names f, g and x, and the lines that use    *)
(* them.                                                                   *)
(***************************************************************************)
EXTENDS CLines, TLC

T(s) == [k |-> "token", s |-> <<s>>]
P(i) == [k |-> "param", i |-> i]
S(i) == [k |-> "string", i |-> i]
HH == [k |-> "paste"]
Object(body) == [fun |-> FALSE, params |-> <<>>, rest |-> 0, body |-> body]
Function(n, body) ==
    [fun |-> TRUE, params |-> SubSeq(<< <<"a">>, <<"b">> >>, 1, n), rest |-> 0, body |-> body]
Variadic(n, body) == [Function(n, body) EXCEPT !.rest = n + 1]

Table(f, g, x) ==
    [s \in {<<"f">>, <<"g">>, <<"x">>} |->
        CASE s = <<"f">> -> f [] s = <<"g">> -> g [] s = <<"x">> -> x]

(* Macros that stand for each other, in and outside of calls.              *)
Recursive ==
    {Table(Function(1, f), Function(1, g), Object(x)) :
        f \in { <<T("x"), P(1)>>, <<T("g"), T("("), P(1), T(")")>>, <<P(1), T("g")>> },
        g \in { <<T("f"), T("("), P(1), T(")")>>, <<P(1), T("f")>> },
        x \in { <<T("f")>>, <<T("1"), T("f")>>, <<T("g"), T("x")>> }}

(* ## and #, two arguments and commas that come from a macro; x1 is a      *)
(* macro whose name only ## can make.                                      *)
Pasting ==
    {Table(Function(2, f), Function(1, g), Object(x))
        @@ (<<"x", "1">> :> Function(1, <<P(1), T("1")>>)) :
        f \in { <<P(1), HH, P(2)>>, <<T("1"), P(1), HH, P(2), P(1)>>, <<S(1), P(1)>> },
        g \in { <<P(1), HH, T("1")>>, <<T("f"), T("("), P(1), T(","), P(1), T(")")>>,
                <<T("f"), T("("), T("x"), T(","), T("1"), T(")")>> },
        x \in { <<T("1"), T(","), T("1")>>, <<T("1")>> }}

Variadics ==
    {Table(Variadic(1, f), g, Object(<<T("1"), T(","), T("1")>>)) :
        f \in { <<T("g"), T("("), P(1), T(","), HH, P(2), T(")")>>, <<S(2), P(2)>> },
        g \in { Variadic(0, <<P(1)>>), Function(2, <<P(2), P(1)>>) }}

(* f puts a call that becomes nothing behind a name, so that the name does *)
(* not meet the parenthesis after the call of f.                           *)
Deferring ==
    {Table(Function(1, f), Function(0, <<>>), Function(1, <<P(1)>>)) :
        f \in { <<P(1), T("g"), T("("), T(")")>>, <<T("x"), T("g"), T("("), T(")")>> }}

MCTextTables == Recursive \union Pasting \union Variadics \union Deferring

(* x has operators and a call of its own, and no parentheses around them.  *)
MCIfTables ==
    {Table(Function(1, <<P(1), T("*"), T("2")>>), Function(0, <<>>),
           Object(<<T("f"), T("("), T("1"), T(")"), T("+"), T("1")>>))}

MCWords == {<<"f">>, <<"g">>, <<"x">>, <<"1">>, Lparen, Rparen, Comma}
MCOperands == { << <<"1">> >>, << <<"2", "u">> >>, << <<"x">> >>, << <<"defined">>, <<"x">> >> }
MCOperators == {<<op>> : op \in UNION Range(Levels)}
MCSigns == {<<op>> : op \in {"-", "!"}}

=============================================================================
