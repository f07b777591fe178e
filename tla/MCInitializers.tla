--------------------------- MODULE MCInitializers ---------------------------
(***************************************************************************)
(* Declarations over a few types: struct p { int x, y; }, struct s with a   *)
(* member of type p and an own y, two unions of an int and a p, arrays of   *)
(* them and of arrays, strings, and an array of pointers.                   *)
(***************************************************************************)
EXTENDS CInitializers

MCMembers ==
    [int |-> <<>>, char |-> <<>>, ptr |-> <<>>,
     p |-> <<"int", "int">>, s |-> <<"p", "u", "int">>,
     u |-> <<"int", "p">>, v |-> <<"p", "int">>,
     a |-> <<"int", "int">>, aa |-> <<"a", "a">>, ap |-> <<"p", "p">>,
     c |-> <<"char", "char">>, cc |-> <<"c", "c">>, pp |-> <<"ptr", "ptr">>]
MCTypes == DOMAIN MCMembers
MCKindOf ==
    [int |-> "int", char |-> "char", ptr |-> "ptr", p |-> "struct", s |-> "struct",
     u |-> "union", v |-> "union", a |-> "array", aa |-> "array", ap |-> "array",
     c |-> "array", cc |-> "array", pp |-> "array"]

(* Field names: x, y, p, u, i.                                              *)
MCFieldNames ==
    [int |-> <<>>, char |-> <<>>, ptr |-> <<>>, p |-> <<1, 2>>, s |-> <<3, 4, 2>>,
     u |-> <<5, 3>>, v |-> <<3, 5>>, a |-> <<>>, aa |-> <<>>, ap |-> <<>>,
     c |-> <<>>, cc |-> <<>>, pp |-> <<>>]

AInt == [k |-> "int"]
AString == [k |-> "str", n |-> 3]
AValue == [k |-> "value", of |-> "p"]
AList(items) == [k |-> "list", items |-> items]
AnItem(des, init) == [des |-> des, init |-> init]
Plain == AnItem(<<>>, AInt)

Field(n) == [k |-> "field", n |-> n]
Sub(n) == [k |-> "sub", n |-> n]
Span(n, to) == [k |-> "range", n |-> n, to |-> to]
MCDesignator == {Field(n) : n \in 1..5} \union {Sub(n) : n \in 1..3}

Designators(t) ==
    {<<>>} \union {des \in SeqOf(MCDesignator, 2) : des # <<>> /\ Designated(t, des).ok}
    \union (IF IsArray(t) THEN {<<Span(1, 2)>>} ELSE {})

Nested == {AList(items) : items \in {<<Plain>>, <<Plain, Plain>>, <<AnItem(<<>>, AString)>>,
            <<AnItem(<<Field(1)>>, AInt)>>, <<AnItem(<<Field(2)>>, AInt)>>,
            <<AnItem(<<Sub(2)>>, AInt)>>, <<AnItem(<<Sub(1)>>, AInt), Plain>>}}

MCInits == {AInt, AString, AValue} \union Nested

ItemsOf(t) == {AnItem(des, init) : des \in Designators(t), init \in MCInits}
MCItems ==
    [s |-> ItemsOf("s"), u |-> ItemsOf("u"), v |-> ItemsOf("v"), aa |-> ItemsOf("aa"),
     ap |-> ItemsOf("ap"), cc |-> ItemsOf("cc"), pp |-> ItemsOf("pp")]
MCRest == {Plain}
=============================================================================
