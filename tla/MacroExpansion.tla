--------------------------- MODULE MacroExpansion ---------------------------
(***************************************************************************)
(* MacroTable::expand_line_with_line of co2_preprocessor.  The code works  *)
(* on text; here a line is a sequence of tokens.  A token is the sequence  *)
(* of the letters it is spelled with, so that ## is concatenation, and is  *)
(* blue (BLUE_PAINT_MARKER) when it is the name of a macro that was found  *)
(* while that macro was being expanded.                                    *)
(*                                                                         *)
(* A macro has params, the names of its parameters, and a body; fun says   *)
(* whether it is function-like, and rest is the number of the parameter    *)
(* that takes all arguments from there on (__VA_ARGS__ or a named one), or *)
(* zero.  An element of the body is a token (k = "token", spelled s), a    *)
(* parameter (k = "param", its number i), a parameter after the operator # *)
(* (k = "string") or the operator ## (k = "paste").                        *)
(***************************************************************************)
EXTENDS Naturals, Sequences, SequencesExt

Tok(s) == [s |-> s, blue |-> FALSE]
Spelled(toks) == [i \in DOMAIN toks |-> toks[i].s]
Painted(tok) == [tok EXCEPT !.blue = TRUE]
Unpainted(toks) == [i \in DOMAIN toks |-> Tok(toks[i].s)]

Lparen == <<"(">>
Rparen == <<")">>
Comma == <<",">>
Quote == <<"'">>

(* Punctuation and strings stay tokens of their own next to anything.      *)
Joins(s) == s # <<>> /\ s[1] \notin {"(", ")", ",", "'"}

IsFun(table, s) == s \in DOMAIN table /\ table[s].fun
StartsCall(toks) == toks # <<>> /\ Head(toks).s = Lparen
EndsWithFun(table, toks) ==
    toks # <<>> /\ ~Last(toks).blue /\ IsFun(table, Last(toks).s)

-----------------------------------------------------------------------------
(* Arguments *)

(* parse_macro_args: toks begin with the opening parenthesis.  Without the *)
(* closing one everything that is left belongs to the arguments.           *)
DepthAt(toks, n) ==
    LET seen(s) == Cardinality({i \in 1..n : toks[i].s = s})
    IN  seen(Lparen) - seen(Rparen)

Arguments(toks) ==
    LET closes == {n \in DOMAIN toks : DepthAt(toks, n) = 0}
        end == Min(closes \union {Len(toks) + 1})
        cuts == {1, end} \union {n \in 2..(end - 1) : toks[n].s = Comma /\ DepthAt(toks, n) = 1}
        cut == SelectSeq([n \in 1..end |-> n], LAMBDA n : n \in cuts)
        args == [i \in 1..(Len(cut) - 1) |-> SubSeq(toks, cut[i] + 1, cut[i + 1] - 1)]
    IN  [args |-> IF args = << <<>> >> THEN <<>> ELSE args,
         rest |-> SubSeq(toks, end + 1, Len(toks))]

(* The argument of a parameter; the variable ones with their commas.       *)
Arg(mac, args, i) ==
    CASE i \notin DOMAIN args -> <<>>
      [] i = mac.rest -> FoldLeft(LAMBDA joined, arg : joined \o <<Tok(Comma)>> \o arg,
                                  args[i], SubSeq(args, i + 1, Len(args)))
      [] OTHER -> args[i]

RawArg(mac, args, i) == Unpainted(Arg(mac, args, i))

-----------------------------------------------------------------------------
(* Bodies: expand_body *)

IsPaste(body, i) == i \in DOMAIN body /\ body[i].k = "paste"
IsRest(mac, i) == mac.body[i].k = "param" /\ mac.body[i].i = mac.rest

(* What stands left and right of ## is written without a space, and so     *)
(* becomes one token unless it is punctuation.                             *)
Glue(left, right) ==
    IF left # <<>> /\ right # <<>> /\ Joins(Last(left).s) /\ Joins(Head(right).s)
    THEN Front(left) \o <<Tok(Last(left).s \o Head(right).s)>> \o Tail(right)
    ELSE left \o right

WithoutComma(toks) == IF toks # <<>> /\ Last(toks).s = Comma THEN Front(toks) ELSE toks

(* The tokens before ##, and its left operand: an argument that was held   *)
(* back, or else the last token there is, which is looked up among the     *)
(* parameters once more.                                                   *)
LeftOperand(mac, args, done, i) ==
    IF mac.body[i - 1].k = "param" /\ ~IsPaste(mac.body, i - 2)
    THEN LET arg == RawArg(mac, args, mac.body[i - 1].i)
         IN  [before |-> IF IsRest(mac, i - 1) /\ arg = <<>> THEN WithoutComma(done) ELSE done,
              left |-> arg]
    ELSE IF done = <<>> THEN [before |-> <<>>, left |-> <<>>]
    ELSE LET named == {j \in DOMAIN mac.params : mac.params[j] = Last(done).s}
         IN  [before |-> Front(done),
              left |-> IF named = {} THEN <<Last(done)>> ELSE RawArg(mac, args, Min(named))]

(* The result once the operator i has its right operand.                   *)
Pasted(mac, args, done, i) ==
    LET op == LeftOperand(mac, args, done, i)
        right == IF mac.body[i + 1].k = "param" THEN RawArg(mac, args, mac.body[i + 1].i)
                 ELSE <<Tok(mac.body[i + 1].s)>>
    IN  IF IsRest(mac, i + 1) /\ right = <<>> THEN WithoutComma(op.before \o op.left)
        ELSE op.before \o Glue(op.left, right)

Stringified(mac, args, i) ==
    Tok(Quote \o FlattenSeq([n \in DOMAIN Arg(mac, args, i) |-> Arg(mac, args, i)[n].s]) \o Quote)

(* One element after the other.  An argument next to ## goes in as it was  *)
(* written, any other one expanded.                                        *)
ExpandBody(mac, args, expandedArgs) ==
    LET body == mac.body
        upTo[i \in 0..Len(body)] ==
            IF i = 0 THEN <<>>
            ELSE LET done == upTo[i - 1]
                     e == body[i]
                 IN  CASE e.k = "paste" -> done
                       [] IsPaste(body, i - 1) -> Pasted(mac, args, done, i - 1)
                       [] e.k = "param" /\ IsPaste(body, i + 1) -> done
                       [] e.k = "param" -> done \o Arg(mac, expandedArgs, e.i)
                       [] e.k = "string" -> Append(done, Stringified(mac, args, e.i))
                       [] e.k = "token" -> Append(done, Tok(e.s))
    IN  upTo[Len(body)]

-----------------------------------------------------------------------------
(* Expansion; expanding is the set of macros being expanded. *)

(* What becomes of a call: open says that the result may go on as a call   *)
(* with the text after it, because the body ends in the name of a          *)
(* function-like macro, or the result does with one that the body does not *)
(* contain.                                                                *)
Expanded(table, body, out) ==
    [out |-> out,
     open |-> \/ EndsWithFun(table, body)
              \/ EndsWithFun(table, out) /\ \A i \in DOMAIN body : body[i].s # Last(out).s]

GoesOn(table, toks, expanding, rest) ==
    EndsWithFun(table, toks) /\ Last(toks).s \notin expanding /\ StartsCall(rest)

RECURSIVE ExpandText(_, _, _), Replaced(_, _, _), Rescanned(_, _, _, _), ExpandFunction(_, _, _, _),
          Trailing(_, _, _, _), Invocation(_, _, _, _), OfFunction(_, _, _, _), OfObject(_, _, _, _)

(* expand_text: from left to right.                                        *)
ExpandText(table, toks, expanding) ==
    IF toks = <<>> THEN <<>>
    ELSE LET tok == Head(toks) IN
         IF tok.s \in DOMAIN table \ expanding /\ ~tok.blue
         THEN Replaced(table, Invocation(table, tok.s, Tail(toks), expanding), expanding)
         ELSE <<IF tok.s \in expanding THEN Painted(tok) ELSE tok>>
              \o ExpandText(table, Tail(toks), expanding)

Replaced(table, call, expanding) == call.out \o ExpandText(table, call.rest, expanding)

Rescanned(table, name, body, expanding) ==
    Expanded(table, body, ExpandText(table, body, expanding \union {name}))

(* Slip: the arguments are not expanded before they are substituted.       *)
ExpandFunction_NoPrescan(table, name, args, expanding) ==
    Rescanned(table, name, ExpandBody(table[name], args, args), expanding)

(* expand_function_macro *)
ExpandFunction(table, name, args, expanding) ==
    Rescanned(table, name,
        ExpandBody(table[name], args, [i \in DOMAIN args |-> ExpandText(table, args[i], expanding)]),
        expanding)

(* expand_trailing_func_macros *)
Trailing(table, out, rest, expanding) ==
    IF GoesOn(table, out, expanding, rest)
    THEN LET call == Arguments(rest) IN
         Trailing(table,
             Front(out) \o ExpandFunction(table, Last(out).s, call.args, expanding).out,
             call.rest, expanding)
    ELSE [out |-> out, rest |-> rest]

(* expand_macro_invocation: of name, before the text rest.                 *)
OfFunction(table, own, rest, expanding) ==
    IF own.open THEN Trailing(table, own.out, rest, expanding)
    ELSE [out |-> own.out, rest |-> rest]

(* try_resolve_objlike_to_funclike: the macro stands for a name.           *)
OfObject(table, out, rest, expanding) ==
    IF Len(out) = 1 /\ GoesOn(table, out, expanding, rest)
    THEN LET call == Arguments(rest)
         IN  [out |-> ExpandFunction(table, out[1].s, call.args, expanding).out,
              rest |-> call.rest]
    ELSE Trailing(table, out, rest, expanding)

Invocation(table, name, rest, expanding) ==
    IF ~table[name].fun
    THEN OfObject(table,
             ExpandText(table, ExpandBody(table[name], <<>>, <<>>), expanding \union {name}),
             rest, expanding)
    ELSE IF ~StartsCall(rest) THEN [out |-> <<Tok(name)>>, rest |-> rest]
    ELSE LET call == Arguments(rest) IN
         OfFunction(table, ExpandFunction(table, name, call.args, expanding), call.rest, expanding)

ExpandLine(table, toks) == Unpainted(ExpandText(table, toks, {}))

=============================================================================
