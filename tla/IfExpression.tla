---------------------------- MODULE IfExpression ----------------------------
(***************************************************************************)
(* The condition of #if and #elif: ExprParser of conditionals.rs, on the   *)
(* spelled tokens of an expression.  A value is the bit pattern of an      *)
(* intmax_t, here of Width bits, and whether it is unsigned.  The operator *)
(* << is one letter here.                                                  *)
(***************************************************************************)
EXTENDS Integers, Sequences, SequencesExt

CONSTANT Width
ASSUME WidthAssumption == Width \in {2, 4, 8, 16, 32, 64}

Size == 2^Width
Wrap(n) == n % Size
Value(n, u) == [n |-> Wrap(n), u |-> u]
Truth(b) == Value(IF b THEN 1 ELSE 0, FALSE)

(* The number a pattern stands for.                                        *)
Signed(n) == IF 2 * n >= Size THEN n - Size ELSE n
Number(v, u) == IF u THEN v.n ELSE Signed(v.n)

Digits == <<"0", "1", "2", "3", "4", "5", "6", "7", "8", "9">>
IsDigit(c) == \E d \in DOMAIN Digits : Digits[d] = c
IsNumber(s) == IsDigit(s[1])

(* tokenize_expr: a decimal constant, with the suffix u or not.  One that  *)
(* has no place in intmax_t is unsigned, in uintmax_t it is zero.          *)
Literal(s) ==
    LET digits == SelectSeq(s, IsDigit)
        n == FoldLeft(LAMBDA sum, c : 10 * sum + (CHOOSE d \in 1..10 : Digits[d] = c) - 1, 0, digits)
    IN  IF n < Size THEN Value(n, Contains(s, "u") \/ 2 * n >= Size)
        ELSE Value(0, Contains(s, "u"))

-----------------------------------------------------------------------------
(* Operators *)

Bits(n) == {i \in 0..(Width - 1) : (n \div 2^i) % 2 = 1}
FromBits(S) == FoldSet(LAMBDA i, sum : sum + 2^i, 0, S)

Abs(n) == IF n < 0 THEN -n ELSE n
(* Division rounds to zero.                                                *)
Quotient(a, b) == IF (a < 0) = (b < 0) THEN Abs(a) \div Abs(b) ELSE -(Abs(a) \div Abs(b))

(* Both operands are taken as unsigned if one is.  A division by zero is   *)
(* zero; a shift is by the low bits of its right operand, and of the type  *)
(* of its left one.                                                        *)
Binary(op, l, r) ==
    LET u == l.u \/ r.u
        a == Number(l, u)
        b == Number(r, u)
        shift == 2^(r.n % Width)
    IN  CASE op = "||" -> Truth(l.n # 0 \/ r.n # 0)
          [] op = "&&" -> Truth(l.n # 0 /\ r.n # 0)
          [] op = "|" -> Value(FromBits(Bits(l.n) \union Bits(r.n)), u)
          [] op = "^" -> Value(FromBits((Bits(l.n) \union Bits(r.n)) \ (Bits(l.n) \intersect Bits(r.n))), u)
          [] op = "&" -> Value(FromBits(Bits(l.n) \intersect Bits(r.n)), u)
          [] op = "==" -> Truth(a = b)
          [] op = "!=" -> Truth(a # b)
          [] op = "<" -> Truth(a < b)
          [] op = ">" -> Truth(a > b)
          [] op = "<=" -> Truth(a <= b)
          [] op = ">=" -> Truth(a >= b)
          [] op = "<<" -> Value(l.n * shift, l.u)
          [] op = ">>" -> Value(Number(l, l.u) \div shift, l.u)
          [] op = "+" -> Value(a + b, u)
          [] op = "-" -> Value(a - b, u)
          [] op = "*" -> Value(a * b, u)
          [] op = "/" -> Value(IF b = 0 THEN 0 ELSE Quotient(a, b), u)
          [] op = "%" -> Value(IF b = 0 THEN 0 ELSE a - b * Quotient(a, b), u)

Unary(op, v) ==
    CASE op = "!" -> Truth(v.n = 0)
      [] op = "-" -> Value(-v.n, v.u)
      [] op = "+" -> v
      [] op = "~" -> Value(Size - 1 - v.n, v.u)

-----------------------------------------------------------------------------
(* The parser: each function returns a value and the tokens it left *)

(* parse_or to parse_multiplicative: one function for each set.            *)
Levels == << {"||"}, {"&&"}, {"|"}, {"^"}, {"&"}, {"==", "!="}, {"<", ">", "<=", ">="},
             {"<<", ">>"}, {"+", "-"}, {"*", "/", "%"} >>
UnaryOps == {"!", "-", "+", "~"}

Peeks(toks, ops) == toks # <<>> /\ Head(toks) \in {<<op>> : op \in ops}
Skip(toks, op) == IF Peeks(toks, {op}) THEN Tail(toks) ELSE toks
Parsed(v, rest) == [v |-> v, rest |-> rest]

RECURSIVE ParseTernary(_), ParseLevel(_, _), ParseMore(_, _, _), ParseUnary(_)

ParseTernary(toks) ==
    LET cond == ParseLevel(1, toks) IN
    IF Peeks(cond.rest, {"?"})
    THEN LET then == ParseTernary(Tail(cond.rest))
             else == ParseTernary(Skip(then.rest, ":"))
         IN  Parsed(IF cond.v.n # 0 THEN then.v ELSE else.v, else.rest)
    ELSE cond

ParseLevel(level, toks) ==
    IF level > Len(Levels) THEN ParseUnary(toks)
    ELSE LET left == ParseLevel(level + 1, toks) IN ParseMore(level, left.v, left.rest)

(* Slip: operators of one level associate to the right.                    *)
ParseMore_FromRight(level, left, toks) ==
    IF Peeks(toks, Levels[level])
    THEN LET right == ParseLevel(level, Tail(toks))
         IN  Parsed(Binary(Head(toks)[1], left, right.v), right.rest)
    ELSE Parsed(left, toks)

ParseMore(level, left, toks) ==
    IF Peeks(toks, Levels[level])
    THEN LET right == ParseLevel(level + 1, Tail(toks))
         IN  ParseMore(level, Binary(Head(toks)[1], left, right.v), right.rest)
    ELSE Parsed(left, toks)

(* parse_unary and parse_primary.  What is no number, parenthesis or       *)
(* operator counts as zero.                                                *)
ParseUnary(toks) ==
    CASE Peeks(toks, UnaryOps) ->
           LET operand == ParseUnary(Tail(toks))
           IN  Parsed(Unary(Head(toks)[1], operand.v), operand.rest)
      [] Peeks(toks, {"("}) ->
           LET inner == ParseTernary(Tail(toks)) IN Parsed(inner.v, Skip(inner.rest, ")"))
      [] toks # <<>> /\ IsNumber(Head(toks)) -> Parsed(Literal(Head(toks)), Tail(toks))
      [] OTHER -> Parsed(Truth(FALSE), IF toks = <<>> THEN toks ELSE Tail(toks))

(* evaluate_condition, eval_const_expr.                                    *)
Holds(toks) == toks # <<>> /\ ParseTernary(toks).v.n # 0

-----------------------------------------------------------------------------
(* The line of #if around the expression: expr_eval.rs.  names are those   *)
(* of the macros defined.                                                  *)

(* resolve_defined_in_expr *)
RECURSIVE ResolveDefined(_, _)
ResolveDefined(names, toks) ==
    IF toks = <<>> THEN <<>>
    ELSE IF ~Peeks(toks, {"defined"}) THEN <<Head(toks)>> \o ResolveDefined(names, Tail(toks))
    ELSE LET paren == Peeks(Tail(toks), {"("})
             operand == Skip(Tail(toks), "(")
             rest == IF operand = <<>> THEN <<>> ELSE Tail(operand)
             known == operand # <<>> /\ Head(operand) \in names
         IN  << <<IF known THEN "1" ELSE "0">> >>
             \o ResolveDefined(names, IF paren THEN Skip(rest, ")") ELSE rest)

(* replace_remaining_idents_with_zero *)
Punctuators == UNION Range(Levels) \union UnaryOps \union {"(", ")", "?", ":", ","}
IsIdentifier(s) == ~IsNumber(s) /\ s[1] \notin Punctuators
Zeroed(toks) == [i \in DOMAIN toks |-> IF IsIdentifier(toks[i]) THEN <<"0">> ELSE toks[i]]

=============================================================================
