-------------------------------- MODULE CLines --------------------------------
(***************************************************************************)
(* What a line means in C.  A condition is read from its weakest operator, *)
(* and its values are integers; macros are replaced as C11 6.10.3 says.    *)
(***************************************************************************)
EXTENDS Lines, CMacros, Bitwise

-----------------------------------------------------------------------------
(* Conditions *)

(* A value: the number, whether its type is uintmax_t, and whether C gives *)
(* the expression a meaning at all.                                        *)
CValue(n, u, ok) == [n |-> IF u THEN n % Size ELSE n, u |-> u,
                     ok |-> ok /\ (u \/ (-Size <= 2 * n /\ 2 * n < Size))]
CTruth(b, ok) == CValue(IF b THEN 1 ELSE 0, FALSE, ok)

CConstant(w) ==
    LET v == Literal(w) IN CValue(v.n, v.u, TRUE)

(* The operators of C11 6.5.5 to 6.5.14, the weakest first.                *)
Precedence == << {"||"}, {"&&"}, {"|"}, {"^"}, {"&"}, {"==", "!="}, {"<", ">", "<=", ">="},
                 {"<<", ">>"}, {"+", "-"}, {"*", "/", "%"} >>

CShift(op, l, r) ==
    LET shift == 2^r.n
        ok == l.ok /\ r.ok /\ 0 <= r.n /\ r.n < Width
    IN  IF ~ok THEN CValue(0, l.u, FALSE)
        ELSE IF op = "<<" THEN CValue(l.n * shift, l.u, l.n >= 0)
        ELSE CValue(l.n \div shift, l.u, TRUE)

(* The usual arithmetic conversions, then the operation on the numbers.    *)
CArithmetic(op, l, r) ==
    LET u == l.u \/ r.u
        ok == l.ok /\ r.ok
        a == IF u THEN l.n % Size ELSE l.n
        b == IF u THEN r.n % Size ELSE r.n
        Pattern(n) == CValue(IF u \/ 2 * n < Size THEN n ELSE n - Size, u, ok)
    IN  CASE op = "==" -> CTruth(a = b, ok)
          [] op = "!=" -> CTruth(a # b, ok)
          [] op = "<" -> CTruth(a < b, ok)
          [] op = ">" -> CTruth(a > b, ok)
          [] op = "<=" -> CTruth(a <= b, ok)
          [] op = ">=" -> CTruth(a >= b, ok)
          [] op = "|" -> Pattern((a % Size) | (b % Size))
          [] op = "^" -> Pattern((a % Size) ^^ (b % Size))
          [] op = "&" -> Pattern((a % Size) & (b % Size))
          [] op = "+" -> CValue(a + b, u, ok)
          [] op = "-" -> CValue(a - b, u, ok)
          [] op = "*" -> CValue(a * b, u, ok)
          [] op = "/" -> IF b = 0 THEN CValue(0, u, FALSE) ELSE CValue(Quotient(a, b), u, ok)
          [] op = "%" -> IF b = 0 THEN CValue(0, u, FALSE) ELSE CValue(a - b * Quotient(a, b), u, ok)

(* The right operand of && and || counts only if it is evaluated.          *)
CBinary(op, l, r) ==
    CASE op = "||" -> CTruth(l.n # 0 \/ r.n # 0, l.ok /\ (l.n # 0 \/ r.ok))
      [] op = "&&" -> CTruth(l.n # 0 /\ r.n # 0, l.ok /\ (l.n = 0 \/ r.ok))
      [] op \in {"<<", ">>"} -> CShift(op, l, r)
      [] OTHER -> CArithmetic(op, l, r)

CUnary(op, v) ==
    CASE op = "!" -> CTruth(v.n = 0, v.ok)
      [] op = "-" -> CValue(-v.n, v.u, v.ok)
      [] op = "+" -> v
      [] op = "~" -> CValue(-1 - v.n, v.u, v.ok)

(* The branches of ?: have one type.                                       *)
CChoice(c, a, b) ==
    LET v == IF c.n # 0 THEN a ELSE b
    IN  [n |-> IF a.u \/ b.u THEN v.n % Size ELSE v.n, u |-> a.u \/ b.u, ok |-> c.ok /\ v.ok]

RECURSIVE Meaning(_)
Meaning(words) ==
    LET level(i) == Waiting(SubSeq(words, 1, i))
        (* a question mark opens a bracket of its own *)
        outside == {i \in DOMAIN words : level(i) = <<>>}
        questions == {i \in DOMAIN words : level(i) = <<Question>> /\ level(i - 1) = <<>>}
        before(i) == SubSeq(words, 1, i - 1)
        after(i) == SubSeq(words, i + 1, Len(words))
        binary == {i \in outside : AfterOperand(before(i))}
        levels == {p \in DOMAIN Precedence : \E i \in binary : words[i] \in {<<op>> : op \in Precedence[p]}}
    IN  IF questions # {}
        THEN LET q == Min(questions)
                 c == Min({i \in outside : i > q})
             IN  CChoice(Meaning(before(q)), Meaning(SubSeq(words, q + 1, c - 1)), Meaning(after(c)))
        ELSE IF levels # {}
        THEN LET i == Max({j \in binary : words[j] \in {<<op>> : op \in Precedence[Min(levels)]}})
             IN  CBinary(words[i][1], Meaning(before(i)), Meaning(after(i)))
        ELSE IF Len(words) = 1 THEN CConstant(words[1])
        ELSE IF words[1] = Lparen THEN Meaning(SubSeq(words, 2, Len(words) - 1))
        ELSE CUnary(words[1][1], Meaning(Tail(words)))

-----------------------------------------------------------------------------
(* Lines whose macros are known to be replaced in another way; see README. *)

(* A call of what a call gave.                                             *)
CallsResult(words) ==
    \E i \in DOMAIN words : i > 1 /\ words[i] = Lparen /\ words[i - 1] = Rparen
(* An object-like macro that becomes the name of a function-like one.      *)
HasAlias(macros) ==
    \E s \in DOMAIN macros :
        /\ ~macros[s].fun
        /\ LET name == CExpand(macros, TRUE, <<CTok(s)>>)
           IN  Len(name) = 1 /\ IsFun(macros, name[1].s)

Comparable(macros, words) == ~(HasAlias(macros) /\ CallsResult(words))

-----------------------------------------------------------------------------
(* Correctness *)

(* A line of text becomes what C11 6.10.3 says: arguments are matched,     *)
(* expanded and substituted, # and ## applied, the result is read again    *)
(* with the text that follows it, and no macro is replaced in itself       *)
(* (expand_text, expand_macro_invocation, expand_body).                    *)
SameText ==
    kind = "text" /\ read /\ Comparable(table, line)
      => result \in CExpandLine(table, Toks(line))

(* The group after #if is kept exactly when the condition is not zero in   *)
(* C: precedence, association, conversions to uintmax_t and operands that  *)
(* are not evaluated (handle_if, ExprParser).  Nothing is said of what is  *)
(* undefined in C, and of ?: when a constant is unsigned.                  *)
CCondition(macros, words) ==
    {Meaning(Zeroed(e)) : e \in CExpandLine(macros, Toks(ResolveDefined(DOMAIN macros, words)))}

Mixed(words) == Contains(words, Question) /\ \E i \in DOMAIN words : Contains(words[i], "u")

SameCondition ==
    kind = "if" /\ read /\ ~Mixed(line)
      => \A v \in CCondition(table, line) : v.ok => (result <=> v.n # 0)

=============================================================================
