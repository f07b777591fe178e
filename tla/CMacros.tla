------------------------------- MODULE CMacros -------------------------------
(***************************************************************************)
(* Macro replacement as C11 6.10.3 describes it.  There is one sequence of *)
(* tokens; a macro is replaced in it, and the scan goes on where the       *)
(* replacement begins.  Every token has a set hs of the macros it must not *)
(* be taken for any more.  6.10.3.4 leaves open whether a call that begins *)
(* in a replacement and ends after it is nested in it: both readings count.*)
(* How a call is divided into arguments is taken from MacroExpansion, and  *)
(* so is which letters ## can join.                                        *)
(***************************************************************************)
EXTENDS MacroExpansion

CTok(s) == [s |-> s, hs |-> {}]
CToks(toks) == [i \in DOMAIN toks |-> CTok(toks[i].s)]

(* An empty operand of ## is a placemarker, a token without letters.       *)
Placemarker == CTok(<<>>)
Placed(toks) == IF toks = <<>> THEN <<Placemarker>> ELSE toks

CArg(mac, args, i) ==
    CASE i \notin DOMAIN args -> <<>>
      [] i = mac.rest -> FoldLeft(LAMBDA joined, arg : joined \o <<CTok(Comma)>> \o arg,
                                  args[i], SubSeq(args, i + 1, Len(args)))
      [] OTHER -> args[i]

(* What replaces each element of the body.                                 *)
Replacement(mac, args, expanded, i) ==
    LET e == mac.body[i] IN
    CASE e.k = "token" -> <<CTok(e.s)>>
      [] e.k = "string" ->
           <<CTok(Quote \o FlattenSeq(Spelled(CArg(mac, args, e.i))) \o Quote)>>
      [] e.k = "param" ->
           IF IsPaste(mac.body, i - 1) \/ IsPaste(mac.body, i + 1)
           THEN Placed(CArg(mac, args, e.i)) ELSE CArg(mac, expanded, e.i)
      [] e.k = "paste" -> <<>>

(* The tokens on both sides of ## become one.  Those that do not form one  *)
(* stay two, which C leaves undefined.  A comma before ## goes away with   *)
(* empty variable arguments (the GNU rule).                                *)
Joined(a, b) == [s |-> a.s \o b.s, hs |-> a.hs \intersect b.hs]
Paste(left, right, variable) ==
    IF variable /\ Last(left).s = Comma /\ right = <<Placemarker>> THEN Front(left)
    ELSE IF \/ Last(left) = Placemarker \/ Head(right) = Placemarker
            \/ Joins(Last(left).s) /\ Joins(Head(right).s)
    THEN Front(left) \o <<Joined(Last(left), Head(right))>> \o Tail(right)
    ELSE left \o right

Substituted(mac, args, expanded) ==
    LET piece(i) == Replacement(mac, args, expanded, i)
        upTo[i \in 0..Len(mac.body)] ==
            IF i = 0 THEN <<>>
            ELSE IF IsPaste(mac.body, i - 1) THEN Paste(upTo[i - 1], piece(i), IsRest(mac, i))
            ELSE upTo[i - 1] \o piece(i)
    IN  SelectSeq(upTo[Len(mac.body)], LAMBDA t : t.s # <<>>)

Hiding(toks, hs) == [i \in DOMAIN toks |-> [toks[i] EXCEPT !.hs = @ \union hs]]

(* nested: whether a call that ends after the replacement its name comes   *)
(* from still counts as nested in it.                                      *)
RECURSIVE CExpand(_, _, _)
CExpand(table, nested, toks) ==
    IF toks = <<>> THEN <<>>
    ELSE LET tok == Head(toks)
             rest == Tail(toks)
         IN
         IF \/ tok.s \in tok.hs
            \/ tok.s \notin DOMAIN table
            \/ table[tok.s].fun /\ ~StartsCall(rest)
         THEN <<tok>> \o CExpand(table, nested, rest)
         ELSE LET mac == table[tok.s] IN
              IF ~mac.fun
              THEN CExpand(table, nested,
                       Hiding(Substituted(mac, <<>>, <<>>), tok.hs \union {tok.s}) \o rest)
              ELSE LET call == Arguments(rest)
                       closing == rest[Len(rest) - Len(call.rest)]
                       hs == IF nested THEN tok.hs ELSE tok.hs \intersect closing.hs
                       expanded == [i \in DOMAIN call.args |-> CExpand(table, nested, call.args[i])]
                   IN  CExpand(table, nested,
                           Hiding(Substituted(mac, call.args, expanded), hs \union {tok.s})
                           \o call.rest)

CExpandLine(table, toks) == {Spelled(CExpand(table, nested, CToks(toks))) : nested \in BOOLEAN}

=============================================================================
