------------------------------- MODULE StmtRun -------------------------------
(***************************************************************************)
(* What the lowered statements do, next to what the C program says.  Once  *)
(* StmtLowering has lowered a program, two executions run in lockstep: the *)
(* structured one, which knows only where statements begin and end in the  *)
(* source, and that of the HIR, which knows only labels and jumps.  Both   *)
(* stop at every expression, controlling expression, discriminant and      *)
(* return; the outcome of a condition is chosen once, for both.            *)
(***************************************************************************)
EXTENDS StmtLowering, FiniteSets, FiniteSetsExt

CONSTANT Values     \* values a discriminant may have

VARIABLES
    src,    \* where the structured execution is: a statement, and whether
            \* the test of that loop is due
    code,   \* the HIR, flattened
    pc,     \* where the execution of the HIR is
    discr   \* the discriminants the HIR holds in locals

runVars == <<src, code, pc, discr>>
vars == <<lowerVars, runVars>>

Running == pc > 0

-----------------------------------------------------------------------------
(* The structured execution *)

EndOf(i) == CHOOSE j \in 1..Len(prog) : prog[j].k = "end" /\ prog[j].of = i
ElseOf(i) == {j \in 1..Len(prog) : prog[j].k = "else" /\ prog[j].of = i}

Loops == {"while", "do", "for", "forever"}

(* The innermost statement of the given kinds around position p.          *)
Around(p, kinds) ==
    Max({i \in 1..(p - 1) : prog[i].k \in kinds /\ EndOf(i) > p})

At(i) == [at |-> i, test |-> FALSE]
Test(i) == [at |-> i, test |-> TRUE]

LabelPlace(n) == CHOOSE i \in 1..Len(prog) : prog[i].k = "label" /\ prog[i].of = n

(* Where a switch goes on value v: its own case labels, not those of a    *)
(* switch inside it.                                                      *)
Own(i, kind) == {j \in (i + 1)..EndOf(i) : prog[j].k = kind /\ Around(j, {"switch"}) = i}

SwitchTo(i, v) ==
    LET hits == {j \in Own(i, "case") : v \in prog[j].vals} IN
    IF hits # {} THEN At(Min(hits) + 1)
    ELSE IF Own(i, "default") # {} THEN At(Min(Own(i, "default")) + 1)
    ELSE At(EndOf(i) + 1)

Event(k, i) == [k |-> k, at |-> i]
Silent == Event("silent", 0)

TokenAt(s) == prog[s.at]

SourceEvent(s) ==
    IF s.at > Len(prog) THEN Event("exit", 0)
    ELSE LET t == TokenAt(s) IN
         IF s.test THEN IF t.k = "forever" THEN Silent ELSE Event("cond", s.at)
         ELSE CASE t.k \in {"expr", "return", "switch"} -> Event(t.k, s.at)
                [] t.k \in {"if", "while"} -> Event("cond", s.at)
                [] t.k = "for" -> Event("expr", s.at)
                [] t.k = "end" /\ prog[t.of].k = "for" -> Event("expr", s.at)
                [] OTHER -> Silent

(* Where a silent statement leads.                                        *)
Flow(s) ==
    LET t == TokenAt(s)  i == s.at IN
    CASE t.k = "forever" -> IF s.test THEN At(i + 1) ELSE Test(i)
      [] t.k = "break" -> At(EndOf(Around(i, Loops \union {"switch"})) + 1)
      [] t.k = "continue" ->
            LET l == Around(i, Loops) IN IF prog[l].k = "while" THEN At(l) ELSE At(EndOf(l))
      [] t.k = "goto" -> At(LabelPlace(t.of) + 1)
      [] t.k = "else" -> At(EndOf(t.of) + 1)
      [] t.k = "end" ->
            CASE prog[t.of].k = "while" -> At(t.of)
              [] prog[t.of].k \in {"do", "forever"} -> Test(t.of)
              [] OTHER -> At(i + 1)
      [] OTHER -> At(i + 1)

(* Silent statements are followed to the next event; an execution that    *)
(* meets none within `fuel` statements runs in a circle of silent ones.   *)
RECURSIVE SourceRest(_, _)
SourceRest(s, fuel) ==
    IF fuel = 0 \/ SourceEvent(s) # Silent THEN s ELSE SourceRest(Flow(s), fuel - 1)

(* Where an event leads, o being the value it produced.                   *)
After(s, o) ==
    LET t == TokenAt(s)  i == s.at IN
    CASE t.k = "switch" -> SwitchTo(i, o)
      [] t.k = "if" -> IF o = 1 THEN At(i + 1)
                       ELSE IF ElseOf(i) # {} THEN At(Min(ElseOf(i)) + 1)
                       ELSE At(EndOf(i) + 1)
      [] t.k = "while" \/ s.test -> IF o = 1 THEN At(i + 1) ELSE At(EndOf(i) + 1)
      [] t.k = "for" -> Test(i)
      [] t.k = "end" -> Test(t.of)
      [] OTHER -> At(i + 1)

-----------------------------------------------------------------------------
(* The execution of the HIR, as the MIR builder lays it out: a test, the  *)
(* then branch, a jump over the else branch, the else branch.             *)

Branch(c, skip) == [op |-> "branch", cond |-> c, skip |-> skip]
Skip(n) == [op |-> "skip", skip |-> n]

RECURSIVE Flatten(_)
Flatten(stmts) ==
    IF stmts = <<>> THEN <<>>
    ELSE LET s == Head(stmts)
             first == CASE s.op = "block" -> Flatten(s.stmts)
                        [] s.op = "if" ->
                            LET then == Flatten(s.then)  else == Flatten(s.else)
                            IN  <<Branch(s.cond, Len(then) + 1)>> \o then
                                \o <<Skip(Len(else))>> \o else
                        [] OTHER -> <<s>>
         IN  first \o Flatten(Tail(stmts))

Placed(l) == {i \in 1..Len(code) : code[i].op = "label" /\ code[i].l = l}

HirEvent(p) ==
    IF p > Len(code) THEN Event("exit", 0)
    ELSE LET s == code[p] IN
         CASE s.op \in {"expr", "return"} -> Event(s.op, s.at)
           [] s.op = "decl" -> Event("switch", s.at)
           [] s.op = "branch" /\ s.cond.k = "cond" -> Event("cond", s.cond.at)
           [] OTHER -> Silent

(* A test that fails passes over the then branch and the jump after it.   *)
Taken(p, holds) == IF holds THEN p + 1 ELSE p + 1 + code[p].skip

(* d: the discriminants held in locals.                                   *)
HirFlow(p, d) ==
    LET s == code[p] IN
    CASE s.op = "goto" -> Min(Placed(s.l))
      [] s.op = "skip" -> p + 1 + s.skip
      [] s.op = "branch" -> Taken(p, s.cond.k = "true" \/ d[s.cond.at] \in s.cond.vals)
      [] OTHER -> p + 1

RECURSIVE HirRest(_, _, _)
HirRest(p, d, fuel) ==
    IF fuel = 0 \/ HirEvent(p) # Silent THEN p ELSE HirRest(HirFlow(p, d), d, fuel - 1)

-----------------------------------------------------------------------------

RunInit ==
    /\ LowerInit
    /\ src = At(1) /\ code = <<>> /\ pc = 0 /\ discr = <<>>

Lower == LowerNext /\ UNCHANGED runVars

Load ==
    /\ mode = "end" /\ code = <<>> /\ prog # <<>>
    /\ code' = Flatten(Vector(0))
    /\ UNCHANGED <<lowerVars, src, pc, discr>>

(* Positions are told apart by at most two facts, so that more silent     *)
(* steps than this are a circle.                                          *)
Fuel == 2 * (Len(prog) + Len(code))

Start ==
    /\ code # <<>> /\ pc = 0
    /\ src' = SourceRest(At(1), Fuel)
    /\ discr' = [i \in 1..Len(prog) |-> 0]
    /\ pc' = HirRest(1, discr', Fuel)
    /\ UNCHANGED <<lowerVars, code>>

Halted == SourceEvent(src).k \in {"exit", "return", "silent"}

(* Both executions take the same step, a condition with one outcome.      *)
Together(o) ==
    LET e == SourceEvent(src) IN
    /\ Running /\ ~Halted /\ HirEvent(pc) = e
    /\ CASE e.k = "cond" -> o \in {0, 1}
         [] e.k = "switch" -> o \in Values
         [] OTHER -> o = 0
    /\ src' = SourceRest(After(src, o), Fuel)
    /\ discr' = IF e.k = "switch" THEN [discr EXCEPT ![e.at] = o] ELSE discr
    /\ pc' = HirRest(IF e.k = "cond" THEN Taken(pc, o = 1) ELSE pc + 1, discr', Fuel)
    /\ UNCHANGED <<lowerVars, code>>

(* The run is over, or lowering has ended in a diagnostic or at the bound *)
Over ==
    /\ \/ mode = "error"
       \/ Running /\ Halted
       \/ pc = 0 /\ Picked = MaxStmts
       \/ mode = "end" /\ prog = <<>>
    /\ UNCHANGED vars

Next ==
    \/ Lower \/ Load \/ Start
    \/ \E o \in {0, 1} \union Values : Together(o)
    \/ Over

Spec == RunInit /\ [][Next]_vars

-----------------------------------------------------------------------------
(* Properties *)

(* The HIR evaluates the same expressions and conditions in the same      *)
(* order as the C program, returns where it returns and runs in circles   *)
(* only where it does: the labels, the three stacks and the order in      *)
(* which lower_stmt appends to its vectors stand for the nesting of the   *)
(* source.                                                                *)
SameBehaviour == Running => HirEvent(pc) = SourceEvent(src)

(* Every jump of the lowered body has a label to land on, placed once:    *)
(* the builder patches gotos when it meets the label, and a label handed  *)
(* out but not placed leaves a block without a target.                    *)
EveryGotoLands ==
    \A i \in 1..Len(code) :
        /\ code[i].op = "goto" => Cardinality(Placed(code[i].l)) = 1
        /\ code[i].op = "label" => Placed(code[i].l) = {i}

=============================================================================
