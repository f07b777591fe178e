---------------------------- MODULE StmtLowering ----------------------------
(***************************************************************************)
(* From C statements to HIR: the statement parser of co2_parser            *)
(* (parse_statement, parse_body_statement) and HirCtx::lower_stmt of       *)
(* co2_hir, which turns loops, switch, break, continue, case and default   *)
(* into labels and gotos.                                                  *)
(*                                                                         *)
(* The parser and the lowering are recursive functions over the statement; *)
(* here the recursion is the stack `frames`, and one action is taken per   *)
(* statement, or per half of a statement that has a body: the half before  *)
(* the recursive call and the half after it.  The program is not given in  *)
(* advance: the environment picks the next statement, and `prog` records   *)
(* what it picked, with an "end" token where a statement with a body ends. *)
(***************************************************************************)
EXTENDS Naturals, Sequences

CONSTANTS
    Names,      \* the identifiers of named labels
    CaseSets,   \* the sets of values a case label may stand for: a singleton
                \* for `case v:`, an interval (or nothing) for `case a ... b:`
    Kinds,      \* the kinds of statement the environment may pick
    MaxStmts    \* bound: statements picked in one program

ASSUME MaxStmtsAssumption == MaxStmts \in Nat

VARIABLES
    frames,             \* the calls of lower_stmt in progress, outermost first
    outs,               \* the vectors of HIR statements those calls hold; the
                        \* innermost call appends to the last
    continue_labels, break_labels, switch_scopes,   \* HirCtx's three stacks
    labels,             \* HirCtx::labels: how many were handed out
    named_labels,       \* HirCtx::named_labels
    prog,               \* the statements picked so far
    mode                \* "stmt": a statement is expected; "done", "noelse": one
                        \* has just been completed (and no `else` follows);
                        \* "end": the body is lowered; "error": diagnosed

ctxVars == <<continue_labels, break_labels, switch_scopes>>
labelVars == <<labels, named_labels>>
lowerVars == <<frames, outs, continue_labels, break_labels, switch_scopes,
               labels, named_labels, prog, mode>>

-----------------------------------------------------------------------------
(* HIR statements *)

HExpr(i) == [op |-> "expr", at |-> i]
HReturn(i) == [op |-> "return", at |-> i]
HDecl(i) == [op |-> "decl", at |-> i]
HLabel(l) == [op |-> "label", l |-> l]
HGoto(l) == [op |-> "goto", l |-> l]
HIf(c, then, else) == [op |-> "if", cond |-> c, then |-> then, else |-> else]
HBlock(stmts) == [op |-> "block", stmts |-> stmts]

(* A condition is the controlling expression of the statement at i, the   *)
(* constant 1 of `for (;;)`, or the comparison of a discriminant with the *)
(* values of a case label.                                                *)
Cond(i) == [k |-> "cond", at |-> i, vals |-> {}]
Always == [k |-> "true", at |-> 0, vals |-> {}]
IsCase(d, vals) == [k |-> "case", at |-> d, vals |-> vals]

(* The test at the head of `while` and `for` and at the foot of `do`.     *)
LoopTest(c, body, end) == HIf(c, <<HGoto(body)>>, <<HGoto(end)>>)

-----------------------------------------------------------------------------
(* Frames *)

LoopKinds == {"while", "do", "for"}
BreakKinds == LoopKinds \union {"switch"}

(* What a call of lower_stmt remembers across the recursive call: where   *)
(* the statement starts and its labels.                                   *)
Frame(kind, at) == [kind |-> kind, at |-> at, cond |-> 0, body |-> 0, cont |-> 0, end |-> 0]

(* The vectors: append to the innermost one, start a new one, or give up  *)
(* the n innermost for statements of the one around them.                 *)
Vector(i) == outs[Len(outs) - i]
Emit(stmts) == outs' = [outs EXCEPT ![Len(outs)] = @ \o stmts]
NewVector(stmts) == outs' = Append(outs, stmts)
FoldInto(n, stmts) ==
    LET rest == SubSeq(outs, 1, Len(outs) - n)
    IN  outs' = [rest EXCEPT ![Len(rest)] = @ \o stmts]

Top == frames[Len(frames)]
Popped == SubSeq(frames, 1, Len(frames) - 1)

(* A compound statement takes any number of statements, every other       *)
(* enclosing statement exactly one.                                       *)
InCompound(fs) == fs = <<>> \/ fs[Len(fs)].kind = "block"

(* The mode after a statement directly below fs is complete.              *)
Completed(fs, m) == IF InCompound(fs) THEN "stmt" ELSE m

Here == Len(prog) + 1
Picked == Len(SelectSeq(prog, LAMBDA t : t.k \notin {"end", "else"}))

Expecting(kind) == mode = "stmt" /\ kind \in Kinds /\ Picked < MaxStmts

Token(k, of, vals) == [k |-> k, of |-> of, vals |-> vals]
Record(k, of) == prog' = Append(prog, Token(k, of, {}))

-----------------------------------------------------------------------------
(* Statements without a body *)

Simple(kind, hir) ==
    /\ Expecting(kind)
    /\ Emit(<<hir>>)
    /\ Record(kind, 0)
    /\ mode' = Completed(frames, "done")
    /\ UNCHANGED frames

ExpressionStmt == Simple("expr", HExpr(Here)) /\ UNCHANGED <<ctxVars, labelVars>>

ReturnStmt == Simple("return", HReturn(Here)) /\ UNCHANGED <<ctxVars, labelVars>>

Break ==
    /\ break_labels # <<>>
    /\ Simple("break", HGoto(break_labels[Len(break_labels)]))
    /\ UNCHANGED <<ctxVars, labelVars>>

Continue ==
    /\ continue_labels # <<>>
    /\ Simple("continue", HGoto(continue_labels[Len(continue_labels)]))
    /\ UNCHANGED <<ctxVars, labelVars>>

(* resolve_or_insert_label: the label of a name, and the context once the *)
(* name is known.                                                         *)
LabelOf(n) == IF n \in DOMAIN named_labels THEN named_labels[n] ELSE labels + 1

(* Mutant: the label a name gets is not counted as handed out.            *)
ResolveOrInsertLabel_NotFresh(n) ==
    IF n \in DOMAIN named_labels
    THEN UNCHANGED labelVars
    ELSE /\ UNCHANGED labels
         /\ named_labels' = [m \in DOMAIN named_labels \union {n} |->
                                IF m = n THEN labels + 1 ELSE named_labels[m]]

ResolveOrInsertLabel(n) ==
    IF n \in DOMAIN named_labels
    THEN UNCHANGED labelVars
    ELSE /\ labels' = labels + 1
         /\ named_labels' = [m \in DOMAIN named_labels \union {n} |->
                                IF m = n THEN labels + 1 ELSE named_labels[m]]

Goto(n) ==
    /\ Expecting("goto")
    /\ ResolveOrInsertLabel(n)
    /\ Emit(<<HGoto(LabelOf(n))>>)
    /\ prog' = Append(prog, Token("goto", n, {}))
    /\ mode' = Completed(frames, "done")
    /\ UNCHANGED <<frames, ctxVars>>

-----------------------------------------------------------------------------
(* Labels are items of their own.  In the place of a body, they and the   *)
(* one statement that follows are wrapped in a compound.                  *)

InBody == ~InCompound(frames) /\ Top.kind # "labels"

LabelItem(l) ==
    /\ frames' = IF InBody THEN Append(frames, Frame("labels", 0)) ELSE frames
    /\ IF InBody THEN NewVector(<<HLabel(l)>>) ELSE Emit(<<HLabel(l)>>)
    /\ UNCHANGED mode

(* A name labels one statement: a second label of the same name is not    *)
(* modelled here, the builder binds it again (ScopeLowering).             *)
NamedLabel(n) ==
    /\ Expecting("label")
    /\ \A i \in 1..Len(prog) : prog[i].k = "label" => prog[i].of # n
    /\ ResolveOrInsertLabel(n)
    /\ LabelItem(LabelOf(n))
    /\ Record("label", n)
    /\ UNCHANGED ctxVars

InSwitch == switch_scopes # <<>>
Scope == switch_scopes[Len(switch_scopes)]

SetScope(s) == switch_scopes' = [switch_scopes EXCEPT ![Len(switch_scopes)] = s]

Case(vals) ==
    /\ Expecting("case")
    /\ InSwitch
    /\ labels' = labels + 1
    /\ SetScope([Scope EXCEPT !.case_labels =
                    Append(@, [cond |-> IsCase(Scope.discr, vals), l |-> labels + 1])])
    /\ LabelItem(labels + 1)
    /\ prog' = Append(prog, Token("case", 0, vals))
    /\ UNCHANGED <<named_labels, continue_labels, break_labels>>

Default ==
    /\ Expecting("default")
    /\ InSwitch /\ Scope.default = 0
    /\ labels' = labels + 1
    /\ SetScope([Scope EXCEPT !.default = labels + 1])
    /\ LabelItem(labels + 1)
    /\ Record("default", 0)
    /\ UNCHANGED <<named_labels, continue_labels, break_labels>>

(* The diagnosed misuses: lowering ends there.                            *)
Misplaced ==
    /\ \/ Expecting("break") /\ break_labels = <<>>
       \/ Expecting("continue") /\ continue_labels = <<>>
       \/ Expecting("case") /\ ~InSwitch
       \/ Expecting("default") /\ ~InSwitch
       \/ Expecting("default") /\ InSwitch /\ Scope.default # 0
    /\ mode' = "error"
    /\ UNCHANGED <<frames, outs, ctxVars, labelVars, prog>>

-----------------------------------------------------------------------------
(* Statements with a body: up to the recursive call *)

(* Compound: the items go to a vector of their own.                       *)
OpenBlock ==
    /\ Expecting("block")
    /\ frames' = Append(frames, Frame("block", Here))
    /\ NewVector(<<>>)
    /\ Record("block", 0)
    /\ UNCHANGED <<ctxVars, labelVars, mode>>

OpenIf ==
    /\ Expecting("if")
    /\ frames' = Append(frames, Frame("then", Here))
    /\ NewVector(<<>>)
    /\ Record("if", 0)
    /\ UNCHANGED <<ctxVars, labelVars, mode>>

(* Mutant: each label goes on the other's stack.                          *)
EnterLoop_Swapped(cont, end) ==
    /\ continue_labels' = Append(continue_labels, end)
    /\ break_labels' = Append(break_labels, cont)

EnterLoop(cont, end) ==
    /\ continue_labels' = Append(continue_labels, cont)
    /\ break_labels' = Append(break_labels, end)

OpenWhile ==
    LET cond == labels + 1  body == labels + 2  end == labels + 3 IN
    /\ Expecting("while")
    /\ labels' = labels + 3
    /\ Emit(<<HLabel(cond), LoopTest(Cond(Here), body, end), HLabel(body)>>)
    /\ frames' = Append(frames, [Frame("while", Here) EXCEPT
                    !.cond = cond, !.body = body, !.cont = cond, !.end = end])
    /\ EnterLoop(cond, end)
    /\ Record("while", 0)
    /\ UNCHANGED <<switch_scopes, named_labels, mode>>

OpenDo ==
    LET body == labels + 1  cond == labels + 2  end == labels + 3 IN
    /\ Expecting("do")
    /\ labels' = labels + 3
    /\ Emit(<<HGoto(body), HLabel(body)>>)
    /\ frames' = Append(frames, [Frame("do", Here) EXCEPT
                    !.cond = cond, !.body = body, !.cont = cond, !.end = end])
    /\ EnterLoop(cond, end)
    /\ Record("do", 0)
    /\ UNCHANGED <<switch_scopes, named_labels, mode>>

(* `for (init; cond; post)` and `for (;;)`: the statement has a block of  *)
(* its own, and the initialiser is an item of it.                         *)
OpenFor(kind) ==
    LET cond == labels + 1  body == labels + 2  cont == labels + 3  end == labels + 4
        init == IF kind = "for" THEN <<HExpr(Here)>> ELSE <<>>
        test == IF kind = "for" THEN Cond(Here) ELSE Always
    IN
    /\ Expecting(kind)
    /\ labels' = labels + 4
    /\ NewVector(init \o <<HLabel(cond), LoopTest(test, body, end), HLabel(body)>>)
    /\ frames' = Append(frames, [Frame("for", Here) EXCEPT
                    !.cond = cond, !.body = body, !.cont = cont, !.end = end])
    /\ EnterLoop(cont, end)
    /\ Record(kind, 0)
    /\ UNCHANGED <<switch_scopes, named_labels, mode>>

(* The discriminant is evaluated into a local of its own; the tests are   *)
(* not emitted yet, the body goes to a vector of its own.                 *)
OpenSwitch ==
    LET end == labels + 1 IN
    /\ Expecting("switch")
    /\ labels' = end
    /\ frames' = Append(frames, [Frame("switch", Here) EXCEPT !.end = end])
    /\ outs' = Append([outs EXCEPT ![Len(outs)] = Append(@, HDecl(Here))], <<>>)
    /\ switch_scopes' = Append(switch_scopes,
            [discr |-> Here, case_labels |-> <<>>, default |-> 0])
    /\ break_labels' = Append(break_labels, end)
    /\ Record("switch", 0)
    /\ UNCHANGED <<continue_labels, named_labels, mode>>

-----------------------------------------------------------------------------
(* ... and after it *)

Finishing(kind) == mode \in {"done", "noelse"} /\ frames # <<>> /\ Top.kind = kind

Close(m) == frames' = Popped /\ mode' = Completed(Popped, m)

(* Mutant: only one of the two stacks is popped.                          *)
ExitLoop_BreakOnly ==
    /\ UNCHANGED continue_labels
    /\ break_labels' = SubSeq(break_labels, 1, Len(break_labels) - 1)

ExitLoop ==
    /\ continue_labels' = SubSeq(continue_labels, 1, Len(continue_labels) - 1)
    /\ break_labels' = SubSeq(break_labels, 1, Len(break_labels) - 1)

CloseBlock ==
    /\ mode = "stmt" /\ frames # <<>> /\ Top.kind = "block"
    /\ FoldInto(1, <<HBlock(Vector(0))>>)
    /\ Record("end", Top.at)
    /\ Close("done")
    /\ UNCHANGED <<ctxVars, labelVars>>

CloseLabels ==
    /\ Finishing("labels")
    /\ FoldInto(1, <<HBlock(Vector(0))>>)
    /\ Close(mode)
    /\ UNCHANGED <<ctxVars, labelVars, prog>>

(* The then branch is complete and `else` follows.                        *)
Else ==
    /\ mode = "done" /\ frames # <<>> /\ Top.kind = "then"
    /\ frames' = Append(Popped, [Top EXCEPT !.kind = "else"])
    /\ NewVector(<<>>)
    /\ Record("else", Top.at)
    /\ mode' = "stmt"
    /\ UNCHANGED <<ctxVars, labelVars>>

CloseThen ==
    /\ Finishing("then")
    /\ FoldInto(1, <<HIf(Cond(Top.at), Vector(0), <<>>)>>)
    /\ Record("end", Top.at)
    /\ Close("noelse")
    /\ UNCHANGED <<ctxVars, labelVars>>

CloseElse ==
    /\ Finishing("else")
    /\ FoldInto(2, <<HIf(Cond(Top.at), Vector(1), Vector(0))>>)
    /\ Record("end", Top.at)
    /\ Close(mode)
    /\ UNCHANGED <<ctxVars, labelVars>>

CloseWhile ==
    /\ Finishing("while")
    /\ Emit(<<HGoto(Top.cond), HLabel(Top.end)>>)
    /\ ExitLoop
    /\ Record("end", Top.at)
    /\ Close(mode)
    /\ UNCHANGED <<switch_scopes, labelVars>>

CloseDo ==
    /\ Finishing("do")
    /\ Emit(<<HLabel(Top.cond), LoopTest(Cond(Top.at), Top.body, Top.end), HLabel(Top.end)>>)
    /\ ExitLoop
    /\ Record("end", Top.at)
    /\ Close("done")
    /\ UNCHANGED <<switch_scopes, labelVars>>

(* Mutants: continue passes over `post`; a `for` that has none gets no    *)
(* label to continue at.                                                  *)
ForTail_PostFirst(cont, post) == post \o <<HLabel(cont)>>
ForTail_NoLabel(cont, post) == IF post = <<>> THEN <<>> ELSE <<HLabel(cont)>> \o post
ForTail(cont, post) == <<HLabel(cont)>> \o post

CloseFor ==
    LET post == IF prog[Top.at].k = "for" THEN <<HExpr(Here)>> ELSE <<>> IN
    /\ Finishing("for")
    /\ FoldInto(1, <<HBlock(Vector(0) \o ForTail(Top.cont, post)
                               \o <<HGoto(Top.cond), HLabel(Top.end)>>)>>)
    /\ ExitLoop
    /\ Record("end", Top.at)
    /\ Close(mode)
    /\ UNCHANGED <<switch_scopes, labelVars>>

(* exit_switch_scope hands back the registered labels: one test per case  *)
(* in the order of registration, then the jump to default or past the     *)
(* body, then the body.                                                   *)
CloseSwitch ==
    LET tests == [i \in DOMAIN Scope.case_labels |->
                    HIf(Scope.case_labels[i].cond, <<HGoto(Scope.case_labels[i].l)>>, <<>>)]
        otherwise == IF Scope.default # 0 THEN Scope.default ELSE Top.end
    IN
    /\ Finishing("switch")
    /\ FoldInto(1, tests \o <<HGoto(otherwise)>> \o Vector(0) \o <<HLabel(Top.end)>>)
    /\ switch_scopes' = SubSeq(switch_scopes, 1, Len(switch_scopes) - 1)
    /\ break_labels' = SubSeq(break_labels, 1, Len(break_labels) - 1)
    /\ Record("end", Top.at)
    /\ Close(mode)
    /\ UNCHANGED <<continue_labels, labelVars>>

-----------------------------------------------------------------------------
(* The closing brace of the function; a program that jumps to a label it  *)
(* never places is no C program.                                          *)
LowerDone ==
    /\ mode = "stmt" /\ frames = <<>>
    /\ \A n \in DOMAIN named_labels : \E i \in 1..Len(prog) :
            prog[i].k = "label" /\ prog[i].of = n
    /\ mode' = "end"
    /\ UNCHANGED <<frames, outs, ctxVars, labelVars, prog>>

LowerInit ==
    /\ frames = <<>> /\ outs = << <<>> >>
    /\ continue_labels = <<>> /\ break_labels = <<>> /\ switch_scopes = <<>>
    /\ labels = 0 /\ named_labels = <<>>
    /\ prog = <<>> /\ mode = "stmt"

Pick ==
    \/ ExpressionStmt \/ ReturnStmt \/ Break \/ Continue \/ Misplaced
    \/ \E n \in Names : Goto(n) \/ NamedLabel(n)
    \/ \E vals \in CaseSets : Case(vals)
    \/ Default
    \/ OpenBlock \/ OpenIf \/ OpenWhile \/ OpenDo \/ OpenSwitch
    \/ \E kind \in {"for", "forever"} : OpenFor(kind)

Finish ==
    \/ CloseBlock \/ CloseLabels \/ Else \/ CloseThen \/ CloseElse
    \/ CloseWhile \/ CloseDo \/ CloseFor \/ CloseSwitch \/ LowerDone

LowerNext == Pick \/ Finish

LowerSpec == LowerInit /\ [][LowerNext]_lowerVars

-----------------------------------------------------------------------------
(* Properties *)

FrameKinds == BreakKinds \union {"block", "labels", "then", "else"}
Frames == [kind : FrameKinds, at : Nat, cond : Nat, body : Nat, cont : Nat, end : Nat]
Conds == [k : {"cond", "true", "case"}, at : Nat, vals : CaseSets \union {{}}]
Scopes == [discr : Nat, case_labels : Seq([cond : Conds, l : Nat]), default : Nat]
Tokens == [k : Kinds \union {"else", "end"}, of : Nat \union Names, vals : CaseSets \union {{}}]

(* Every variable but the vectors, whose elements are trees.  A name has a *)
(* label that was handed out, and keeps it: fresh labels are new ones.     *)
TypeOK ==
    /\ frames \in Seq(Frames)
    /\ continue_labels \in Seq(Nat) /\ break_labels \in Seq(Nat)
    /\ switch_scopes \in Seq(Scopes)
    /\ labels \in Nat
    /\ DOMAIN named_labels \subseteq Names
    /\ \A n \in DOMAIN named_labels : named_labels[n] \in 1..labels
    /\ prog \in Seq(Tokens)
    /\ mode \in {"stmt", "done", "noelse", "end", "error"}

(* A frame is the innermost of some kinds when none of those kinds is     *)
(* inside it.                                                             *)
Innermost(i, kinds) ==
    /\ i \in 1..Len(frames) /\ frames[i].kind \in kinds
    /\ \A j \in (i + 1)..Len(frames) : frames[j].kind \notin kinds

(* break leaves the innermost loop or switch, continue goes to the        *)
(* innermost loop (through any switch in between), case and default       *)
(* belong to the innermost switch (through any loop in between):          *)
(* current_break_label, current_continue_label and current_switch_discr   *)
(* read the tops of three stacks that are pushed and popped separately.   *)
JumpsAreInnermost ==
    \A i \in 1..Len(frames) :
        /\ Innermost(i, BreakKinds) =>
            /\ break_labels # <<>>
            /\ break_labels[Len(break_labels)] = frames[i].end
        /\ Innermost(i, LoopKinds) =>
            /\ continue_labels # <<>>
            /\ continue_labels[Len(continue_labels)] = frames[i].cont
        /\ Innermost(i, {"switch"}) =>
            InSwitch /\ Scope.discr = frames[i].at

(* Outside of every loop and switch the stacks are empty, so that a       *)
(* misplaced break, continue, case or default is diagnosed and never      *)
(* bound to a statement that has ended.                                   *)
NothingOutlivesItsStatement ==
    /\ (\A i \in 1..Len(frames) : frames[i].kind \notin BreakKinds) => break_labels = <<>>
    /\ (\A i \in 1..Len(frames) : frames[i].kind \notin LoopKinds) => continue_labels = <<>>
    /\ (\A i \in 1..Len(frames) : frames[i].kind # "switch") => switch_scopes = <<>>

=============================================================================
