---------------------------- MODULE ScopeLowering ----------------------------
(***************************************************************************)
(* co2_mir's Builder (src/co2_mir/src/build.rs, basic_block.rs): one HIR   *)
(* body lowered, statement by statement, to MIR basic blocks.              *)
(*                                                                         *)
(* The builder appends blocks in source order and knows most jump targets  *)
(* only later: a condition's two sides and their join are patched when     *)
(* they have been lowered, gotos when the whole body has.  Lexical scopes  *)
(* give the StorageLive and StorageDead statements; a goto gets a block of *)
(* its own for the scopes it leaves and enters.                            *)
(*                                                                         *)
(* The body is the environment's choice, made while it is lowered: frames  *)
(* is the builder's recursion over it (Block, both sides of an If, and GNU *)
(* statement expressions), so every body of at most MaxSize statements of  *)
(* the kinds in Kinds is lowered.                                          *)
(***************************************************************************)
EXTENDS Integers, Sequences, FiniteSets, SequencesExt

CONSTANTS
  Locals,   \* the locals a body may declare
  Vlas,     \* those of them whose type is a variable length array
  Labels,   \* the labels a body may use
  Named,    \* those of them written in the source; the others come from loops
  Kinds,    \* statement kinds the environment may choose
  Conditions, \* what it may branch on: true, false, runtime
  MaxSize   \* number of statements it may choose

ASSUME ConstantsAssumption ==
  /\ Vlas \subseteq Locals /\ Named \subseteq Labels /\ MaxSize \in Nat
  /\ Conditions \subseteq {"true", "false", "runtime"}

VARIABLES
  code,       \* statements of each block; block b is code[b + 1], term[b + 1]
  term,       \* terminator of each block
  stmts,      \* statements of the block being built
  scopes,     \* the active scopes, outermost first
  nextScope,
  targets,    \* label_targets: for each bound label, its block and scopes
  gotos,      \* pending_gotos
  indirect,   \* pending_indirect_gotos
  frames,     \* statements being lowered, outermost first
  fresh,      \* locals the body has not declared
  size,       \* statements chosen so far
  phase       \* lower, patch, done; vla, unresolved, noLabels: the error

vars == <<code, term, stmts, scopes, nextScope, targets, gotos, indirect,
          frames, fresh, size, phase>>

Unpatched == -1   \* usize::MAX, standing for a target not known yet
Unbound == [block |-> Unpatched, scopes |-> << >>]

Term  == [kind : {"goto", "switch", "call", "return"}, to : SUBSET Int]

SetLast(s, e) == Append(Front(s), e)

NumBlocks == Len(term)
Emit(op, xs) == Append(stmts, [op |-> op, on |-> xs])
OpenScope(id, ds) == [id |-> id, locals |-> ds, vlas |-> {}]

(* A frame: declarations still to reach, locals named so far, and, for an  *)
(* If, its block (entry), condition, first then-block and last then-block. *)
Frame(kind, ds) ==
  [kind |-> kind, todo |-> ds, seen |-> {}, entry |-> Unpatched,
   cond |-> "runtime", thenStart |-> Unpatched, thenExit |-> Unpatched]

(* The locals a name can resolve to here.                                  *)
Visible == UNION { frames[i].seen : i \in DOMAIN frames }

(* push_terminator: close the block being built.                           *)
PushTerminator(kind, to) ==
  /\ code' = Append(code, stmts)
  /\ term' = Append(term, [kind |-> kind, to |-> to])
  /\ stmts' = << >>

Patched(ts, b, to) == [ts EXCEPT ![b + 1].to = to]

-----------------------------------------------------------------------------
(* The function's own scope: storage of its locals goes live first.        *)
Init ==
  \E ds \in SUBSET Locals :
    /\ code = << >> /\ term = << >>
    /\ stmts = IF ds = {} THEN << >> ELSE <<[op |-> "live", on |-> ds]>>
    /\ scopes = <<OpenScope(0, ds)>>
    /\ nextScope = 1
    /\ targets = [l \in Labels |-> Unbound]
    /\ gotos = << >> /\ indirect = << >>
    /\ frames = <<Frame("block", ds)>>
    /\ fresh = Locals \ ds
    /\ size = 0
    /\ phase = "lower"

(* The environment chooses one more statement of this kind.                *)
Choose(kind) ==
  /\ phase = "lower" /\ kind \in Kinds /\ size < MaxSize
  /\ size' = size + 1
  /\ UNCHANGED phase

(* HirStmt::Block: a new scope whose locals go live on entry, before their *)
(* declarations (C11 6.2.4p5).                                             *)
EnterBlock(ds) ==
  /\ Choose("block")
  /\ scopes' = Append(scopes, OpenScope(nextScope, ds))
  /\ nextScope' = nextScope + 1
  /\ stmts' = IF ds = {} THEN stmts ELSE Emit("live", ds)
  /\ frames' = Append(frames, Frame("block", ds))
  /\ fresh' = fresh \ ds
  /\ UNCHANGED <<code, term, targets, gotos, indirect>>

(* Mutant: the id of a scope left behind is given out again.               *)
ExitBlock_ReusesId ==
  /\ phase = "lower" /\ Len(frames) > 1
  /\ Last(frames).kind = "block" /\ Last(frames).todo = {}
  /\ stmts' = IF Last(scopes).locals = {} THEN stmts
              ELSE Emit("dead", Last(scopes).locals)
  /\ scopes' = Front(scopes) /\ nextScope' = nextScope - 1
  /\ frames' = Front(frames)
  /\ UNCHANGED <<code, term, targets, gotos, indirect, fresh, size, phase>>

(* exit_scope at the end of a HirStmt::Block: its locals die.              *)
ExitBlock ==
  /\ phase = "lower" /\ Len(frames) > 1
  /\ Last(frames).kind = "block" /\ Last(frames).todo = {}
  /\ stmts' = IF Last(scopes).locals = {} THEN stmts
              ELSE Emit("dead", Last(scopes).locals)
  /\ scopes' = Front(scopes)
  /\ frames' = Front(frames)
  /\ UNCHANGED <<code, term, nextScope, targets, gotos, indirect, fresh, size, phase>>

(* HirStmt::Decl: the initialiser, and a VLA's scope starts here.  In a    *)
(* block it was announced on entry; in a statement expression it was not.  *)
RecordVla(x) ==
  IF x \in Vlas THEN SetLast(scopes, [Last(scopes) EXCEPT !.vlas = @ \cup {x}])
  ELSE scopes

Decl(x) ==
  /\ phase = "lower"
  /\ \/ Last(frames).kind = "block" /\ x \in Last(frames).todo
     \/ Last(frames).kind = "expr" /\ x \in fresh
  /\ stmts' = Emit("decl", {x})
  /\ scopes' = RecordVla(x)
  /\ frames' = SetLast(frames, [Last(frames) EXCEPT !.todo = @ \ {x},
                                                  !.seen = @ \cup {x}])
  /\ fresh' = fresh \ {x}
  /\ UNCHANGED <<code, term, nextScope, targets, gotos, indirect, size, phase>>

(* HirStmt::Expr naming a local.                                           *)
Use(x) ==
  /\ Choose("use")
  /\ x \in Visible
  /\ stmts' = Emit("use", {x})
  /\ UNCHANGED <<code, term, scopes, nextScope, targets, gotos, indirect, frames, fresh>>

(* HirExprKind::StatementExpr lowers its statements in the scope around it.*)
EnterExpr ==
  /\ Choose("expr")
  /\ frames' = Append(frames, Frame("expr", {}))
  /\ UNCHANGED <<code, term, stmts, scopes, nextScope, targets, gotos, indirect, fresh>>

ExitExpr ==
  /\ phase = "lower" /\ Last(frames).kind = "expr"
  /\ frames' = Front(frames)
  /\ UNCHANGED <<code, term, stmts, scopes, nextScope, targets, gotos, indirect,
                 fresh, size, phase>>

(* Mutant: an empty body also counts as the start of a block.              *)
StartsBlock_Empty == stmts = << >>

StartsBlock == stmts = << >> /\ NumBlocks > 0

(* bind_label: a label starts a block, and never block 0: the entry block  *)
(* of a MIR body has no predecessor.  A second binding replaces the first. *)
BindLabel(l) ==
  /\ Choose("label")
  /\ IF StartsBlock
     THEN /\ targets' = [targets EXCEPT ![l] = [block |-> NumBlocks, scopes |-> scopes]]
          /\ UNCHANGED <<code, term, stmts>>
     ELSE /\ PushTerminator("goto", {NumBlocks + 1})
          /\ targets' = [targets EXCEPT ![l] = [block |-> NumBlocks + 1, scopes |-> scopes]]
  /\ UNCHANGED <<scopes, nextScope, gotos, indirect, frames, fresh>>

(* Mutant: the block is numbered after it was pushed.                      *)
Goto_LateIndex(l) ==
  /\ Choose("goto")
  /\ PushTerminator("goto", {Unpatched})
  /\ gotos' = Append(gotos, [block |-> NumBlocks + 1, label |-> l, scopes |-> scopes])
  /\ UNCHANGED <<scopes, nextScope, targets, indirect, frames, fresh>>

(* HirStmt::Goto: patched once every label of the body is bound.           *)
Goto(l) ==
  /\ Choose("goto")
  /\ PushTerminator("goto", {Unpatched})
  /\ gotos' = Append(gotos, [block |-> NumBlocks, label |-> l, scopes |-> scopes])
  /\ UNCHANGED <<scopes, nextScope, targets, indirect, frames, fresh>>

IndirectGoto ==
  /\ Choose("indirect")
  /\ PushTerminator("switch", {Unpatched})
  /\ indirect' = Append(indirect, [block |-> NumBlocks, scopes |-> scopes,
                                   resolved |-> {}, to |-> {}])
  /\ UNCHANGED <<scopes, nextScope, targets, gotos, frames, fresh>>

Return ==
  /\ Choose("return")
  /\ PushTerminator("return", {})
  /\ UNCHANGED <<scopes, nextScope, targets, gotos, indirect, frames, fresh>>

(* A call ends its block; one that never returns has no target, and what   *)
(* follows it lands in a block of its own.                                 *)
Call(diverges) ==
  /\ Choose("call")
  /\ PushTerminator("call", IF diverges THEN {} ELSE {NumBlocks + 1})
  /\ UNCHANGED <<scopes, nextScope, targets, gotos, indirect, frames, fresh>>

-----------------------------------------------------------------------------
(***************************************************************************)
(* lower_condition: the block ending in the branch, then the blocks of the *)
(* taken side, then those of the other side, each closed by a Goto to the  *)
(* join.  A constant condition branches one way, but both sides are        *)
(* lowered: a label in the other may be the target of a goto.              *)
(***************************************************************************)
EnterThen(cond) ==
  /\ Choose("if")
  /\ PushTerminator(IF cond = "runtime" THEN "switch" ELSE "goto", {Unpatched})
  /\ frames' = Append(frames, [Frame("then", {}) EXCEPT !.entry = NumBlocks,
                                 !.cond = cond, !.thenStart = NumBlocks + 1])
  /\ UNCHANGED <<scopes, nextScope, targets, gotos, indirect, fresh>>

EnterElse ==
  /\ phase = "lower" /\ Last(frames).kind = "then"
  /\ PushTerminator("goto", {Unpatched})
  /\ frames' = SetLast(frames, [Last(frames) EXCEPT !.kind = "else",
                                 !.thenExit = NumBlocks])
  /\ UNCHANGED <<scopes, nextScope, targets, gotos, indirect, fresh, size, phase>>

(* The else side starts after then_exit; its own last block is the newest. *)
Branches(f) ==
  LET elseStart == f.thenExit + 1
  IN CASE f.cond = "true"    -> {f.thenStart}
       [] f.cond = "false"   -> {elseStart}
       [] f.cond = "runtime" -> {f.thenStart, elseStart}

ExitIf ==
  /\ phase = "lower" /\ Last(frames).kind = "else"
  /\ LET f == Last(frames)
         join == NumBlocks + 1
         closed == Append(term, [kind |-> "goto", to |-> {join}])
     IN term' = Patched(Patched(closed, f.thenExit, {join}), f.entry, Branches(f))
  /\ code' = Append(code, stmts) /\ stmts' = << >>
  /\ frames' = Front(frames)
  /\ UNCHANGED <<scopes, nextScope, targets, gotos, indirect, fresh, size, phase>>

(* terminate_fallthrough: a last Return, then the gotos are patched.       *)
Finish ==
  /\ phase = "lower" /\ Len(frames) = 1 /\ Last(frames).todo = {}
  /\ PushTerminator("return", {})
  /\ phase' = "patch"
  /\ UNCHANGED <<scopes, nextScope, targets, gotos, indirect, frames, fresh, size>>

-----------------------------------------------------------------------------
(***************************************************************************)
(* patch_pending_gotos and scope_transition.                               *)
(***************************************************************************)
VlasOf(ss) == UNION { ss[i].vlas : i \in DOMAIN ss }
(* Scopes of from that are not in the common prefix with to.               *)
Beyond(from, to) ==
  { i \in DOMAIN from : \E j \in 1 .. i : j > Len(to) \/ from[j].id # to[j].id }
(* Mutant: any VLA in scope at the label forbids the jump.                 *)
EntersVla_Any(from, to) == VlasOf(to) # {}
(* Mutant: only the scopes the jump enters are searched for VLAs.          *)
EntersVla_Deeper(from, to) == \E i \in Beyond(to, from) : to[i].vlas # {}
EntersVla(from, to) == ~ VlasOf(to) \subseteq VlasOf(from)

LocalsAt(ss, I) == UNION { ss[i].locals : i \in I }

Move(op, xs) == IF xs = {} THEN << >> ELSE <<[op |-> op, on |-> xs]>>
(* Mutant: the scopes left keep their storage.                             *)
Storage_EnterOnly(from, to) == Move("live", LocalsAt(to, Beyond(to, from)))
(* Mutant: the scopes entered get no storage.                              *)
Storage_LeaveOnly(from, to) == Move("dead", LocalsAt(from, Beyond(from, to)))
Storage(from, to) ==
  Move("dead", LocalsAt(from, Beyond(from, to)))
    \o Move("live", LocalsAt(to, Beyond(to, from)))

(* The edge to label l from a jump in scopes from: a block with the        *)
(* storage statements in front of the label's, if there are any.           *)
Transit(from, l) ==
  IF Storage(from, targets[l].scopes) = << >>
  THEN [code |-> code, term |-> term, to |-> targets[l].block]
  ELSE [code |-> Append(code, Storage(from, targets[l].scopes)),
        term |-> Append(term, [kind |-> "goto", to |-> {targets[l].block}]),
        to   |-> NumBlocks]

Rejected(from, l) ==
  IF targets[l] = Unbound THEN "unresolved"
  ELSE IF EntersVla(from, targets[l].scopes) THEN "vla"
  ELSE "no"

(* terminate_with_error: a dummy body replaces the one being built.        *)
Fail(error) ==
  /\ phase' = error
  /\ code' = << << >> >>
  /\ term' = <<[kind |-> "return", to |-> {}]>>
  /\ UNCHANGED <<stmts, scopes, nextScope, targets, gotos, indirect, frames, fresh, size>>

PatchGoto ==
  /\ phase = "patch" /\ gotos # << >>
  /\ LET g == Head(gotos)
         t == Transit(g.scopes, g.label)
     IN IF Rejected(g.scopes, g.label) # "no"
        THEN Fail(Rejected(g.scopes, g.label))
        ELSE /\ code' = t.code
             /\ term' = Patched(t.term, g.block, {t.to})
             /\ gotos' = Tail(gotos)
             /\ UNCHANGED <<stmts, scopes, nextScope, targets, indirect, frames,
                            fresh, size, phase>>

(* patch_indirect_goto_targets: an edge to every named label of the body,  *)
(* in the order of a hash map.  A body that takes the address of a label   *)
(* it never binds is left out; a goto to such a label is refused before.   *)
Addressable == { l \in Named : targets[l] # Unbound }

PatchIndirectLabel(l) ==
  /\ phase = "patch" /\ gotos = << >> /\ indirect # << >>
  /\ l \in Addressable \ Head(indirect).resolved
  /\ LET g == Head(indirect)
         t == Transit(g.scopes, l)
     IN IF Rejected(g.scopes, l) # "no"
        THEN Fail(Rejected(g.scopes, l))
        ELSE /\ code' = t.code /\ term' = t.term
             /\ indirect' = <<[block |-> g.block, scopes |-> g.scopes,
                               resolved |-> g.resolved \cup {l}, to |-> g.to \cup {t.to}]>>
                              \o Tail(indirect)
             /\ UNCHANGED <<stmts, scopes, nextScope, targets, gotos, frames,
                            fresh, size, phase>>

PatchIndirect ==
  /\ phase = "patch" /\ gotos = << >> /\ indirect # << >>
  /\ LET g == Head(indirect)
     IN /\ g.resolved = Addressable
        /\ IF g.to = {} THEN Fail("noLabels")
           ELSE /\ term' = Patched(term, g.block, g.to)
                /\ indirect' = Tail(indirect)
                /\ UNCHANGED <<code, stmts, scopes, nextScope, targets, gotos,
                               frames, fresh, size, phase>>

Complete ==
  /\ phase = "patch" /\ gotos = << >> /\ indirect = << >>
  /\ phase' = "done"
  /\ UNCHANGED <<code, term, stmts, scopes, nextScope, targets, gotos, indirect,
                 frames, fresh, size>>

Lower ==
  \/ \E ds \in SUBSET fresh : EnterBlock(ds)
  \/ ExitBlock
  \/ \E x \in Locals : Decl(x) \/ Use(x)
  \/ EnterExpr \/ ExitExpr
  \/ \E l \in Labels : BindLabel(l)
  \/ \E l \in Labels : Goto(l)
  \/ IndirectGoto \/ Return
  \/ \E diverges \in BOOLEAN : Call(diverges)
  \/ \E cond \in Conditions : EnterThen(cond)
  \/ EnterElse \/ ExitIf \/ Finish

Patch ==
  \/ PatchGoto
  \/ \E l \in Labels : PatchIndirectLabel(l)
  \/ PatchIndirect \/ Complete

Next == Lower \/ Patch

Spec == Init /\ [][Next]_vars

-----------------------------------------------------------------------------
(* The calls of lower_stmt and lower_condition in progress.                *)
Frames == [kind : {"block", "then", "else", "expr"},
           todo : SUBSET Locals, seen : SUBSET Locals,
           entry : Nat \cup {Unpatched}, cond : {"true", "false", "runtime"},
           thenStart : Nat \cup {Unpatched}, thenExit : Nat \cup {Unpatched}]

(* The body handed to rustc jumps only to its own blocks, never to         *)
(* usize::MAX (basic_block.rs:41) and never to block 0, which MIR requires *)
(* to have no predecessor (the Goto bind_label puts before a first label). *)
JumpsLand ==
  phase = "done" =>
    \A b \in 1 .. NumBlocks : term[b].to \subseteq 1 .. NumBlocks - 1

(* Until then each block that jumps to usize::MAX is owed to exactly one   *)
(* pending goto, indirect goto or open If, of the kind that patcher can    *)
(* patch: patch_goto_target and its siblings panic on any other.           *)
PatchOf(b) ==
  { <<"goto", i>> : i \in { j \in DOMAIN gotos : gotos[j].block = b } }
  \cup { <<"indirect", i>> : i \in { j \in DOMAIN indirect : indirect[j].block = b } }
  \cup { <<"if", i>> : i \in { j \in DOMAIN frames :
                                 b \in {frames[j].entry, frames[j].thenExit} } }

Patchable(b, p) ==
  CASE p[1] = "goto"     -> term[b + 1].kind = "goto"
    [] p[1] = "indirect" -> term[b + 1].kind = "switch"
    [] p[1] = "if"       -> term[b + 1].kind =
         IF frames[p[2]].entry = b /\ frames[p[2]].cond = "runtime" THEN "switch" ELSE "goto"

EveryPatchOwed ==
  phase \in {"lower", "patch"} =>
    \A b \in 0 .. NumBlocks - 1 :
      IF Unpatched \in term[b + 1].to
      THEN \E p \in PatchOf(b) : PatchOf(b) = {p} /\ Patchable(b, p)
      ELSE PatchOf(b) = {}

(* Snapshots taken at different times agree on a scope they share: its     *)
(* locals and everything around it.  scope_transition relies on it when it *)
(* compares only ids and leaves the common prefix alone.                   *)
Snapshots ==
  {scopes} \cup { targets[l].scopes : l \in Labels }
    \cup { gotos[i].scopes : i \in DOMAIN gotos }
    \cup { indirect[i].scopes : i \in DOMAIN indirect }

SnapshotsAgree ==
  \A s, t \in Snapshots : \A i \in DOMAIN s, j \in DOMAIN t :
    s[i].id = t[j].id =>
      /\ i = j
      /\ \A k \in 1 .. i : s[k].id = t[k].id /\ s[k].locals = t[k].locals

=============================================================================
