------------------------------ MODULE PointsTo ------------------------------
(***************************************************************************)
(* The facts the move checker works on: `generate_facts` of                *)
(* src/co2_borrowck/src/facts.rs.  First `compute_points_to` finds, for    *)
(* the entry of every block, the locals each pointer local may point to;   *)
(* then the blocks are walked once more and every statement and terminator *)
(* emits the locals it reads, borrows, moves, writes through a pointer and *)
(* assigns.                                                                *)
(*                                                                         *)
(* A MIR place is a local and the shape of its projection list, as far as  *)
(* as_local, deref_pointer and is_direct_place tell the shapes apart:      *)
(*   plain   p            no projection                                    *)
(*   field   p.f          projections, none of them a Deref                *)
(*   deref   *p, p->f     a Deref, and it comes first                      *)
(*   nested  **p          a Deref first and another one later              *)
(*   inner   p.f->g       a Deref that does not come first                 *)
(* co2_mir does make the last two: place.rs:33-37 appends a Deref to        *)
(* whatever place the base lowers to.                                      *)
(***************************************************************************)
EXTENDS Integers, Sequences, FiniteSets, SequencesExt

CONSTANTS NumBlocks,  \* basic blocks of a body
          NumLocals,  \* locals of a body
          Pointers,   \* its locals of raw pointer or reference type
          Programs    \* the MIR bodies to analyse

INSTANCE MoveFacts WITH Bodies <- {}

ASSUME BodySizeAssumption == NumBlocks \in Nat \ {0} /\ NumLocals \in Nat \ {0}
ASSUME PointersAssumption == Pointers \subseteq Locals

Shapes == {"plain", "field", "deref", "nested", "inner"}
Place == [local : Locals, shape : Shapes]
Operand == [place : Place, move : BOOLEAN]

(* An assignment.  Its rvalue uses or casts an operand, takes an address,  *)
(* builds an aggregate (whose operands may move), or computes from operands;*)
(* a constant operand, which no fact depends on, is absent from the list.  *)
Rvalues == {"use", "ref", "aggregate", "compute"}
Statement == [dst : Place, kind : Rvalues, from : Seq(Operand)]

(* A terminator: the operands it reads and the places it assigns.          *)
Terminators == {"call", "switch", "asm", "goto", "return"}
Terminator == [kind : Terminators, from : Seq(Operand), dsts : Seq(Place)]

Program == [args : SUBSET (Locals \ {ReturnLocal}),
            needsDrop : SUBSET Locals,
            code : [Blocks -> Seq(Statement)],
            term : [Blocks -> Terminator],
            succ : [Blocks -> Seq(Blocks)]]

AsLocal(pl) == IF pl.shape = "plain" THEN {pl.local} ELSE {}
DerefPointer(pl) == IF pl.shape \in {"deref", "nested"} THEN {pl.local} ELSE {}
IsDirect(pl) == pl.shape \in {"plain", "field"}

(* A local holding a call's result is a fresh temporary (new_temp) nothing *)
(* else assigns, and the return place is assigned but never borrowed.      *)
ResultsAreTemporaries(f) ==
  \A b \in Blocks : \A d \in ToSet(f.term[b].dsts) :
    \A c \in Blocks : \A s \in ToSet(f.code[c]) :
      s.dst.local = d.local => d.local \notin Pointers
ReturnNotBorrowed(f) ==
  \A b \in Blocks : \A s \in ToSet(f.code[b]) :
    s.kind = "ref" => \A op \in ToSet(s.from) : op.place.local # ReturnLocal

MIR(f) ==
  /\ f \in Program
  /\ \A b \in Blocks : f.term[b].kind = "return" => f.succ[b] = << >>
  /\ ResultsAreTemporaries(f) /\ ReturnNotBorrowed(f)

ASSUME ProgramsAssumption == \A f \in Programs : MIR(f)

VARIABLES
  prog,      \* the body
  stage,     \* "pop", "walk" and "edges" of a block, "emit", then "facts"
  pending,   \* worklist of compute_points_to; the last block is popped
  ptEntry,   \* points-to state at the entry of every block
  block,     \* the block being processed
  next,      \* its next statement or, in "edges", its next successor
  pointsTo,  \* the points-to state before that statement
  facts      \* the events of the points of every block emitted so far

ptVars == <<prog, stage, pending, ptEntry, block, next, pointsTo, facts>>

NothingKnown == [v \in Locals |-> {}]

(* What the right-hand side of s may point to (apply_assign_points_to).     *)
NewTargets(pts, s) ==
  UNION { CASE s.kind = "use" -> UNION { pts[v] : v \in AsLocal(op.place) }
            [] s.kind = "ref" -> IF DerefPointer(op.place) = {} THEN {op.place.local}
                                 ELSE pts[op.place.local]
            [] OTHER          -> {}
          : op \in ToSet(s.from) }

(* Only a whole pointer local is tracked; a load loses its targets.        *)
AssignPointsTo(pts, s) ==
  IF AsLocal(s.dst) \cap Pointers = {} THEN pts
  ELSE [pts EXCEPT ![s.dst.local] = NewTargets(pts, s)]

-----------------------------------------------------------------------------
(* The locals the operands read and move, of those not behind a pointer.   *)
Read(ops) == { op.place.local : op \in { o \in ToSet(ops) : IsDirect(o.place) } }
Moved(ops) == { op.place.local : op \in { o \in ToSet(ops) : o.move /\ IsDirect(o.place) } }

StatementEvent(pts, s) ==
  [accessed |-> IF s.kind = "ref" THEN {} ELSE Read(s.from),
   borrowed |-> IF s.kind = "ref" THEN Read(s.from) ELSE {},
   moved    |-> IF s.kind \in {"use", "aggregate"} THEN Moved(s.from) ELSE {},
   written  |-> UNION { pts[v] : v \in DerefPointer(s.dst) },
   assigned |-> IF IsDirect(s.dst) THEN {s.dst.local} ELSE {}]

(* A pointer passed to a call lets the callee write whatever it points to. *)
Escaping(pts, ops) ==
  UNION { UNION { pts[v] : v \in AsLocal(op.place) } : op \in ToSet(ops) }

(* A Return reads the return place, the bodies being those of functions    *)
(* that return a value.                                                    *)
TerminatorEvent(pts, t) ==
  [accessed |-> IF t.kind = "return" THEN {ReturnLocal} ELSE Read(t.from),
   borrowed |-> {},
   moved    |-> IF t.kind = "call" THEN Moved(t.from) ELSE {},
   written  |-> IF t.kind = "call" THEN Escaping(pts, t.from) ELSE {},
   assigned |-> { d.local : d \in { d \in ToSet(t.dsts) : IsDirect(d) } }]

-----------------------------------------------------------------------------
(* The meaning of an assignment, against which the analysis is judged.     *)
(* The target of an assigned value.  An address taken through a pointer is *)
(* inside whatever that pointer points to; through any other path, or      *)
(* loaded from memory, it is one nobody follows.                           *)
Value(w, s) ==
  LET Comes(pl) == CASE <<s.kind, pl.shape>> \in {<<"ref", "plain">>, <<"ref", "field">>} -> {pl.local}
                     [] <<s.kind, pl.shape>> \in {<<"ref", "deref">>, <<"use", "plain">>} -> w[pl.local]
                     [] OTHER -> {}
  IN  UNION { Comes(op.place) : op \in ToSet(s.from) }

Assigned(w, s) ==
  IF s.dst.shape = "plain" /\ s.dst.local \in Pointers
  THEN [w EXCEPT ![s.dst.local] = Value(w, s)] ELSE w

-----------------------------------------------------------------------------
(* Mutant: only the entry block is seeded.                                  *)
Seed_EntryOnly == <<0>>
(* Every block is processed at least once, whatever its predecessors give. *)
Seed == [i \in 1 .. NumBlocks |-> i - 1]

FactsInit ==
  /\ prog \in Programs
  /\ stage = "pop" /\ pending = Seed
  /\ ptEntry = [b \in Blocks |-> NothingKnown]
  /\ block = 0 /\ next = 1
  /\ pointsTo = NothingKnown
  /\ facts = [b \in Blocks |-> << >>]

PopBlock ==
  /\ stage = "pop" /\ pending # << >>
  /\ block' = Last(pending) /\ pending' = Front(pending)
  /\ pointsTo' = ptEntry[Last(pending)]
  /\ stage' = "walk" /\ next' = 1
  /\ UNCHANGED <<prog, ptEntry, facts>>

Walk ==
  /\ stage = "walk" /\ next <= Len(prog.code[block])
  /\ pointsTo' = AssignPointsTo(pointsTo, prog.code[block][next])
  /\ next' = next + 1
  /\ UNCHANGED <<prog, stage, pending, ptEntry, block, facts>>

LeaveBlock ==
  /\ stage = "walk" /\ next > Len(prog.code[block])
  /\ stage' = "edges" /\ next' = 1
  /\ UNCHANGED <<prog, pending, ptEntry, block, pointsTo, facts>>

Merge(x, y) == [v \in Locals |-> x[v] \cup y[v]]

(* Mutant: the successor is pushed whether or not its entry changed.        *)
MergeEdge_Always ==
  /\ stage = "edges" /\ next <= Len(prog.succ[block])
  /\ LET t == prog.succ[block][next] IN
     /\ ptEntry' = [ptEntry EXCEPT ![t] = Merge(@, pointsTo)]
     /\ pending' = Append(pending, t)
  /\ next' = next + 1
  /\ UNCHANGED <<prog, stage, block, pointsTo, facts>>

MergeEdge ==
  /\ stage = "edges" /\ next <= Len(prog.succ[block])
  /\ LET t      == prog.succ[block][next]
         merged == Merge(ptEntry[t], pointsTo)
     IN  /\ ptEntry' = [ptEntry EXCEPT ![t] = merged]
         /\ pending' = IF merged # ptEntry[t] THEN Append(pending, t) ELSE pending
  /\ next' = next + 1
  /\ UNCHANGED <<prog, stage, block, pointsTo, facts>>

EndBlock ==
  /\ stage = "edges" /\ next > Len(prog.succ[block])
  /\ stage' = "pop"
  /\ UNCHANGED <<prog, pending, ptEntry, block, next, pointsTo, facts>>

-----------------------------------------------------------------------------
(* Every block is walked once more, in order, from its entry state.        *)
StartEmitting ==
  /\ stage = "pop" /\ pending = << >>
  /\ stage' = "emit" /\ block' = 0 /\ next' = 1
  /\ pointsTo' = ptEntry[0]
  /\ UNCHANGED <<prog, pending, ptEntry, facts>>

Emit(event) == facts' = [facts EXCEPT ![block] = Append(@, event)]

EmitStatement ==
  /\ stage = "emit" /\ next <= Len(prog.code[block])
  /\ Emit(StatementEvent(pointsTo, prog.code[block][next]))
  /\ pointsTo' = AssignPointsTo(pointsTo, prog.code[block][next])
  /\ next' = next + 1
  /\ UNCHANGED <<prog, stage, pending, ptEntry, block>>

(* Mutants: the state of a block is kept for the one after it; the last    *)
(* block is left out.                                                      *)
EmitTerminator_KeepsState ==
  /\ stage = "emit" /\ next > Len(prog.code[block])
  /\ Emit(TerminatorEvent(pointsTo, prog.term[block]))
  /\ IF block = NumBlocks - 1
     THEN stage' = "facts" /\ UNCHANGED <<block, next, pointsTo>>
     ELSE block' = block + 1 /\ next' = 1 /\ UNCHANGED <<stage, pointsTo>>
  /\ UNCHANGED <<prog, pending, ptEntry>>
EmitTerminator_StopsEarly ==
  /\ stage = "emit" /\ next > Len(prog.code[block])
  /\ Emit(TerminatorEvent(pointsTo, prog.term[block]))
  /\ IF block >= NumBlocks - 2
     THEN stage' = "facts" /\ UNCHANGED <<block, next, pointsTo>>
     ELSE block' = block + 1 /\ next' = 1 /\ pointsTo' = ptEntry[block + 1] /\ UNCHANGED stage
  /\ UNCHANGED <<prog, pending, ptEntry>>

(* The state a terminator leaves is dropped with its block, so emptying    *)
(* the call's destination (facts.rs:392-394) changes no fact.              *)
EmitTerminator ==
  /\ stage = "emit" /\ next > Len(prog.code[block])
  /\ Emit(TerminatorEvent(pointsTo, prog.term[block]))
  /\ IF block = NumBlocks - 1
     THEN stage' = "facts" /\ UNCHANGED <<block, next, pointsTo>>
     ELSE block' = block + 1 /\ next' = 1 /\ pointsTo' = ptEntry[block + 1] /\ UNCHANGED stage
  /\ UNCHANGED <<prog, pending, ptEntry>>

FactsNext ==
  \/ PopBlock \/ Walk \/ LeaveBlock \/ MergeEdge \/ EndBlock
  \/ StartEmitting \/ EmitStatement \/ EmitTerminator

FactsSpec == FactsInit /\ [][FactsNext]_ptVars /\ WF_ptVars(FactsNext)

(* The body the move checker is given (type Body of MoveFacts).            *)
CheckedBody ==
  [args |-> prog.args, needsDrop |-> prog.needsDrop, points |-> facts,
   succ |-> prog.succ,
   returns |-> { b \in Blocks : prog.term[b].kind = "return" }]

-----------------------------------------------------------------------------
PointsToState == [Locals -> SUBSET Locals]

(* Only pointer locals ever have targets, and the return place, which      *)
(* nothing borrows, is never a target: what MoveFacts assumes of bodies.   *)
FactsTypeOK ==
  /\ MIR(prog)
  /\ stage \in {"pop", "walk", "edges", "emit", "facts"}
  /\ pending \in Seq(Blocks)
  /\ block \in Blocks /\ next \in Nat \ {0}
  /\ \A pts \in {pointsTo} \cup { ptEntry[b] : b \in Blocks } :
       /\ pts \in PointsToState
       /\ \A v \in Locals : pts[v] # {} => v \in Pointers /\ ReturnLocal \notin pts[v]
  /\ stage = "facts" => WellFormed(CheckedBody) /\ ReturnNotWritten(CheckedBody)

(* compute_points_to ends (facts.rs:261-275), cycles in the graph included. *)
FactsTermination == <>(stage = "facts")
=============================================================================
