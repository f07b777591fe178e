--------------------------- MODULE PointsToProofs ---------------------------
(***************************************************************************)
(* Proofs about the facts of the move checker and about what they make of  *)
(* its diagnostics, for every MIR body: the types, the fixpoint of         *)
(* compute_points_to, the whole of check() on one body, and the targets    *)
(* against those of paths.                                                 *)
(***************************************************************************)
EXTENDS PointerMoves, PointsPaths, Inductions, TLAPS

-----------------------------------------------------------------------------
(* Lemmas about the operators.                                             *)

LEMMA SizesFact == 0 \in Blocks /\ Blocks \subseteq Nat /\ ReturnLocal \in Locals
BY BodySizeAssumption DEF Blocks, Locals, ReturnLocal

LEMMA Member == ASSUME NEW S, NEW s \in Seq(S), NEW e \in ToSet(s) PROVE e \in S
BY DEF ToSet

LEMMA OperandsIn ==
  ASSUME NEW ops \in Seq(Operand) PROVE \A op \in ToSet(ops) : op.place.local \in Locals
<1> SUFFICES ASSUME NEW op \in ToSet(ops) PROVE op.place.local \in Locals
  OBVIOUS
<1>1. op \in Operand
  BY Member
<1> QED BY <1>1 DEF Operand, Place

LEMMA PlacesIn ==
  ASSUME NEW places \in Seq(Place) PROVE \A d \in ToSet(places) : d.local \in Locals
<1> SUFFICES ASSUME NEW d \in ToSet(places) PROVE d.local \in Locals
  OBVIOUS
<1>1. d \in Place
  BY Member
<1> QED BY <1>1 DEF Place

LEMMA CodeType ==
  ASSUME NEW f, MIR(f), NEW b \in Blocks
  PROVE  /\ f.code[b] \in Seq(Statement) /\ Len(f.code[b]) \in Nat
         /\ f.term[b] \in Terminator
         /\ f.succ[b] \in Seq(Blocks) /\ Len(f.succ[b]) \in Nat
BY DEF MIR, Program

LEMMA StatementIn ==
  ASSUME NEW f, MIR(f), NEW b \in Blocks, NEW i \in 1 .. Len(f.code[b])
  PROVE  f.code[b][i] \in Statement /\ f.code[b][i] \in ToSet(f.code[b])
BY CodeType DEF ToSet

LEMMA EdgeIn ==
  ASSUME NEW f, MIR(f), NEW b \in Blocks, NEW i \in 1 .. Len(f.succ[b])
  PROVE  f.succ[b][i] \in Blocks
BY CodeType

(* What the analysis may hold: targets of pointers, never the return place. *)
Tracked(pts) == \A v \in Locals : pts[v] # {} => v \in Pointers /\ ReturnLocal \notin pts[v]

Targets == { pts \in PointsToState : Tracked(pts) }

LEMMA NothingTracked == NothingKnown \in Targets
BY DEF NothingKnown, Targets, PointsToState, Tracked

LEMMA MergeType == ASSUME NEW x \in Targets, NEW y \in Targets PROVE Merge(x, y) \in Targets
BY DEF Merge, Targets, PointsToState, Tracked

Borrows(s) == s.kind = "ref" => \A op \in ToSet(s.from) : op.place.local # ReturnLocal

LEMMA NewTargetsType ==
  ASSUME NEW pts \in Targets, NEW s \in Statement, Borrows(s)
  PROVE  NewTargets(pts, s) \subseteq Locals /\ ReturnLocal \notin NewTargets(pts, s)
<1> SUFFICES ASSUME NEW w \in NewTargets(pts, s) PROVE w \in Locals /\ w # ReturnLocal
  OBVIOUS
<1>1. PICK op \in ToSet(s.from) :
        w \in CASE s.kind = "use" -> UNION { pts[v] : v \in AsLocal(op.place) }
                [] s.kind = "ref" -> IF DerefPointer(op.place) = {} THEN {op.place.local}
                                     ELSE pts[op.place.local]
                [] OTHER          -> {}
  BY DEF NewTargets
<1>2. op \in Operand
  BY Member DEF Statement
<1>3. op.place.local \in Locals
  BY <1>2 DEF Operand, Place
<1>4. \A v \in Locals : pts[v] \subseteq Locals /\ ReturnLocal \notin pts[v]
  BY DEF Targets, PointsToState, Tracked
<1>5. CASE s.kind = "use"
  <2>1. PICK v \in AsLocal(op.place) : w \in pts[v]
    BY <1>1, <1>5
  <2> QED BY <1>3, <1>4, <2>1 DEF AsLocal
<1>6. CASE s.kind = "ref"
  <2>1. w \in IF DerefPointer(op.place) = {} THEN {op.place.local} ELSE pts[op.place.local]
    BY <1>1, <1>6
  <2>2. op.place.local # ReturnLocal
    BY <1>6 DEF Borrows
  <2> QED BY <1>3, <1>4, <2>1, <2>2
<1>7. s.kind \in {"use", "ref"}
  BY <1>1
<1> QED BY <1>5, <1>6, <1>7

LEMMA AssignType ==
  ASSUME NEW pts \in Targets, NEW s \in Statement, Borrows(s)
  PROVE  AssignPointsTo(pts, s) \in Targets
<1>1. CASE AsLocal(s.dst) \cap Pointers = {}
  BY <1>1 DEF AssignPointsTo
<1>2. CASE AsLocal(s.dst) \cap Pointers # {}
  <2>1. s.dst.local \in Pointers
    BY <1>2 DEF AsLocal
  <2>2. PICK new : new = NewTargets(pts, s)
    OBVIOUS
  <2>3. new \subseteq Locals /\ ReturnLocal \notin new
    BY <2>2, NewTargetsType
  <2>4. AssignPointsTo(pts, s) = [pts EXCEPT ![s.dst.local] = new]
    BY <1>2, <2>2 DEF AssignPointsTo
  <2> QED BY <2>1, <2>3, <2>4 DEF Targets, PointsToState, Tracked
<1> QED BY <1>1, <1>2

LEMMA ReadType ==
  ASSUME NEW ops \in Seq(Operand) PROVE Read(ops) \subseteq Locals /\ Moved(ops) \subseteq Locals
<1>1. \A o \in ToSet(ops) : o.place.local \in Locals
  BY OperandsIn
<1> QED BY <1>1 DEF Read, Moved

LEMMA StatementEventType ==
  ASSUME NEW pts \in Targets, NEW s \in Statement
  PROVE  StatementEvent(pts, s) \in Event /\ ReturnLocal \notin StatementEvent(pts, s).written
<1>1. s.from \in Seq(Operand) /\ s.dst.local \in Locals
  BY DEF Statement, Place
<1>2. Read(s.from) \subseteq Locals /\ Moved(s.from) \subseteq Locals
  BY <1>1, ReadType
<1>3. \A v \in Locals : pts[v] \subseteq Locals /\ ReturnLocal \notin pts[v]
  BY DEF Targets, PointsToState, Tracked
<1>4. PICK new : new = UNION { pts[v] : v \in DerefPointer(s.dst) }
  OBVIOUS
<1>5. new \subseteq Locals /\ ReturnLocal \notin new
  BY <1>1, <1>3, <1>4 DEF DerefPointer
<1> QED BY <1>1, <1>2, <1>4, <1>5 DEF StatementEvent, Event

LEMMA TerminatorEventType ==
  ASSUME NEW pts \in Targets, NEW t \in Terminator
  PROVE  TerminatorEvent(pts, t) \in Event /\ ReturnLocal \notin TerminatorEvent(pts, t).written
<1>1. t.from \in Seq(Operand) /\ t.dsts \in Seq(Place)
  BY DEF Terminator
<1>2. Read(t.from) \subseteq Locals /\ Moved(t.from) \subseteq Locals
  BY <1>1, ReadType
<1>3. \A v \in Locals : pts[v] \subseteq Locals /\ ReturnLocal \notin pts[v]
  BY DEF Targets, PointsToState, Tracked
<1>4. PICK out : out = Escaping(pts, t.from)
  OBVIOUS
<1>5. out \subseteq Locals /\ ReturnLocal \notin out
  <2> SUFFICES ASSUME NEW w \in out PROVE w \in Locals /\ w # ReturnLocal
    OBVIOUS
  <2>1. PICK op \in ToSet(t.from) : w \in UNION { pts[v] : v \in AsLocal(op.place) }
    BY <1>4 DEF Escaping
  <2>2. op.place.local \in Locals
    BY <1>1, OperandsIn
  <2> QED BY <1>3, <2>1, <2>2 DEF AsLocal
<1>6. PICK set : set = { d.local : d \in { d \in ToSet(t.dsts) : IsDirect(d) } }
  OBVIOUS
<1>7. set \subseteq Locals
  BY <1>1, <1>6, PlacesIn
<1> QED BY <1>2, <1>4, <1>5, <1>6, <1>7, SizesFact DEF TerminatorEvent, Event

-----------------------------------------------------------------------------
(***************************************************************************)
(* The types, with what the types of the emitted body rest on: how many    *)
(* points each block has been given so far.                                *)
(***************************************************************************)
Exit(b) == Len(prog.code[b]) + 1

Typed ==
  /\ MIR(prog)
  /\ stage \in {"pop", "walk", "edges", "emit", "facts"}
  /\ pending \in Seq(Blocks)
  /\ block \in Blocks /\ next \in Nat \ {0}
  /\ pointsTo \in Targets /\ ptEntry \in [Blocks -> Targets]
  /\ facts \in [Blocks -> Seq(Event)]
  /\ \A b \in Blocks : \A i \in 1 .. Len(facts[b]) : ReturnLocal \notin facts[b][i].written

Counted ==
  /\ stage \in {"pop", "walk", "edges"} => \A b \in Blocks : facts[b] = << >>
  /\ stage \in {"walk", "emit"} => next \in 1 .. Exit(block)
  /\ stage = "emit" =>
       \A b \in Blocks :
         Len(facts[b]) = IF b < block THEN Exit(b) ELSE IF b = block THEN next - 1 ELSE 0
  /\ stage = "facts" => \A b \in Blocks : Len(facts[b]) = Exit(b)

LEMMA ExitType == ASSUME MIR(prog), NEW b \in Blocks PROVE Exit(b) \in Nat /\ Exit(b) > 0
BY CodeType DEF Exit

LEMMA BorrowsAt ==
  ASSUME NEW f, MIR(f), NEW b \in Blocks, NEW i \in 1 .. Len(f.code[b])
  PROVE  f.code[b][i] \in Statement /\ Borrows(f.code[b][i])
<1>1. f.code[b][i] \in ToSet(f.code[b]) /\ f.code[b][i] \in Statement
  BY StatementIn
<1>2. ReturnNotBorrowed(f)
  BY DEF MIR
<1> QED BY <1>1, <1>2 DEF ReturnNotBorrowed, Borrows

LEMMA TypedInit == FactsInit => Typed /\ Counted
<1> SUFFICES ASSUME FactsInit PROVE Typed /\ Counted
  OBVIOUS
<1>1. MIR(prog)
  BY ProgramsAssumption DEF FactsInit
<1>2. Seed \in Seq(Blocks)
  <2>1. Seed \in [1 .. NumBlocks -> Blocks]
    BY BodySizeAssumption DEF Seed, Blocks
  <2> QED BY <2>1, BodySizeAssumption
<1>3. pointsTo \in Targets /\ ptEntry \in [Blocks -> Targets]
  BY NothingTracked DEF FactsInit
<1>4. facts \in [Blocks -> Seq(Event)] /\ \A b \in Blocks : facts[b] = << >>
  BY DEF FactsInit
<1>5. 0 \in Blocks
  BY SizesFact
<1> QED BY <1>1, <1>2, <1>3, <1>4, <1>5 DEF FactsInit, Typed, Counted

LEMMA PopTyped == ASSUME NEW s \in Seq(Blocks), s # << >>
  PROVE  Last(s) \in Blocks /\ Front(s) \in Seq(Blocks)
<1>1. Len(s) \in Nat /\ Len(s) > 0
  OBVIOUS
<1>2. s[Len(s)] \in Blocks
  BY <1>1
<1>3. SubSeq(s, 1, Len(s) - 1) \in Seq(Blocks)
  BY <1>1
<1> QED BY <1>2, <1>3 DEF Last, Front

(* One more event at the end of a block.                                   *)
LEMMA EmitTyped ==
  ASSUME Typed, NEW e \in Event, ReturnLocal \notin e.written, Emit(e)
  PROVE  /\ facts' \in [Blocks -> Seq(Event)]
         /\ \A b \in Blocks : facts'[b] = IF b = block THEN Append(facts[b], e) ELSE facts[b]
         /\ Len(facts'[block]) = Len(facts[block]) + 1
         /\ \A b \in Blocks : \A i \in 1 .. Len(facts'[b]) : ReturnLocal \notin facts'[b][i].written
<1>1. facts \in [Blocks -> Seq(Event)] /\ block \in Blocks
  BY DEF Typed
<1>2. facts' = [facts EXCEPT ![block] = Append(facts[block], e)]
  BY DEF Emit
<1>3. \A b \in Blocks : facts'[b] = IF b = block THEN Append(facts[b], e) ELSE facts[b]
  BY <1>1, <1>2
<1>4. ASSUME NEW b \in Blocks, NEW i \in 1 .. Len(facts'[b])
      PROVE  ReturnLocal \notin facts'[b][i].written
  <2> PICK old : old = facts[b]
    OBVIOUS
  <2>1. old \in Seq(Event) /\ Len(old) \in Nat
    BY <1>1
  <2>2. \A k \in 1 .. Len(old) : ReturnLocal \notin old[k].written
    BY DEF Typed
  <2>3. CASE b = block
    <3>1. facts'[b] = Append(old, e)
      BY <1>3, <2>3
    <3>2. Len(Append(old, e)) = Len(old) + 1 /\ Append(old, e)[Len(old) + 1] = e
      BY <2>1
    <3>3. \A k \in 1 .. Len(old) : Append(old, e)[k] = old[k]
      BY <2>1
    <3>4. i \in 1 .. Len(old) \/ i = Len(old) + 1
      BY <2>1, <3>1, <3>2
    <3> QED BY <2>2, <3>1, <3>2, <3>3, <3>4
  <2>4. CASE b # block
    BY <1>3, <2>2, <2>4
  <2> QED BY <2>3, <2>4
<1>5. facts' \in [Blocks -> Seq(Event)]
  BY <1>1, <1>2
<1>6. Len(facts'[block]) = Len(facts[block]) + 1
  <2>1. facts[block] \in Seq(Event) /\ facts'[block] = Append(facts[block], e)
    BY <1>1, <1>3
  <2> QED BY <2>1
<1> QED BY <1>3, <1>4, <1>5, <1>6

LEMMA TypedStep == Typed /\ Counted /\ [FactsNext]_ptVars => Typed' /\ Counted'
<1> SUFFICES ASSUME Typed, Counted, [FactsNext]_ptVars PROVE Typed' /\ Counted'
  OBVIOUS
<1>0. /\ prog' = prog /\ MIR(prog) /\ MIR(prog)'
      /\ \A b \in Blocks : Exit(b)' = Exit(b) /\ Exit(b) \in Nat /\ Exit(b) > 0
  <2>1. prog' = prog
    BY DEF FactsNext, ptVars, PopBlock, Walk, LeaveBlock, MergeEdge, EndBlock, StartEmitting,
           EmitStatement, EmitTerminator
  <2> QED BY <2>1, ExitType DEF Typed, Exit
<1>1. CASE PopBlock
  <2>1. Last(pending) \in Blocks /\ Front(pending) \in Seq(Blocks)
    BY <1>1, PopTyped DEF PopBlock, Typed
  <2>2. ptEntry[Last(pending)] \in Targets
    BY <2>1 DEF Typed
  <2> QED BY <1>0, <1>1, <2>1, <2>2 DEF PopBlock, Typed, Counted
<1>2. CASE Walk
  <2>1. next \in 1 .. Len(prog.code[block]) /\ block \in Blocks
    BY <1>2 DEF Walk, Typed
  <2>2. pointsTo' \in Targets
    BY <1>0, <1>2, <2>1, BorrowsAt, AssignType DEF Walk, Typed
  <2>3. next + 1 \in 1 .. Exit(block)
    BY <1>0, <2>1 DEF Exit
  <2> QED BY <1>0, <1>2, <2>2, <2>3 DEF Walk, Typed, Counted
<1>3. CASE LeaveBlock
  BY <1>0, <1>3 DEF LeaveBlock, Typed, Counted
<1>4. CASE MergeEdge
  <2>1. next \in 1 .. Len(prog.succ[block]) /\ block \in Blocks
    BY <1>4 DEF MergeEdge, Typed
  <2> PICK t : t = prog.succ[block][next]
    OBVIOUS
  <2>2. t \in Blocks
    BY <1>0, <2>1, EdgeIn
  <2>3. Merge(ptEntry[t], pointsTo) \in Targets
    BY <2>2, MergeType DEF Typed
  <2>4. ptEntry' \in [Blocks -> Targets]
    BY <1>4, <2>3 DEF MergeEdge, Typed
  <2>5. pending' \in Seq(Blocks)
    BY <1>4, <2>2 DEF MergeEdge, Typed
  <2> QED BY <1>0, <1>4, <2>4, <2>5 DEF MergeEdge, Typed, Counted
<1>5. CASE EndBlock
  BY <1>0, <1>5 DEF EndBlock, Typed, Counted
<1>6. CASE StartEmitting
  <2>1. 0 \in Blocks /\ ptEntry[0] \in Targets /\ 1 \in 1 .. Exit(0)
    BY <1>0, SizesFact DEF Typed
  <2>2. \A b \in Blocks : ~(b < 0) /\ Len(facts[b]) = 0
    BY <1>6, SizesFact DEF StartEmitting, Counted
  <2> QED BY <1>0, <1>6, <2>1, <2>2 DEF StartEmitting, Typed, Counted
<1>7. CASE EmitStatement
  <2>1. next \in 1 .. Len(prog.code[block]) /\ block \in Blocks
    BY <1>7 DEF EmitStatement, Typed
  <2> PICK s : s = prog.code[block][next]
    OBVIOUS
  <2>2. s \in Statement /\ Borrows(s)
    BY <1>0, <2>1, BorrowsAt
  <2>3. pointsTo' \in Targets
    BY <1>7, <2>2, AssignType DEF EmitStatement, Typed
  <2> PICK e : e = StatementEvent(pointsTo, s)
    OBVIOUS
  <2>4. e \in Event /\ ReturnLocal \notin e.written /\ Emit(e)
    BY <1>7, <2>2, StatementEventType DEF EmitStatement, Typed
  <2>5. /\ facts' \in [Blocks -> Seq(Event)]
        /\ \A b \in Blocks : \A i \in 1 .. Len(facts'[b]) : ReturnLocal \notin facts'[b][i].written
        /\ Len(facts'[block]) = Len(facts[block]) + 1
        /\ \A b \in Blocks : b # block => facts'[b] = facts[b]
    BY <2>4, EmitTyped
  <2>6. next + 1 \in 1 .. Exit(block)
    BY <1>0, <2>1 DEF Exit
  <2>7. \A b \in Blocks :
          Len(facts'[b]) = IF b < block THEN Exit(b) ELSE IF b = block THEN (next + 1) - 1 ELSE 0
    <3>1. \A b \in Blocks :
            Len(facts[b]) = IF b < block THEN Exit(b) ELSE IF b = block THEN next - 1 ELSE 0
      BY <1>7 DEF EmitStatement, Counted
    <3>2. Len(facts'[block]) = (next - 1) + 1
      BY <2>1, <2>5, <3>1, SizesFact
    <3> QED BY <2>1, <2>5, <3>1, <3>2, SizesFact
  <2>8. Typed'
    BY <1>0, <1>7, <2>3, <2>5 DEF EmitStatement, Typed
  <2>9. stage = "emit" /\ stage' = stage /\ block' = block /\ next' = next + 1
    BY <1>7 DEF EmitStatement
  <2> QED BY <1>0, <2>1, <2>6, <2>7, <2>8, <2>9 DEF Counted
<1>8. CASE EmitTerminator
  <2>1. next = Exit(block) /\ block \in Blocks /\ stage = "emit"
    BY <1>0, <1>8 DEF EmitTerminator, Typed, Counted, Exit
  <2> PICK e : e = TerminatorEvent(pointsTo, prog.term[block])
    OBVIOUS
  <2>2. prog.term[block] \in Terminator
    BY <1>0, <2>1, CodeType
  <2>3. e \in Event /\ ReturnLocal \notin e.written /\ Emit(e)
    BY <1>8, <2>2, TerminatorEventType DEF EmitTerminator, Typed
  <2>4. /\ facts' \in [Blocks -> Seq(Event)]
        /\ \A b \in Blocks : \A i \in 1 .. Len(facts'[b]) : ReturnLocal \notin facts'[b][i].written
        /\ Len(facts'[block]) = Len(facts[block]) + 1
        /\ \A b \in Blocks : b # block => facts'[b] = facts[b]
    BY <2>3, EmitTyped
  <2> DEFINE len(b) == IF b < block THEN Exit(b) ELSE IF b = block THEN next - 1 ELSE 0
  <2>5. /\ Len(facts'[block]) = Exit(block)
        /\ \A b \in Blocks : b # block => Len(facts'[b]) = len(b)
    <3>1. \A b \in Blocks : Len(facts[b]) = len(b)
      BY <2>1 DEF Counted
    <3>2. Len(facts[block]) = Exit(block) - 1
      BY <2>1, <3>1, SizesFact
    <3>3. Len(facts'[block]) = Exit(block)
      BY <1>0, <2>1, <2>4, <3>2
    <3>4. \A b \in Blocks : b # block => Len(facts'[b]) = len(b)
      BY <2>4, <3>1
    <3> QED BY <3>3, <3>4
  <2>6. CASE block = NumBlocks - 1
    <3>1. stage' = "facts" /\ UNCHANGED <<block, next, pointsTo, prog, pending, ptEntry>>
      BY <1>8, <2>6 DEF EmitTerminator
    <3>2. \A b \in Blocks : Len(facts'[b]) = Exit(b)
      BY <2>1, <2>5, <2>6, BodySizeAssumption DEF Blocks
    <3> QED BY <1>0, <2>4, <3>1, <3>2 DEF Typed, Counted
  <2>7. CASE block # NumBlocks - 1
    <3>1. /\ stage' = stage /\ block' = block + 1 /\ next' = 1 /\ pointsTo' = ptEntry[block + 1]
          /\ UNCHANGED <<prog, pending, ptEntry>>
      BY <1>8, <2>7 DEF EmitTerminator
    <3>2. block + 1 \in Blocks
      BY <2>1, <2>7, BodySizeAssumption DEF Blocks
    <3>3. ptEntry[block + 1] \in Targets
      BY <3>2 DEF Typed
    <3>4. \A b \in Blocks :
            Len(facts'[b]) = IF b < block + 1 THEN Exit(b) ELSE IF b = block + 1 THEN 1 - 1 ELSE 0
      BY <2>1, <2>5, BodySizeAssumption DEF Blocks
    <3>5. Typed'
      BY <1>0, <2>4, <3>1, <3>2, <3>3 DEF Typed
    <3>6. 1 \in 1 .. Exit(block + 1)
      BY <1>0, <3>2
    <3> QED BY <1>0, <2>1, <3>1, <3>2, <3>4, <3>5, <3>6 DEF Counted
  <2> QED BY <2>6, <2>7
<1>9. CASE UNCHANGED ptVars
  BY <1>0, <1>9 DEF ptVars, Typed, Counted
<1> QED BY <1>1, <1>2, <1>3, <1>4, <1>5, <1>6, <1>7, <1>8, <1>9 DEF FactsNext

LEMMA CheckedSound ==
  Typed /\ Counted /\ stage = "facts" => WellFormed(CheckedBody) /\ ReturnNotWritten(CheckedBody)
<1> SUFFICES ASSUME Typed, Counted, stage = "facts"
             PROVE  WellFormed(CheckedBody) /\ ReturnNotWritten(CheckedBody)
  OBVIOUS
<1>1. MIR(prog) /\ prog \in Program
  BY DEF Typed, MIR
<1>2. \A b \in Blocks : Len(facts[b]) > 0
  BY <1>1, ExitType DEF Counted
<1>3. CheckedBody \in Body
  BY <1>1 DEF Body, CheckedBody, Program, Typed
<1>4. \A b \in CheckedBody.returns : CheckedBody.succ[b] = << >>
  BY <1>1 DEF CheckedBody, MIR
<1>5. CheckedBody.points = facts
  BY DEF CheckedBody
<1>6. WellFormed(CheckedBody)
  BY <1>2, <1>3, <1>4, <1>5 DEF WellFormed
<1>7. ReturnNotWritten(CheckedBody)
  BY <1>5 DEF ReturnNotWritten, Typed
<1> QED BY <1>6, <1>7

(* A step of the whole is one of the facts or leaves them alone.           *)
LEMMA FactsStep == [MovesNext]_<<ptVars, runVars, checkVars>> => [FactsNext]_ptVars
BY DEF MovesNext, Facts, GenerateFacts, Analyze, Execute, ExecStatement, ExecTerminator, Jump

LEMMA TypedAlways == MovesSpec => [](Typed /\ Counted)
<1>1. MovesInit => Typed /\ Counted
  BY TypedInit DEF MovesInit, PtRunInit
<1> QED BY <1>1, FactsStep, TypedStep, PTL DEF MovesSpec

(* generate_facts stays inside the body, points no pointer at the return   *)
(* place, and hands the move checker a body of the kind it is written for: *)
(* a point for every statement and terminator.                             *)
THEOREM FactsTyped == MovesSpec => []FactsTypeOK
<1>1. Typed /\ Counted => FactsTypeOK
  <2> SUFFICES ASSUME Typed, Counted PROVE FactsTypeOK
    OBVIOUS
  <2>1. \A pts \in {pointsTo} \cup { ptEntry[b] : b \in Blocks } : pts \in Targets
    BY DEF Typed
  <2>2. \A pts \in {pointsTo} \cup { ptEntry[b] : b \in Blocks } :
          /\ pts \in PointsToState
          /\ \A v \in Locals : pts[v] # {} => v \in Pointers /\ ReturnLocal \notin pts[v]
    BY <2>1 DEF Targets, Tracked
  <2> QED BY <2>2, CheckedSound DEF FactsTypeOK, Typed
<1> QED BY <1>1, TypedAlways, PTL

-----------------------------------------------------------------------------
(***************************************************************************)
(* The fixpoint.  A track follows the points-to state through the          *)
(* statements of a block from the state s.  A block is closed when its     *)
(* track from its current entry flows into its successors.                 *)
(***************************************************************************)
Within(x, y) == \A v \in Locals : x[v] \subseteq y[v]

Track(b, s, n, tr) ==
  /\ tr \in [1 .. n -> PointsToState]
  /\ tr[1] = s
  /\ \A i \in 1 .. n - 1 : tr[i + 1] = AssignPointsTo(tr[i], prog.code[b][i])

FlowsInto(s, b, n) == \A k \in 1 .. n : Within(s, ptEntry[prog.succ[b][k]])

ClosedBlock(b) ==
  \E tr : Track(b, ptEntry[b], Exit(b), tr) /\ FlowsInto(tr[Exit(b)], b, Len(prog.succ[b]))

Waiting(b) == \E i \in 1 .. Len(pending) : pending[i] = b

BlockInHand ==
  /\ stage = "walk" => \E tr : Track(block, ptEntry[block], next, tr) /\ tr[next] = pointsTo
  /\ stage = "edges" =>
       \/ Waiting(block)
       \/ \E tr : /\ Track(block, ptEntry[block], Exit(block), tr) /\ tr[Exit(block)] = pointsTo
                  /\ FlowsInto(pointsTo, block, next - 1)

BlocksClosed ==
  \A b \in Blocks : Waiting(b) \/ ClosedBlock(b) \/ (b = block /\ stage \in {"walk", "edges"})

(* The event of a point, from the state before it.                         *)
EventAt(b, i, pts) ==
  IF i <= Len(prog.code[b]) THEN StatementEvent(pts, prog.code[b][i])
                            ELSE TerminatorEvent(pts, prog.term[b])

Emitted(b, n, m, tr) ==
  Track(b, ptEntry[b], n, tr) /\ \A i \in 1 .. m : facts[b][i] = EventAt(b, i, tr[i])

(* What has been emitted was computed from the states the worklist ended   *)
(* with, whatever block came before.                                       *)
FactsFollow ==
  /\ stage \in {"emit", "facts"} => pending = << >>
  /\ stage = "emit" =>
       /\ \E tr : Emitted(block, next, next - 1, tr) /\ tr[next] = pointsTo
       /\ \A b \in Blocks : b < block => \E tr : Emitted(b, Exit(b), Exit(b), tr)
  /\ stage = "facts" => \A b \in Blocks : \E tr : Emitted(b, Exit(b), Exit(b), tr)

FactsInv == Typed /\ Counted /\ BlockInHand /\ BlocksClosed /\ FactsFollow

LEMMA WithinTrans ==
  ASSUME NEW x, NEW y, NEW z, Within(x, y), Within(y, z) PROVE Within(x, z)
BY DEF Within

LEMMA MergeUpper == ASSUME NEW x, NEW y PROVE Within(x, Merge(x, y)) /\ Within(y, Merge(x, y))
BY DEF Within, Merge

LEMMA TrackStart ==
  ASSUME NEW b, NEW s \in Targets PROVE Track(b, s, 1, [k \in 1 .. 1 |-> s])
BY DEF Track, Targets

(* One more statement continues a track.                                   *)
Continues(b, s, n, tr, x) ==
  /\ Track(b, s, n + 1, x)
  /\ x[n + 1] = AssignPointsTo(tr[n], prog.code[b][n])
  /\ \A k \in 1 .. n : x[k] = tr[k]

LEMMA TrackStep ==
  ASSUME NEW b, NEW s, NEW n \in Nat \ {0}, NEW tr, Track(b, s, n, tr),
         AssignPointsTo(tr[n], prog.code[b][n]) \in Targets
  PROVE  \E x : Continues(b, s, n, tr, x)
<1> DEFINE last == AssignPointsTo(tr[n], prog.code[b][n])
           x == [k \in 1 .. n + 1 |-> IF k = n + 1 THEN last ELSE tr[k]]
<1>1. last \in PointsToState
  BY DEF Targets
<1> HIDE DEF last
<1>2. x \in [1 .. n + 1 -> PointsToState]
  BY <1>1 DEF Track
<1>3. x[n + 1] = last /\ \A k \in 1 .. n : x[k] = tr[k]
  OBVIOUS
<1>4. \A i \in 1 .. n : x[i + 1] = AssignPointsTo(x[i], prog.code[b][i])
  <2> SUFFICES ASSUME NEW i \in 1 .. n PROVE x[i + 1] = AssignPointsTo(x[i], prog.code[b][i])
    OBVIOUS
  <2>1. CASE i = n
    BY <1>3, <2>1 DEF last
  <2>2. CASE i # n
    <3>1. i \in 1 .. n - 1 /\ i + 1 \in 1 .. n
      BY <2>2
    <3> QED BY <1>3, <3>1 DEF Track
  <2> QED BY <2>1, <2>2
<1>5. x[1] = s
  BY <1>3 DEF Track
<1>6. (n + 1) - 1 = n
  OBVIOUS
<1>7. Track(b, s, n + 1, x)
  BY <1>2, <1>4, <1>5, <1>6 DEF Track
<1>8. Continues(b, s, n, tr, x)
  BY <1>3, <1>7 DEF Continues, last
<1> QED BY <1>8

LEMMA FactsInvInit == FactsInit => FactsInv
<1> SUFFICES ASSUME FactsInit PROVE FactsInv
  OBVIOUS
<1>1. Typed /\ Counted
  BY TypedInit
<1>2. BlocksClosed
  <2> SUFFICES ASSUME NEW b \in Blocks PROVE Waiting(b)
    BY DEF BlocksClosed
  <2>1. b + 1 \in 1 .. NumBlocks
    BY BodySizeAssumption DEF Blocks
  <2>2. Len(Seed) = NumBlocks /\ Seed[b + 1] = (b + 1) - 1
    BY <2>1, BodySizeAssumption DEF Seed
  <2>3. (b + 1) - 1 = b
    BY SizesFact
  <2> QED BY <2>1, <2>2, <2>3 DEF FactsInit, Waiting
<1> QED BY <1>1, <1>2 DEF FactsInit, FactsInv, BlockInHand, FactsFollow

(* Entries that only grow keep a closed block whose own entry stays.       *)
LEMMA FlowsIntoKept ==
  ASSUME Typed, prog' = prog, \A t \in Blocks : Within(ptEntry[t], ptEntry'[t]),
         NEW b \in Blocks, NEW s, NEW n \in 0 .. Len(prog.succ[b]), FlowsInto(s, b, n)
  PROVE  FlowsInto(s, b, n)'
<1> SUFFICES ASSUME NEW k \in 1 .. n PROVE Within(s, ptEntry'[prog.succ[b][k]])
  BY DEF FlowsInto
<1>1. k \in 1 .. Len(prog.succ[b])
  BY CodeType DEF Typed
<1>2. prog.succ[b][k] \in Blocks
  BY <1>1, EdgeIn DEF Typed
<1>3. Within(s, ptEntry[prog.succ[b][k]])
  BY DEF FlowsInto
<1> QED BY <1>2, <1>3, WithinTrans

LEMMA ClosedBlockKept ==
  ASSUME Typed, prog' = prog, \A t \in Blocks : Within(ptEntry[t], ptEntry'[t]),
         NEW b \in Blocks, ptEntry'[b] = ptEntry[b], ClosedBlock(b)
  PROVE  ClosedBlock(b)'
<1>1. PICK tr : Track(b, ptEntry[b], Exit(b), tr) /\ FlowsInto(tr[Exit(b)], b, Len(prog.succ[b]))
  BY DEF ClosedBlock
<1>2. PICK n, m : n = Exit(b) /\ m = Len(prog.succ[b])
  OBVIOUS
<1>3. n = Exit(b)' /\ m = Len(prog'.succ[b])
  BY <1>2 DEF Exit
<1>4. m \in 0 .. Len(prog.succ[b])
  BY <1>2, CodeType DEF Typed
<1>5. Track(b, ptEntry[b], n, tr)'
  BY <1>1, <1>2 DEF Track
<1>6. FlowsInto(tr[n], b, m)'
  BY <1>1, <1>2, <1>4, FlowsIntoKept
<1> QED BY <1>3, <1>5, <1>6 DEF ClosedBlock

LEMMA PopBlockStep == FactsInv /\ PopBlock => FactsInv'
<1> SUFFICES ASSUME FactsInv, PopBlock PROVE FactsInv'
  OBVIOUS
<1> USE DEF FactsInv
<1>1. Typed' /\ Counted'
  BY TypedStep DEF FactsNext
<1>2. /\ prog' = prog /\ ptEntry' = ptEntry /\ stage = "pop" /\ stage' = "walk" /\ next' = 1
      /\ pointsTo' = ptEntry[block'] /\ pending' = Front(pending)
      /\ pending # << >> /\ block' = Last(pending)
  BY DEF PopBlock
<1>3. pending \in Seq(Blocks)
  BY DEF Typed
<1>4. block' \in Blocks
  BY <1>2, <1>3, PopTyped
<1>5. BlocksClosed'
  <2> SUFFICES ASSUME NEW b \in Blocks, b # block' PROVE Waiting(b)' \/ ClosedBlock(b)'
    BY <1>2 DEF BlocksClosed
  <2>1. CASE ClosedBlock(b)
    BY <1>2, <2>1, ClosedBlockKept DEF Within
  <2>2. CASE Waiting(b)
    <3>1. PICK i \in 1 .. Len(pending) : pending[i] = b
      BY <2>2 DEF Waiting
    <3>2. Len(pending) \in Nat /\ pending[Len(pending)] = block'
      BY <1>2, <1>3 DEF Last
    <3>3. i \in 1 .. Len(pending) - 1
      BY <3>1, <3>2
    <3>4. Len(pending') = Len(pending) - 1 /\ pending'[i] = b
      BY <1>2, <1>3, <3>1, <3>2, <3>3 DEF Front
    <3> QED BY <3>3, <3>4 DEF Waiting
  <2> QED BY <1>2, <2>1, <2>2 DEF BlocksClosed
<1>6. BlockInHand'
  <2>1. PICK c, s, tr : c = block' /\ s = pointsTo' /\ tr = [k \in 1 .. 1 |-> s]
    OBVIOUS
  <2>2. s = ptEntry[c] /\ s \in Targets
    BY <1>2, <1>4, <2>1 DEF Typed
  <2>3. Track(c, ptEntry[c], 1, tr)'
    BY <1>2, <2>1, <2>2, TrackStart DEF Track
  <2>4. tr[1] = s
    BY <2>1
  <2> QED BY <1>2, <2>1, <2>3, <2>4 DEF BlockInHand
<1>7. FactsFollow'
  BY <1>2 DEF FactsFollow
<1> QED BY <1>1, <1>5, <1>6, <1>7

LEMMA WalkStep == FactsInv /\ Walk => FactsInv'
<1> SUFFICES ASSUME FactsInv, Walk PROVE FactsInv'
  OBVIOUS
<1> USE DEF FactsInv
<1>1. Typed' /\ Counted'
  BY TypedStep DEF FactsNext
<1>2. /\ prog' = prog /\ ptEntry' = ptEntry /\ pending' = pending /\ block' = block
      /\ stage = "walk" /\ stage' = "walk" /\ next' = next + 1
      /\ pointsTo' = AssignPointsTo(pointsTo, prog.code[block][next])
  BY DEF Walk
<1>3. BlocksClosed'
  <2> SUFFICES ASSUME NEW b \in Blocks, b # block PROVE Waiting(b)' \/ ClosedBlock(b)'
    BY <1>2 DEF BlocksClosed
  <2>1. CASE ClosedBlock(b)
    BY <1>2, <2>1, ClosedBlockKept DEF Within
  <2>2. CASE Waiting(b)
    BY <1>2, <2>2 DEF Waiting
  <2> QED BY <1>2, <2>1, <2>2 DEF BlocksClosed
<1>4. BlockInHand'
  <2>1. PICK tr : Track(block, ptEntry[block], next, tr) /\ tr[next] = pointsTo
    BY <1>2 DEF BlockInHand
  <2>2. PICK c, n, s : c = block /\ n = next /\ s = ptEntry[c]
    OBVIOUS
  <2>3. n \in Nat \ {0} /\ Track(c, s, n, tr) /\ AssignPointsTo(tr[n], prog.code[c][n]) \in Targets
    BY <1>1, <1>2, <2>1, <2>2 DEF Typed
  <2>4. PICK x : Continues(c, s, n, tr, x)
    BY <2>3, TrackStep
  <2>5. Track(c, s, n + 1, x) /\ x[n + 1] = pointsTo'
    BY <1>2, <2>1, <2>2, <2>4 DEF Continues
  <2>6. Track(c, ptEntry[c], n + 1, x)'
    BY <1>2, <2>2, <2>5 DEF Track
  <2> QED BY <1>2, <2>2, <2>5, <2>6 DEF BlockInHand
<1>5. FactsFollow'
  BY <1>2 DEF FactsFollow
<1> QED BY <1>1, <1>3, <1>4, <1>5

LEMMA LeaveBlockStep == FactsInv /\ LeaveBlock => FactsInv'
<1> SUFFICES ASSUME FactsInv, LeaveBlock PROVE FactsInv'
  OBVIOUS
<1> USE DEF FactsInv
<1>1. Typed' /\ Counted'
  BY TypedStep DEF FactsNext
<1>2. /\ prog' = prog /\ ptEntry' = ptEntry /\ pending' = pending /\ block' = block
      /\ stage = "walk" /\ stage' = "edges" /\ next' = 1 /\ pointsTo' = pointsTo
      /\ next > Len(prog.code[block])
  BY DEF LeaveBlock
<1>3. BlocksClosed'
  <2> SUFFICES ASSUME NEW b \in Blocks, b # block PROVE Waiting(b)' \/ ClosedBlock(b)'
    BY <1>2 DEF BlocksClosed
  <2>1. CASE ClosedBlock(b)
    BY <1>2, <2>1, ClosedBlockKept DEF Within
  <2>2. CASE Waiting(b)
    BY <1>2, <2>2 DEF Waiting
  <2> QED BY <1>2, <2>1, <2>2 DEF BlocksClosed
<1>4. BlockInHand'
  <2>1. PICK tr : Track(block, ptEntry[block], next, tr) /\ tr[next] = pointsTo
    BY <1>2 DEF BlockInHand
  <2>2. next = Exit(block)
    <3>1. block \in Blocks /\ MIR(prog) /\ next \in 1 .. Exit(block)
      BY <1>2 DEF Counted, Typed
    <3>2. Len(prog.code[block]) \in Nat
      BY <3>1, CodeType
    <3> QED BY <1>2, <3>1, <3>2 DEF Exit
  <2>3. PICK c, n, s : c = block /\ n = next /\ s = ptEntry[c]
    OBVIOUS
  <2>4. Track(c, ptEntry[c], n, tr)'
    BY <1>2, <2>1, <2>3 DEF Track
  <2>5. n = Exit(c)'
    BY <1>2, <2>2, <2>3 DEF Exit
  <2>6. FlowsInto(pointsTo, c, 0)'
    BY DEF FlowsInto
  <2> QED BY <1>2, <2>1, <2>3, <2>4, <2>5, <2>6 DEF BlockInHand
<1>5. FactsFollow'
  BY <1>2 DEF FactsFollow
<1> QED BY <1>1, <1>3, <1>4, <1>5

LEMMA MergeEdgeStep == FactsInv /\ MergeEdge => FactsInv'
<1> SUFFICES ASSUME FactsInv, MergeEdge PROVE FactsInv'
  OBVIOUS
<1> USE DEF FactsInv
<1>1. Typed' /\ Counted'
  BY TypedStep DEF FactsNext
<1> PICK t, merged : t = prog.succ[block][next] /\ merged = Merge(ptEntry[t], pointsTo)
  OBVIOUS
<1>2. /\ prog' = prog /\ block' = block /\ pointsTo' = pointsTo
      /\ stage = "edges" /\ stage' = "edges" /\ next' = next + 1
      /\ ptEntry' = [ptEntry EXCEPT ![t] = merged]
      /\ pending' = IF merged # ptEntry[t] THEN Append(pending, t) ELSE pending
  BY DEF MergeEdge
<1>3. block \in Blocks /\ next \in 1 .. Len(prog.succ[block]) /\ MIR(prog) /\ pending \in Seq(Blocks)
  BY DEF MergeEdge, Typed
<1>4. t \in Blocks
  BY <1>3, EdgeIn
<1>5. /\ ptEntry'[t] = merged
      /\ \A b \in Blocks : b # t => ptEntry'[b] = ptEntry[b]
  BY <1>2, <1>4 DEF Typed
<1>6. Within(ptEntry[t], merged) /\ Within(pointsTo, merged)
  BY MergeUpper
<1>7. \A b \in Blocks : Within(ptEntry[b], ptEntry'[b])
  BY <1>5, <1>6 DEF Within
<1>8. \A b : Waiting(b) => Waiting(b)'
  <2> SUFFICES ASSUME NEW b, Waiting(b) PROVE Waiting(b)'
    OBVIOUS
  <2>1. PICK i \in 1 .. Len(pending) : pending[i] = b
    BY DEF Waiting
  <2>2. i \in 1 .. Len(pending') /\ pending'[i] = b
    BY <1>2, <1>3, <1>4, <2>1
  <2> QED BY <2>2 DEF Waiting
<1>9. ptEntry'[t] = ptEntry[t] \/ Waiting(t)'
  <2>1. CASE merged # ptEntry[t]
    <3>1. pending' = Append(pending, t)
      BY <1>2, <2>1
    <3>2. Len(pending) \in Nat /\ Len(pending') = Len(pending) + 1 /\ pending'[Len(pending) + 1] = t
      BY <1>3, <1>4, <3>1
    <3>3. Len(pending) + 1 \in 1 .. Len(pending')
      BY <3>2
    <3> QED BY <3>2, <3>3 DEF Waiting
  <2> QED BY <1>5, <2>1
<1>10. \A b \in Blocks : ptEntry'[b] = ptEntry[b] \/ Waiting(b)'
  BY <1>5, <1>9
<1>11. BlocksClosed'
  <2> SUFFICES ASSUME NEW b \in Blocks, b # block, ptEntry'[b] = ptEntry[b]
               PROVE  Waiting(b)' \/ ClosedBlock(b)'
    BY <1>2, <1>10 DEF BlocksClosed
  <2>1. CASE ClosedBlock(b)
    BY <1>2, <1>7, <2>1, ClosedBlockKept
  <2>2. CASE Waiting(b)
    BY <1>8, <2>2
  <2> QED BY <1>2, <2>1, <2>2 DEF BlocksClosed
<1>12. BlockInHand'
  <2> SUFFICES ASSUME ~Waiting(block)', ptEntry'[block] = ptEntry[block]
               PROVE  \E tr : /\ Track(block, ptEntry[block], Exit(block), tr)'
                              /\ tr[Exit(block)'] = pointsTo'
                              /\ FlowsInto(pointsTo, block, next - 1)'
    BY <1>2, <1>3, <1>10 DEF BlockInHand
  <2>1. PICK tr : /\ Track(block, ptEntry[block], Exit(block), tr) /\ tr[Exit(block)] = pointsTo
                  /\ FlowsInto(pointsTo, block, next - 1)
    BY <1>2, <1>8 DEF BlockInHand
  <2>2. PICK c, n, k, s : c = block /\ n = Exit(block) /\ k = next /\ s = pointsTo
    OBVIOUS
  <2>3. n = Exit(c)'
    BY <1>2, <2>2 DEF Exit
  <2>4. Track(c, ptEntry[c], n, tr)'
    BY <1>2, <2>1, <2>2 DEF Track
  <2>5. k - 1 \in 0 .. Len(prog.succ[c]) /\ c \in Blocks
    BY <1>3, <2>2, CodeType
  <2>6. FlowsInto(s, c, k - 1)'
    BY <1>2, <1>7, <2>1, <2>2, <2>5, FlowsIntoKept
  <2>7. Within(s, ptEntry'[prog'.succ[c][k]])
    BY <1>2, <1>5, <1>6, <2>2
  <2>8. FlowsInto(s, c, k)'
    <3> SUFFICES ASSUME NEW j \in 1 .. k PROVE Within(s, ptEntry'[prog'.succ[c][j]])
      BY DEF FlowsInto
    <3>1. j \in 1 .. k - 1 \/ j = k
      BY <1>3, <2>2
    <3> QED BY <2>6, <2>7, <3>1 DEF FlowsInto
  <2>9. next' - 1 = k
    BY <1>2, <1>3, <2>2
  <2> QED BY <1>2, <2>1, <2>2, <2>3, <2>4, <2>8, <2>9
<1>13. FactsFollow'
  BY <1>2 DEF FactsFollow
<1> QED BY <1>1, <1>11, <1>12, <1>13

LEMMA EndBlockStep == FactsInv /\ EndBlock => FactsInv'
<1> SUFFICES ASSUME FactsInv, EndBlock PROVE FactsInv'
  OBVIOUS
<1> USE DEF FactsInv
<1>1. Typed' /\ Counted'
  BY TypedStep DEF FactsNext
<1>2. /\ prog' = prog /\ ptEntry' = ptEntry /\ pending' = pending /\ block' = block
      /\ stage = "edges" /\ stage' = "pop" /\ next > Len(prog.succ[block])
  BY DEF EndBlock
<1>3. block \in Blocks /\ MIR(prog) /\ next \in Nat
  BY DEF Typed
<1>4. Waiting(block) \/ ClosedBlock(block)
  <2> SUFFICES ASSUME ~Waiting(block) PROVE ClosedBlock(block)
    OBVIOUS
  <2>1. PICK tr : /\ Track(block, ptEntry[block], Exit(block), tr) /\ tr[Exit(block)] = pointsTo
                  /\ FlowsInto(pointsTo, block, next - 1)
    BY <1>2 DEF BlockInHand
  <2>2. Len(prog.succ[block]) \in Nat
    BY <1>3, CodeType
  <2>3. 1 .. Len(prog.succ[block]) \subseteq 1 .. next - 1
    BY <1>2, <1>3, <2>2
  <2>4. FlowsInto(pointsTo, block, Len(prog.succ[block]))
    BY <2>1, <2>3 DEF FlowsInto
  <2> QED BY <2>1, <2>4 DEF ClosedBlock
<1>5. BlocksClosed'
  <2> SUFFICES ASSUME NEW b \in Blocks PROVE Waiting(b)' \/ ClosedBlock(b)'
    BY DEF BlocksClosed
  <2>1. Waiting(b) \/ ClosedBlock(b)
    BY <1>4 DEF BlocksClosed
  <2>2. CASE ClosedBlock(b)
    BY <1>2, <2>2, ClosedBlockKept DEF Within
  <2>3. CASE Waiting(b)
    BY <1>2, <2>3 DEF Waiting
  <2> QED BY <2>1, <2>2, <2>3
<1>6. BlockInHand' /\ FactsFollow'
  BY <1>2 DEF BlockInHand, FactsFollow
<1> QED BY <1>1, <1>5, <1>6

(* Once the worklist is empty every block is closed, and stays so.         *)
LEMMA ClosedAtEnd ==
  ASSUME FactsInv, pending = << >>, stage \notin {"walk", "edges"}, NEW b \in Blocks
  PROVE  ClosedBlock(b)
<1>1. ~Waiting(b)
  BY DEF Waiting
<1> QED BY <1>1 DEF FactsInv, BlocksClosed

LEMMA ClosedStays ==
  ASSUME FactsInv, pending = << >>, stage \notin {"walk", "edges"},
         prog' = prog, ptEntry' = ptEntry
  PROVE  BlocksClosed'
<1> SUFFICES ASSUME NEW b \in Blocks PROVE ClosedBlock(b)'
  BY DEF BlocksClosed
<1>1. ClosedBlock(b)
  BY ClosedAtEnd
<1> QED BY <1>1, ClosedBlockKept DEF FactsInv, Within

LEMMA StartEmittingStep == FactsInv /\ StartEmitting => FactsInv'
<1> SUFFICES ASSUME FactsInv, StartEmitting PROVE FactsInv'
  OBVIOUS
<1>1. Typed' /\ Counted'
  BY TypedStep DEF FactsNext, FactsInv
<1>2. /\ prog' = prog /\ ptEntry' = ptEntry /\ pending' = << >> /\ pending = << >>
      /\ stage = "pop" /\ stage' = "emit" /\ block' = 0 /\ next' = 1 /\ pointsTo' = ptEntry[0]
  BY DEF StartEmitting
<1>3. BlocksClosed'
  BY <1>2, ClosedStays
<1>4. FactsFollow'
  <2>1. PICK n, s, tr : n = next' /\ s = ptEntry[0] /\ tr = [k \in 1 .. 1 |-> s]
    OBVIOUS
  <2>2. s \in Targets
    BY <2>1, SizesFact DEF FactsInv, Typed
  <2>3. Track(0, ptEntry[0], 1, tr)' /\ tr[1] = s
    BY <1>2, <2>1, <2>2, TrackStart DEF Track
  <2>4. Emitted(0, 1, 1 - 1, tr)'
    BY <2>3 DEF Emitted
  <2>5. \A b \in Blocks : ~(b < 0)
    BY SizesFact
  <2> QED BY <1>2, <2>1, <2>3, <2>4, <2>5 DEF FactsFollow
<1>5. BlockInHand'
  BY <1>2 DEF BlockInHand
<1> QED BY <1>1, <1>3, <1>4, <1>5 DEF FactsInv

(* The event just emitted is the one the track calls for.                  *)
LEMMA EmitFollows ==
  ASSUME FactsInv, stage = "emit", NEW e \in Event, ReturnLocal \notin e.written, Emit(e),
         e = EventAt(block, next, pointsTo), prog' = prog, ptEntry' = ptEntry,
         NEW c, NEW n, c = block, n = next
  PROVE  /\ \E tr : Emitted(c, n, n, tr)' /\ tr[n] = pointsTo
         /\ \A b \in Blocks : b < block => \E tr : Emitted(b, Exit(b), Exit(b), tr)'
<1>1. /\ \A b \in Blocks : facts'[b] = IF b = block THEN Append(facts[b], e) ELSE facts[b]
      /\ Len(facts'[block]) = Len(facts[block]) + 1
  BY EmitTyped DEF FactsInv
<1>2. /\ block \in Blocks /\ block \in Nat /\ next \in Nat \ {0}
      /\ facts[block] \in Seq(Event) /\ Len(facts[block]) = next - 1
  BY SizesFact DEF FactsInv, Typed, Counted
<1>3. PICK tr : Emitted(block, next, next - 1, tr) /\ tr[next] = pointsTo
  BY DEF FactsInv, FactsFollow
<1>4. c = block /\ n = next
  OBVIOUS
<1>5. Track(c, ptEntry[c], n, tr)'
  BY <1>3, <1>4 DEF Emitted, Track
<1>6. ASSUME NEW i \in 1 .. n PROVE facts'[c][i] = EventAt(c, i, tr[i])
  <2> PICK old : old = facts[block]
    OBVIOUS
  <2>1. old \in Seq(Event) /\ Len(old) = n - 1 /\ facts'[c] = Append(old, e)
    BY <1>1, <1>2, <1>4
  <2>2. CASE i = n
    BY <1>2, <1>3, <1>4, <2>1, <2>2
  <2>3. CASE i # n
    <3>1. i \in 1 .. n - 1
      BY <1>2, <1>4, <2>3
    <3>2. facts'[c][i] = old[i]
      BY <2>1, <3>1
    <3> QED BY <1>3, <1>4, <3>1, <3>2 DEF Emitted
  <2> QED BY <2>2, <2>3
<1>7. Emitted(c, n, n, tr)'
  BY <1>5, <1>6 DEF Emitted, EventAt
<1>8. ASSUME NEW b \in Blocks, b < block PROVE \E x : Emitted(b, Exit(b), Exit(b), x)'
  <2>1. PICK x : Emitted(b, Exit(b), Exit(b), x)
    BY <1>8 DEF FactsInv, FactsFollow
  <2>2. facts'[b] = facts[b]
    BY <1>1, <1>2, <1>8, SizesFact
  <2>3. PICK m : m = Exit(b)
    OBVIOUS
  <2>4. Emitted(b, m, m, x)' /\ m = Exit(b)'
    BY <2>1, <2>2, <2>3 DEF Emitted, Track, EventAt, Exit
  <2> QED BY <2>4
<1> QED BY <1>3, <1>4, <1>7, <1>8

LEMMA EmitStatementStep == FactsInv /\ EmitStatement => FactsInv'
<1> SUFFICES ASSUME FactsInv, EmitStatement PROVE FactsInv'
  OBVIOUS
<1>1. Typed' /\ Counted'
  BY TypedStep DEF FactsNext, FactsInv
<1> PICK s, e : s = prog.code[block][next] /\ e = StatementEvent(pointsTo, s)
  OBVIOUS
<1>2. /\ prog' = prog /\ ptEntry' = ptEntry /\ pending' = pending /\ block' = block
      /\ stage = "emit" /\ stage' = "emit" /\ next' = next + 1
      /\ pointsTo' = AssignPointsTo(pointsTo, s) /\ Emit(e) /\ next <= Len(prog.code[block])
  BY DEF EmitStatement
<1>3. block \in Blocks /\ next \in 1 .. Len(prog.code[block]) /\ MIR(prog) /\ pointsTo \in Targets
  BY <1>2 DEF FactsInv, Typed
<1>4. pending = << >>
  BY <1>2 DEF FactsInv, FactsFollow
<1>5. BlocksClosed'
  BY <1>2, <1>4, ClosedStays
<1>6. s \in Statement
  BY <1>3, StatementIn
<1>7. e \in Event /\ ReturnLocal \notin e.written
  BY <1>3, <1>6, StatementEventType
<1>8. e = EventAt(block, next, pointsTo)
  BY <1>2 DEF EventAt
<1> PICK c, n : c = block /\ n = next
  OBVIOUS
<1>9. /\ \E tr : Emitted(c, n, n, tr)' /\ tr[n] = pointsTo
      /\ \A b \in Blocks : b < block => \E tr : Emitted(b, Exit(b), Exit(b), tr)'
  BY <1>2, <1>7, <1>8, EmitFollows
<1>10. \E x : Emitted(block, next, next - 1, x)' /\ x[next'] = pointsTo'
  <2>1. PICK tr : Emitted(c, n, n, tr)' /\ tr[n] = pointsTo
    BY <1>9
  <2>2. PICK q : c = block /\ n = next /\ q = ptEntry[c]
    OBVIOUS
  <2>3. Track(c, q, n, tr)
    BY <1>2, <2>1, <2>2 DEF Emitted, Track
  <2>4. n \in Nat \ {0} /\ AssignPointsTo(tr[n], prog.code[c][n]) \in Targets
    BY <1>1, <1>2, <1>3, <2>1, <2>2 DEF Typed
  <2>5. PICK x : Continues(c, q, n, tr, x)
    BY <2>3, <2>4, TrackStep
  <2>6. x[n + 1] = pointsTo' /\ \A k \in 1 .. n : x[k] = tr[k]
    BY <1>2, <2>1, <2>2, <2>5 DEF Continues
  <2>7. Track(c, ptEntry[c], n + 1, x)'
    BY <1>2, <2>2, <2>5 DEF Continues, Track
  <2>8. \A i \in 1 .. n : facts'[c][i] = EventAt(c, i, x[i])'
    BY <2>1, <2>2, <2>6, <1>2 DEF Emitted
  <2>9. Emitted(c, n + 1, n, x)'
    BY <2>7, <2>8 DEF Emitted
  <2>10. n + 1 = next' /\ next' - 1 = n /\ c = block'
    BY <1>2, <2>2, <2>4
  <2> QED BY <2>6, <2>9, <2>10
<1>11. FactsFollow'
  BY <1>2, <1>4, <1>9, <1>10 DEF FactsFollow
<1>12. BlockInHand'
  BY <1>2 DEF BlockInHand
<1> QED BY <1>1, <1>5, <1>11, <1>12 DEF FactsInv

LEMMA EmitTerminatorStep == FactsInv /\ EmitTerminator => FactsInv'
<1> SUFFICES ASSUME FactsInv, EmitTerminator PROVE FactsInv'
  OBVIOUS
<1>1. Typed' /\ Counted'
  BY TypedStep DEF FactsNext, FactsInv
<1> PICK e : e = TerminatorEvent(pointsTo, prog.term[block])
  OBVIOUS
<1>2. /\ prog' = prog /\ ptEntry' = ptEntry /\ pending' = pending
      /\ stage = "emit" /\ stage' \in {"emit", "facts"} /\ Emit(e) /\ next > Len(prog.code[block])
  BY DEF EmitTerminator
<1>3. block \in Blocks /\ block \in Nat /\ next = Exit(block) /\ MIR(prog) /\ pointsTo \in Targets
  <2>1. block \in Blocks /\ MIR(prog) /\ next \in 1 .. Exit(block) /\ pointsTo \in Targets
    BY <1>2 DEF FactsInv, Typed, Counted
  <2>2. Len(prog.code[block]) \in Nat
    BY <2>1, CodeType
  <2> QED BY <1>2, <2>1, <2>2, SizesFact DEF Exit
<1>4. pending = << >>
  BY <1>2 DEF FactsInv, FactsFollow
<1>5. BlocksClosed'
  BY <1>2, <1>4, ClosedStays
<1>6. prog.term[block] \in Terminator
  BY <1>3, CodeType
<1>7. e \in Event /\ ReturnLocal \notin e.written
  BY <1>3, <1>6, TerminatorEventType
<1>8. e = EventAt(block, next, pointsTo)
  <2>1. ~(next <= Len(prog.code[block]))
    BY <1>3, CodeType DEF Exit
  <2> QED BY <2>1 DEF EventAt
<1> PICK c, n : c = block /\ n = next
  OBVIOUS
<1>9. /\ \E tr : Emitted(c, n, n, tr)' /\ tr[n] = pointsTo
      /\ \A b \in Blocks : b < block => \E tr : Emitted(b, Exit(b), Exit(b), tr)'
  BY <1>2, <1>7, <1>8, EmitFollows
<1>10. \A b \in Blocks : b <= block => \E tr : Emitted(b, Exit(b), Exit(b), tr)'
  <2> SUFFICES ASSUME NEW b \in Blocks, b <= block PROVE \E tr : Emitted(b, Exit(b), Exit(b), tr)'
    OBVIOUS
  <2>1. CASE b < block
    BY <1>9, <2>1
  <2>2. CASE b = block
    <3>1. PICK tr : Emitted(c, n, n, tr)'
      BY <1>9
    <3>2. n = Exit(c)' /\ b = c
      BY <1>2, <1>3, <2>2 DEF Exit
    <3> QED BY <3>1, <3>2
  <2> QED BY <1>3, <2>1, <2>2, SizesFact
<1>11. FactsFollow'
  <2>1. CASE block = NumBlocks - 1
    <3>1. stage' = "facts"
      BY <2>1 DEF EmitTerminator
    <3>2. \A b \in Blocks : b <= block
      BY <2>1, BodySizeAssumption DEF Blocks
    <3> QED BY <1>2, <1>4, <1>10, <3>1, <3>2 DEF FactsFollow
  <2>2. CASE block # NumBlocks - 1
    <3>1. stage' = "emit" /\ block' = block + 1 /\ next' = 1 /\ pointsTo' = ptEntry[block + 1]
      BY <1>2, <2>2 DEF EmitTerminator
    <3>2. \A b \in Blocks : b < block + 1 => b <= block
      BY <1>3, SizesFact
    <3>3. PICK d, s, tr : d = block + 1 /\ s = pointsTo' /\ tr = [k \in 1 .. 1 |-> s]
      OBVIOUS
    <3>4. s \in Targets /\ s = ptEntry[d]
      BY <1>1, <3>1, <3>3 DEF Typed
    <3>5. Track(d, ptEntry[d], 1, tr)' /\ tr[1] = s
      BY <1>2, <3>3, <3>4, TrackStart DEF Track
    <3>6. Emitted(d, 1, 1 - 1, tr)'
      BY <3>5 DEF Emitted
    <3> QED BY <1>2, <1>4, <1>10, <3>1, <3>2, <3>3, <3>5, <3>6 DEF FactsFollow
  <2> QED BY <2>1, <2>2
<1>12. BlockInHand'
  BY <1>2 DEF BlockInHand
<1> QED BY <1>1, <1>5, <1>11, <1>12 DEF FactsInv

LEMMA FactsStutter == FactsInv /\ UNCHANGED ptVars => FactsInv'
<1> SUFFICES ASSUME FactsInv, UNCHANGED ptVars PROVE FactsInv'
  OBVIOUS
<1>1. Typed' /\ Counted'
  BY TypedStep DEF FactsInv
<1>2. UNCHANGED <<prog, stage, pending, ptEntry, block, next, pointsTo, facts>>
  BY DEF ptVars
<1>3. BlockInHand'
  BY <1>2 DEF FactsInv, BlockInHand, Waiting, FlowsInto, Track, Exit
<1>4. BlocksClosed'
  BY <1>2 DEF FactsInv, BlocksClosed, Waiting, ClosedBlock, FlowsInto, Track, Exit
<1>5. FactsFollow'
  BY <1>2 DEF FactsInv, FactsFollow, Emitted, Track, EventAt, Exit
<1> QED BY <1>1, <1>3, <1>4, <1>5 DEF FactsInv

LEMMA FactsInvStep == FactsInv /\ [FactsNext]_ptVars => FactsInv'
BY PopBlockStep, WalkStep, LeaveBlockStep, MergeEdgeStep, EndBlockStep, StartEmittingStep,
   EmitStatementStep, EmitTerminatorStep, FactsStutter DEF FactsNext

LEMMA FactsInvariant == MovesSpec => []FactsInv
<1>1. MovesInit => FactsInv
  BY FactsInvInit DEF MovesInit, PtRunInit
<1> QED BY <1>1, FactsStep, FactsInvStep, PTL DEF MovesSpec

-----------------------------------------------------------------------------
(***************************************************************************)
(* The execution.  Where a pointer really points is among the targets the  *)
(* analysis has for it at that point.                                      *)
(***************************************************************************)

LEMMA ValueWithin ==
  ASSUME NEW w \in PointsToState, NEW pts \in PointsToState, Within(w, pts), NEW s \in Statement
  PROVE  Value(w, s) \subseteq NewTargets(pts, s) \cap Locals
<1> SUFFICES ASSUME NEW v \in Value(w, s) PROVE v \in NewTargets(pts, s) /\ v \in Locals
  OBVIOUS
<1> DEFINE Comes(pl) == CASE <<s.kind, pl.shape>> \in {<<"ref", "plain">>, <<"ref", "field">>} -> {pl.local}
                          [] <<s.kind, pl.shape>> \in {<<"ref", "deref">>, <<"use", "plain">>} -> w[pl.local]
                          [] OTHER -> {}
           Goes(op) == CASE s.kind = "use" -> UNION { pts[u] : u \in AsLocal(op.place) }
                         [] s.kind = "ref" -> IF DerefPointer(op.place) = {} THEN {op.place.local}
                                              ELSE pts[op.place.local]
                         [] OTHER          -> {}
<1>1. PICK op \in ToSet(s.from) : v \in Comes(op.place)
  BY DEF Value
<1>2. PICK pl, a : pl = op.place /\ a = pl.local
  OBVIOUS
<1>3. a \in Locals
  BY <1>2, OperandsIn DEF Statement
<1>4. w[a] \subseteq pts[a] /\ w[a] \subseteq Locals
  BY <1>3 DEF Within, PointsToState
<1>5. CASE s.kind = "ref" /\ pl.shape \in {"plain", "field"}
  <2>1. v = a
    BY <1>1, <1>2, <1>5
  <2>2. DerefPointer(pl) = {}
    BY <1>5 DEF DerefPointer
  <2>3. v \in Goes(op)
    BY <1>2, <1>5, <2>1, <2>2
  <2> QED BY <1>3, <2>1, <2>3 DEF NewTargets
<1>6. CASE s.kind = "ref" /\ pl.shape = "deref"
  <2>1. v \in w[a]
    BY <1>1, <1>2, <1>6
  <2>2. DerefPointer(pl) # {}
    BY <1>6 DEF DerefPointer
  <2>3. v \in Goes(op)
    BY <1>2, <1>4, <1>6, <2>1, <2>2
  <2> QED BY <1>4, <2>1, <2>3 DEF NewTargets
<1>7. CASE s.kind = "use" /\ pl.shape = "plain"
  <2>1. v \in w[a]
    BY <1>1, <1>2, <1>7
  <2>2. AsLocal(pl) = {a}
    BY <1>2, <1>7 DEF AsLocal
  <2>3. v \in Goes(op)
    BY <1>2, <1>4, <1>7, <2>1, <2>2
  <2> QED BY <1>4, <2>1, <2>3 DEF NewTargets
<1>8. \/ s.kind = "ref" /\ pl.shape \in {"plain", "field"}
      \/ s.kind = "ref" /\ pl.shape = "deref"
      \/ s.kind = "use" /\ pl.shape = "plain"
  <2> SUFFICES ASSUME <<s.kind, pl.shape>> \notin {<<"ref", "plain">>, <<"ref", "field">>},
                      <<s.kind, pl.shape>> \notin {<<"ref", "deref">>, <<"use", "plain">>}
               PROVE  FALSE
    OBVIOUS
  <2> QED BY <1>1, <1>2
<1> QED BY <1>5, <1>6, <1>7, <1>8

LEMMA AssignedWithin ==
  ASSUME NEW w \in PointsToState, NEW pts \in PointsToState, Within(w, pts), NEW s \in Statement
  PROVE  /\ Assigned(w, s) \in PointsToState
         /\ Within(Assigned(w, s), AssignPointsTo(pts, s))
<1> PICK val, new, d : val = Value(w, s) /\ new = NewTargets(pts, s) /\ d = s.dst.local
  OBVIOUS
<1>1. val \subseteq new /\ val \subseteq Locals
  BY ValueWithin
<1>2. d \in Locals
  BY DEF Statement, Place
<1>3. CASE s.dst.shape = "plain" /\ d \in Pointers
  <2>1. Assigned(w, s) = [w EXCEPT ![d] = val]
    BY <1>3 DEF Assigned
  <2>2. AssignPointsTo(pts, s) = [pts EXCEPT ![d] = new]
    BY <1>3 DEF AssignPointsTo, AsLocal
  <2> QED BY <1>1, <1>2, <2>1, <2>2 DEF PointsToState, Within
<1>4. CASE ~(s.dst.shape = "plain" /\ d \in Pointers)
  <2>1. Assigned(w, s) = w
    BY <1>4 DEF Assigned
  <2>2. AssignPointsTo(pts, s) = pts
    BY <1>4 DEF AssignPointsTo, AsLocal
  <2> QED BY <2>1, <2>2
<1> QED BY <1>3, <1>4

LEMMA ForgetWithin ==
  ASSUME NEW w \in PointsToState, NEW pts, Within(w, pts), NEW hit
  PROVE  Forget(w, hit) \in PointsToState /\ Within(Forget(w, hit), pts)
BY DEF Forget, Within, PointsToState

(* The statement about to be performed, the terminator once they are done. *)
Here == IF pt <= Exit(bb) THEN pt ELSE Exit(bb)

Followed ==
  /\ bb \in Blocks /\ pt \in 1 .. Exit(bb) + 1
  /\ where \in PointsToState
  /\ IF stage = "facts"
     THEN \A tr : Track(bb, ptEntry[bb], Exit(bb), tr) => Within(where, tr[Here])
     ELSE bb = 0 /\ pt = 1 /\ where = NothingKnown

allMovesVars == <<ptVars, runVars, checkVars>>

LEMMA FollowedInit == MovesInit => Followed
<1> SUFFICES ASSUME MovesInit PROVE Followed
  OBVIOUS
<1>1. FactsInit /\ bb = 0 /\ pt = 1 /\ where = NothingKnown
  BY DEF MovesInit, PtRunInit
<1>2. Typed /\ stage = "pop"
  BY <1>1, TypedInit DEF FactsInit
<1>3. 0 \in Blocks /\ Exit(0) \in Nat /\ Exit(0) > 0
  BY <1>2, SizesFact, ExitType DEF Typed
<1>4. where \in PointsToState
  BY <1>1, NothingTracked DEF Targets
<1> QED BY <1>1, <1>2, <1>3, <1>4 DEF Followed

LEMMA FollowedGenerate == FactsInv /\ Followed /\ GenerateFacts => Followed'
<1> SUFFICES ASSUME FactsInv, Followed, GenerateFacts PROVE Followed'
  OBVIOUS
<1>1. FactsNext /\ bb' = bb /\ pt' = pt /\ where' = where
  BY DEF GenerateFacts, runVars
<1>2. prog' = prog /\ stage # "facts"
  BY <1>1 DEF FactsNext, PopBlock, Walk, LeaveBlock, MergeEdge, EndBlock, StartEmitting,
              EmitStatement, EmitTerminator
<1>3. bb = 0 /\ pt = 1 /\ where = NothingKnown
  BY <1>2 DEF Followed
<1>4. ASSUME NEW x PROVE Within(where, x)
  BY <1>3 DEF Within, NothingKnown
<1>5. Exit(bb)' = Exit(bb)
  BY <1>1, <1>2 DEF Exit
<1> QED BY <1>1, <1>3, <1>4, <1>5 DEF Followed

LEMMA FollowedStatement == FactsInv /\ Followed /\ ExecStatement => Followed'
<1> SUFFICES ASSUME FactsInv, Followed, ExecStatement PROVE Followed'
  OBVIOUS
<1> PICK s : s = prog.code[bb][pt]
  OBVIOUS
<1>1. /\ stage = "facts" /\ stage' = stage /\ prog' = prog /\ ptEntry' = ptEntry /\ bb' = bb
      /\ pt' = pt + 1 /\ pt <= Len(prog.code[bb])
  BY DEF ExecStatement, Perform, AtStatement, Statements, ptVars
<1>2. PICK hit : where' = Assigned(Forget(where, hit), s)
  BY DEF ExecStatement, Statements
<1>3. MIR(prog) /\ bb \in Blocks /\ where \in PointsToState /\ pt \in Nat \ {0}
  BY DEF FactsInv, Typed, Followed
<1>4. /\ Exit(bb) = Len(prog.code[bb]) + 1 /\ Exit(bb)' = Exit(bb) /\ Len(prog.code[bb]) \in Nat
      /\ pt \in 1 .. Len(prog.code[bb])
  BY <1>1, <1>3, CodeType DEF Exit
<1>5. s \in Statement
  BY <1>3, <1>4, StatementIn
<1>6. Here = pt /\ Here' = pt + 1 /\ pt' \in 1 .. Exit(bb)' + 1
  BY <1>1, <1>3, <1>4 DEF Here
<1>7. where' \in PointsToState
  <2>1. Within(where, where)
    BY DEF Within
  <2>2. Forget(where, hit) \in PointsToState /\ Within(Forget(where, hit), where)
    BY <1>3, <2>1, ForgetWithin
  <2> QED BY <1>2, <1>3, <1>5, <2>2, AssignedWithin
<1>8. ASSUME NEW tr, Track(bb, ptEntry[bb], Exit(bb), tr) PROVE Within(where', tr[pt + 1])
  <2>1. Within(where, tr[pt])
    BY <1>1, <1>6, <1>8 DEF Followed
  <2>2. /\ tr[pt] \in PointsToState
        /\ tr[pt + 1] = AssignPointsTo(tr[pt], s)
    BY <1>4, <1>8 DEF Track
  <2>3. Forget(where, hit) \in PointsToState /\ Within(Forget(where, hit), tr[pt])
    BY <1>3, <2>1, ForgetWithin
  <2> QED BY <1>2, <1>5, <2>2, <2>3, AssignedWithin
<1>9. \A tr : Track(bb, ptEntry[bb], Exit(bb), tr)' => Within(where, tr[Here])'
  BY <1>1, <1>4, <1>6, <1>8 DEF Track, Within
<1> QED BY <1>1, <1>3, <1>6, <1>7, <1>9 DEF Followed

LEMMA FollowedTerminator == FactsInv /\ Followed /\ ExecTerminator => Followed'
<1> SUFFICES ASSUME FactsInv, Followed, ExecTerminator PROVE Followed'
  OBVIOUS
<1>1. /\ stage = "facts" /\ stage' = stage /\ prog' = prog /\ ptEntry' = ptEntry /\ bb' = bb
      /\ pt' = pt + 1 /\ pt = Exit(bb)
  BY DEF ExecTerminator, Perform, Statements, ptVars, Exit
<1>2. PICK hit : where' = Forget(where, hit)
  BY DEF ExecTerminator
<1>3. MIR(prog) /\ bb \in Blocks /\ where \in PointsToState
  BY DEF FactsInv, Typed, Followed
<1>4. Exit(bb) \in Nat /\ Exit(bb) > 0 /\ Exit(bb)' = Exit(bb)
  BY <1>1, <1>3, ExitType DEF Exit
<1>5. Here = Exit(bb) /\ Here' = Exit(bb) /\ pt' \in 1 .. Exit(bb)' + 1
  BY <1>1, <1>4 DEF Here
<1>6. where' \in PointsToState
  BY <1>2, <1>3, ForgetWithin DEF Within
<1>7. ASSUME NEW tr, Track(bb, ptEntry[bb], Exit(bb), tr) PROVE Within(where', tr[Exit(bb)])
  BY <1>1, <1>2, <1>3, <1>5, <1>7, ForgetWithin DEF Followed
<1>8. \A tr : Track(bb, ptEntry[bb], Exit(bb), tr)' => Within(where, tr[Here])'
  BY <1>1, <1>4, <1>5, <1>7 DEF Track, Within
<1> QED BY <1>1, <1>3, <1>5, <1>6, <1>8 DEF Followed

LEMMA FollowedJump == FactsInv /\ Followed /\ Jump => Followed'
<1> SUFFICES ASSUME FactsInv, Followed, Jump PROVE Followed'
  OBVIOUS
<1>1. /\ stage = "facts" /\ stage' = stage /\ prog' = prog /\ ptEntry' = ptEntry
      /\ where' = where /\ pt' = 1 /\ pt = Exit(bb) + 1
  <2>1. (Len(Statements) + 2) = Exit(bb) + 1
    <3>1. Len(prog.code[bb]) \in Nat
      BY CodeType DEF FactsInv, Typed, Followed
    <3> QED BY <3>1 DEF Statements, Exit
  <2> QED BY <2>1 DEF Jump, ptVars
<1>2. MIR(prog) /\ bb \in Blocks /\ where \in PointsToState
  BY DEF FactsInv, Typed, Followed
<1>3. prog.succ[bb] \in Seq(Blocks)
  BY <1>2, CodeType
<1>4. PICK k \in 1 .. Len(prog.succ[bb]) : bb' = prog.succ[bb][k]
  <2>1. PICK t \in ToSet(prog.succ[bb]) : bb' = t
    BY DEF Jump
  <2> QED BY <1>3, <2>1 DEF ToSet
<1>5. bb' \in Blocks
  BY <1>2, <1>4, EdgeIn
<1>6. ClosedBlock(bb)
  BY <1>1, <1>2, ClosedAtEnd DEF FactsInv, FactsFollow
<1>7. PICK tr : /\ Track(bb, ptEntry[bb], Exit(bb), tr)
                /\ FlowsInto(tr[Exit(bb)], bb, Len(prog.succ[bb]))
  BY <1>6 DEF ClosedBlock
<1>8. Exit(bb) \in Nat /\ Here = Exit(bb)
  BY <1>1, <1>2, ExitType DEF Here
<1>9. Within(where, tr[Exit(bb)])
  BY <1>1, <1>7, <1>8 DEF Followed
<1>10. Within(where, ptEntry[bb'])
  BY <1>4, <1>7, <1>9, WithinTrans DEF FlowsInto
<1>11. Exit(bb') \in Nat /\ Exit(bb') > 0 /\ Exit(bb)' = Exit(bb')
  BY <1>1, <1>2, <1>5, ExitType DEF Exit
<1>12. Here' = 1 /\ pt' \in 1 .. Exit(bb)' + 1
  BY <1>1, <1>11 DEF Here
<1>13. \A x : Track(bb, ptEntry[bb], Exit(bb), x)' => Within(where, x[Here])'
  BY <1>1, <1>10, <1>12 DEF Track, Within
<1> QED BY <1>1, <1>2, <1>5, <1>12, <1>13 DEF Followed

LEMMA FollowedStutter == Followed /\ UNCHANGED <<ptVars, bb, pt, where>> => Followed'
<1> SUFFICES ASSUME Followed, UNCHANGED <<ptVars, bb, pt, where>> PROVE Followed'
  OBVIOUS
<1>1. UNCHANGED <<prog, stage, ptEntry, bb, pt, where>>
  BY DEF ptVars
<1> QED BY <1>1 DEF Followed, Here, Track, Within, Exit, NothingKnown

LEMMA FollowedStep == FactsInv /\ Followed /\ [MovesNext]_allMovesVars => Followed'
BY FollowedGenerate, FollowedStatement, FollowedTerminator, FollowedJump, FollowedStutter
   DEF MovesNext, Facts, Analyze, Execute, allMovesVars, runVars

LEMMA FollowedAlways == MovesSpec => []Followed
BY FactsInvariant, FollowedInit, FollowedStep, PTL DEF MovesSpec, allMovesVars

LEMMA RecordedHere == FactsInv /\ Followed => StoresRecorded
<1> SUFFICES ASSUME FactsInv, Followed, stage = "facts"
             PROVE  /\ AtStatement => Stored \subseteq facts[bb][pt].written
                    /\ pt = Len(Statements) + 1 => Reachable \subseteq facts[bb][pt].written
  BY DEF StoresRecorded
<1>1. MIR(prog) /\ bb \in Blocks /\ Len(prog.code[bb]) \in Nat /\ pt \in Nat \ {0}
  BY CodeType DEF FactsInv, Typed, Followed
<1>2. PICK tr : /\ Track(bb, ptEntry[bb], Exit(bb), tr)
                /\ \A i \in 1 .. Exit(bb) : facts[bb][i] = EventAt(bb, i, tr[i])
  BY <1>1 DEF FactsInv, FactsFollow, Emitted
<1>3. ASSUME pt \in 1 .. Exit(bb)
      PROVE  /\ \A v \in Locals : where[v] \subseteq tr[pt][v]
             /\ facts[bb][pt] = EventAt(bb, pt, tr[pt])
  <2>1. Here = pt
    BY <1>3 DEF Here
  <2> QED BY <1>2, <1>3, <2>1 DEF Followed, Within
<1>4. CASE AtStatement
  <2>1. pt \in 1 .. Len(prog.code[bb]) /\ pt \in 1 .. Exit(bb)
    BY <1>1, <1>4 DEF AtStatement, Statements, Exit
  <2> PICK s, a : s = prog.code[bb][pt] /\ a = s.dst.local
    OBVIOUS
  <2>2. s \in Statement /\ a \in Locals
    BY <1>1, <2>1, StatementIn DEF Statement, Place
  <2>3. facts[bb][pt] = StatementEvent(tr[pt], s)
    BY <1>3, <2>1 DEF EventAt
  <2>4. facts[bb][pt].written = UNION { tr[pt][v] : v \in DerefPointer(s.dst) }
    BY <2>3 DEF StatementEvent
  <2>5. CASE s.dst.shape = "deref"
    <3>1. Stored = where[a] /\ a \in DerefPointer(s.dst)
      BY <2>5 DEF Stored, Statements, DerefPointer
    <3>2. where[a] \subseteq tr[pt][a]
      BY <1>3, <2>1, <2>2
    <3>3. Stored \subseteq facts[bb][pt].written
      BY <2>4, <3>1, <3>2
    <3>4. pt # Len(Statements) + 1
      BY <1>1, <2>1 DEF Statements
    <3> QED BY <3>3, <3>4
  <2>6. CASE s.dst.shape # "deref"
    <3>1. Stored = {}
      BY <2>6 DEF Stored, Statements
    <3>2. pt # Len(Statements) + 1
      BY <1>1, <2>1 DEF Statements
    <3> QED BY <3>1, <3>2
  <2> QED BY <2>5, <2>6
<1>5. CASE ~AtStatement /\ pt = Len(Statements) + 1
  <2>1. pt \in 1 .. Exit(bb) /\ ~(pt <= Len(prog.code[bb]))
    BY <1>1, <1>5 DEF Statements, Exit
  <2> PICK t : t = prog.term[bb]
    OBVIOUS
  <2>2. t \in Terminator
    BY <1>1, CodeType
  <2>3. facts[bb][pt] = TerminatorEvent(tr[pt], t)
    BY <1>3, <2>1 DEF EventAt
  <2>4. CASE t.kind = "call"
    <3>1. facts[bb][pt].written = Escaping(tr[pt], t.from)
      BY <2>3, <2>4 DEF TerminatorEvent
    <3>2. ASSUME NEW v \in Reachable PROVE v \in Escaping(tr[pt], t.from)
      <4>1. PICK op \in ToSet(t.from) : op.place.shape = "plain" /\ v \in where[op.place.local]
        BY <2>4, <3>2 DEF Reachable
      <4>2. op.place.local \in Locals
        BY <2>2, OperandsIn DEF Terminator
      <4>3. v \in tr[pt][op.place.local]
        BY <1>3, <2>1, <4>1, <4>2
      <4>4. v \in UNION { tr[pt][u] : u \in AsLocal(op.place) }
        BY <4>1, <4>3 DEF AsLocal
      <4> QED BY <4>4 DEF Escaping
    <3> QED BY <1>5, <3>1, <3>2
  <2>5. CASE t.kind # "call"
    BY <1>5, <2>5 DEF Reachable
  <2> QED BY <2>4, <2>5
<1> QED BY <1>4, <1>5

(* The execution stores through a pointer, or hands it to a call, only     *)
(* where its real target is recorded as written, whatever blocks, loops    *)
(* and dead code the pointer came through: the worklist of                 *)
(* compute_points_to does not stop too early, and the second walk of the   *)
(* blocks emits from the states the worklist ended with.                   *)
THEOREM StoresAreRecorded == MovesSpec => []StoresRecorded
BY RecordedHere, FactsInvariant, FollowedAlways, PTL

-----------------------------------------------------------------------------
(***************************************************************************)
(* The diagnostics.  The move checker starts on the body the facts make,   *)
(* so what MoveDataflowProofs proves of it, for any body, holds here.      *)
(***************************************************************************)
MP == INSTANCE MoveDataflowProofs WITH Bodies <- {}, body <- CheckedBody

LEMMA MPAssumptions == MP!SizeAssumption /\ MP!BodiesAssumption
BY BodySizeAssumption DEF MP!SizeAssumption, MP!BodiesAssumption

LEMMA SameSets ==
  /\ MP!Locals = Locals /\ MP!Blocks = Blocks /\ MP!ReturnLocal = ReturnLocal
  /\ MP!Event = Event /\ MP!NoFlags = M!NoFlags
BY DEF MP!Locals, Locals, MP!Blocks, Blocks, MP!ReturnLocal, ReturnLocal, MP!Event, Event,
       MP!NoFlags, M!NoFlags

LEMMA SameStart == M!Start => MP!Start
BY DEF M!Start, MP!Start, M!EntryFlags, MP!EntryFlags, M!NoFlags, MP!NoFlags, M!NoPoint, MP!NoPoint,
       M!Locals, MP!Locals, M!Blocks, MP!Blocks

LEMMA SameNext == M!Next => MP!Next
<1>1. M!Pop => MP!Pop
  BY DEF M!Pop, MP!Pop, M!Last, MP!Last, M!Front, MP!Front
<1>2. M!Point => MP!Point
  BY DEF M!Point, MP!Point, M!ThisPoint, MP!ThisPoint, M!LastPoint, MP!LastPoint, M!Apply, MP!Apply,
         M!Blame, MP!Blame, M!ErrorsAt, MP!ErrorsAt, M!Locals, MP!Locals
<1>3. M!Edge => MP!Edge
  BY DEF M!Edge, MP!Edge, M!Join, MP!Join
<1>4. M!NextBlock => MP!NextBlock
  BY DEF M!NextBlock, MP!NextBlock
<1>5. M!Converge => MP!Converge
  BY DEF M!Converge, MP!Converge
<1>6. M!ScanBlock => MP!ScanBlock
  BY DEF M!ScanBlock, MP!ScanBlock
<1>7. M!Replay => MP!Replay
  BY DEF M!Replay, MP!Replay, M!ThisPoint, MP!ThisPoint, M!LastPoint, MP!LastPoint, M!Apply, MP!Apply,
         M!Blame, MP!Blame, M!Leaked, MP!Leaked, M!Locals, MP!Locals, M!ReturnLocal, MP!ReturnLocal
<1>8. M!Finish => MP!Finish
  BY DEF M!Finish, MP!Finish
<1> QED BY <1>1, <1>2, <1>3, <1>4, <1>5, <1>6, <1>7, <1>8 DEF M!Next, MP!Next

(* The analysis has its invariant once it is given the body.               *)
Handed == IF stage = "facts" THEN MP!Inv ELSE MP!Start

Handing == IF stage = "facts" THEN MP!Inv \/ MP!Start ELSE MP!Start

LEMMA HandedSound == FactsInv /\ Handing => Handed
<1> SUFFICES ASSUME FactsInv, stage = "facts", MP!Start PROVE MP!Inv
  BY DEF Handed, Handing
<1>1. WellFormed(CheckedBody) /\ ReturnNotWritten(CheckedBody)
  BY CheckedSound DEF FactsInv
<1>2. MP!Sound
  BY <1>1, SameSets DEF MP!Sound, MP!WellFormed, WellFormed, MP!Body, Body,
                        MP!ReturnNotWritten, ReturnNotWritten
<1> QED BY <1>2, MPAssumptions, MP!InvStart

LEMMA HandedStep == Handed /\ [MovesNext]_allMovesVars => Handing'
<1> SUFFICES ASSUME Handed, [MovesNext]_allMovesVars PROVE Handing'
  OBVIOUS
<1>1. CASE Facts
  <2>1. UNCHANGED <<phase, worklist, entry, blk, at, flags, lastAssign, errors, leaks>> /\ FactsNext
    BY <1>1 DEF Facts, GenerateFacts, checkVars
  <2>2. stage # "facts" /\ prog' = prog
    BY <2>1 DEF FactsNext, PopBlock, Walk, LeaveBlock, MergeEdge, EndBlock, StartEmitting,
                EmitStatement, EmitTerminator
  <2>3. MP!Start'
    BY <2>1, <2>2 DEF Handed, MP!Start, MP!EntryFlags, CheckedBody
  <2> QED BY <2>3 DEF Handing
<1>2. CASE Analyze
  <2>1. stage = "facts" /\ stage' = stage /\ MP!Next
    BY <1>2, SameNext DEF Analyze, ptVars
  <2> QED BY <2>1, MPAssumptions, MP!InvStep DEF Handed, Handing
<1>3. CASE UNCHANGED <<ptVars, checkVars>>
  <2>1. UNCHANGED <<prog, stage, facts, phase, worklist, entry, blk, at, flags, lastAssign, errors, leaks>>
    BY <1>3 DEF ptVars, checkVars
  <2>2. CheckedBody' = CheckedBody
    BY <2>1 DEF CheckedBody
  <2>3. CASE stage = "facts"
    <3>1. UNCHANGED MP!vars
      BY <2>1, <2>2 DEF MP!vars
    <3> QED BY <2>1, <2>3, <3>1, MPAssumptions, MP!StutterStep DEF Handed, Handing
  <2>4. CASE stage # "facts"
    BY <2>1, <2>2, <2>4 DEF Handed, Handing, MP!Start
  <2> QED BY <2>3, <2>4
<1> QED BY <1>1, <1>2, <1>3
        DEF MovesNext, Execute, ExecStatement, ExecTerminator, Jump, allMovesVars

LEMMA HandedAlways == MovesSpec => []Handed
<1>1. MovesInit => Handing
  BY SameStart DEF MovesInit, PtRunInit, FactsInit, Handing
<1> QED BY <1>1, HandedSound, HandedStep, FactsInvariant, PTL DEF MovesSpec, allMovesVars

-----------------------------------------------------------------------------
(***************************************************************************)
(* The execution against the analysis.  What it owns the analysis owns; a  *)
(* local no pointer is recorded to reach is uninitialised or moved only    *)
(* where the analysis has it so.                                           *)
(***************************************************************************)
Unaliased == { v \in Locals : \A b \in Blocks : \A i \in 1 .. Len(facts[b]) : v \notin facts[b][i].written }

Seen(st, fl, plain) ==
  \A v \in Locals :
    /\ st[v] = "owned" => v \in fl.owned
    /\ v \in plain /\ st[v] \in {"uninit", "moved"} => v \in fl.uninit
    /\ v \in plain /\ st[v] = "moved" => v \in fl.moved

LEMMA SeenLeq ==
  ASSUME NEW st, NEW x, NEW y, NEW plain, Seen(st, x, plain), MP!Leq(x, y) PROVE Seen(st, y, plain)
BY DEF Seen, MP!Leq

LEMMA SeenSome ==
  ASSUME NEW st \in [Locals -> Status], st[ReturnLocal] # "filled",
         NEW fl, NEW plain, ReturnLocal \in plain, Seen(st, fl, plain)
  PROVE  fl # MP!NoFlags
<1>1. ReturnLocal \in Locals
  BY SizesFact
<1>2. st[ReturnLocal] \in {"uninit", "moved", "owned"}
  BY <1>1 DEF Status
<1>3. ReturnLocal \in fl.owned \/ ReturnLocal \in fl.uninit
  BY <1>1, <1>2 DEF Seen
<1> QED BY <1>3 DEF MP!NoFlags

(* One point, its pointer writes being some of those recorded.             *)
LEMMA SeenStep ==
  ASSUME NEW ev \in Event, NEW writes, writes \subseteq ev.written,
         NEW st \in [Locals -> Status], NEW fl, NEW plain, plain \cap ev.written = {},
         Seen(st, fl, plain)
  PROVE  Seen([p \in Locals |-> After(st[p], p, [ev EXCEPT !.written = writes])],
              MP!Apply(ev, fl), plain)
<1> PICK act, after : act = [ev EXCEPT !.written = writes] /\ after = MP!Apply(ev, fl)
  OBVIOUS
<1>1. act.written = writes /\ act.assigned = ev.assigned /\ act.moved = ev.moved
  BY DEF Event
<1>2. /\ after.uninit = (fl.uninit \cup ev.moved) \ (ev.written \cup ev.assigned)
      /\ after.moved = (fl.moved \cup ev.moved) \ (ev.written \cup ev.assigned)
      /\ after.owned = (fl.owned \ ev.moved) \cup ev.assigned
  BY DEF MP!Apply
<1> SUFFICES ASSUME NEW v \in Locals
             PROVE  /\ After(st[v], v, act) = "owned" => v \in after.owned
                    /\ v \in plain /\ After(st[v], v, act) \in {"uninit", "moved"} => v \in after.uninit
                    /\ v \in plain /\ After(st[v], v, act) = "moved" => v \in after.moved
  BY DEF Seen
<1>3. /\ st[v] = "owned" => v \in fl.owned
      /\ v \in plain /\ st[v] \in {"uninit", "moved"} => v \in fl.uninit
      /\ v \in plain /\ st[v] = "moved" => v \in fl.moved
  BY DEF Seen
<1>4. v \in plain => v \notin ev.written /\ v \notin writes
  OBVIOUS
<1>5. CASE v \in ev.assigned
  BY <1>1, <1>2, <1>5 DEF After
<1>6. CASE v \notin ev.assigned /\ v \in writes
  BY <1>1, <1>2, <1>3, <1>4, <1>6 DEF After
<1>7. CASE v \notin ev.assigned /\ v \notin writes /\ v \in ev.moved
  BY <1>1, <1>2, <1>3, <1>4, <1>7 DEF After
<1>8. CASE v \notin ev.assigned /\ v \notin writes /\ v \notin ev.moved
  BY <1>1, <1>2, <1>3, <1>4, <1>8 DEF After
<1> QED BY <1>5, <1>6, <1>7, <1>8

(* The uses of a point are judged on the state before it.                  *)
LEMMA WrongReported ==
  ASSUME NEW ev \in Event, NEW st, NEW fl, NEW plain, NEW v \in Locals \cap plain,
         Seen(st, fl, plain), IsMoveError(st[v], v, ev)
  PROVE  \E kind \in {"Moved", "Uninit"} : <<v, kind>> \in MP!ErrorsAt(ev, fl)
<1>1. CASE v \in ev.accessed /\ st[v] \in {"uninit", "moved"}
  <2>1. v \in ev.accessed \cap fl.uninit
    BY <1>1 DEF Seen
  <2>2. <<v, IF v \in fl.moved THEN "Moved" ELSE "Uninit">> \in MP!ErrorsAt(ev, fl)
    BY <2>1 DEF MP!ErrorsAt
  <2> QED BY <2>2
<1>2. CASE v \in ev.borrowed /\ st[v] = "moved"
  <2>1. v \in ev.borrowed \cap fl.moved
    BY <1>2 DEF Seen
  <2>2. <<v, "Moved">> \in MP!ErrorsAt(ev, fl)
    BY <2>1 DEF MP!ErrorsAt
  <2> QED BY <2>2
<1> QED BY <1>1, <1>2 DEF IsMoveError

Performed ==
  /\ status \in [Locals -> Status] /\ status[ReturnLocal] # "filled"
  /\ IF phase = "done"
     THEN /\ entry[bb] # MP!NoFlags
          /\ \A tr : MP!Trace(bb, entry[bb], MP!Exit(bb), tr) => Seen(status, tr[pt], Unaliased)
     ELSE bb = 0 /\ pt = 1 /\ status = [p \in Locals |-> InitialStatus(prog, p)]

LEMMA ReturnUnaliased == FactsInv => ReturnLocal \in Unaliased
BY SizesFact DEF FactsInv, Typed, Unaliased

LEMMA StartStatus ==
  ASSUME MIR(prog)
  PROVE  /\ [p \in Locals |-> InitialStatus(prog, p)] \in [Locals -> Status]
         /\ [p \in Locals |-> InitialStatus(prog, p)][ReturnLocal] = "uninit"
<1>1. prog.args \subseteq Locals \ {ReturnLocal}
  BY DEF MIR, Program
<1> QED BY <1>1, SizesFact DEF InitialStatus, Status

LEMMA PerformedInit == MovesInit => Performed
<1> SUFFICES ASSUME MovesInit PROVE Performed
  OBVIOUS
<1>1. MIR(prog)
  BY TypedInit DEF MovesInit, PtRunInit, Typed
<1>2. phase = "pop" /\ bb = 0 /\ pt = 1 /\ status = [p \in Locals |-> InitialStatus(prog, p)]
  BY DEF MovesInit, PtRunInit, M!Start
<1> QED BY <1>1, <1>2, StartStatus DEF Performed

LEMMA EntrySeen ==
  ASSUME MIR(prog), NEW fl, MP!Leq(MP!EntryFlags(CheckedBody), fl)
  PROVE  Seen([p \in Locals |-> InitialStatus(prog, p)], fl, Unaliased)
<1>1. CheckedBody.args = prog.args
  BY DEF CheckedBody
<1>2. Locals \ prog.args \subseteq fl.uninit /\ prog.args \subseteq fl.owned
  BY <1>1, SameSets DEF MP!Leq, MP!EntryFlags
<1> QED BY <1>2 DEF Seen, InitialStatus

LEMMA PerformedFacts == Handed /\ Performed /\ Facts => Performed'
<1> SUFFICES ASSUME Handed, Performed, Facts PROVE Performed'
  OBVIOUS
<1>1. FactsNext /\ UNCHANGED <<bb, pt, status, phase>>
  BY DEF Facts, GenerateFacts, runVars, checkVars
<1>2. stage # "facts" /\ prog' = prog
  BY <1>1 DEF FactsNext, PopBlock, Walk, LeaveBlock, MergeEdge, EndBlock, StartEmitting,
              EmitStatement, EmitTerminator
<1>3. phase = "pop"
  BY <1>2 DEF Handed, MP!Start
<1> QED BY <1>1, <1>2, <1>3 DEF Performed

LEMMA PerformedAnalyze == FactsInv /\ Handed /\ Handed' /\ Performed /\ Analyze => Performed'
<1> SUFFICES ASSUME FactsInv, Handed, Handed', Performed, Analyze PROVE Performed'
  OBVIOUS
<1>1. MP!Next /\ UNCHANGED <<bb, pt, status, stage, prog, facts>> /\ stage = "facts"
  BY SameNext DEF Analyze, runVars, ptVars
<1>2. phase # "done"
  BY <1>1 DEF MP!Next, MP!Pop, MP!Point, MP!Edge, MP!NextBlock, MP!Converge, MP!ScanBlock,
              MP!Replay, MP!Finish
<1>3. bb = 0 /\ pt = 1 /\ status = [p \in Locals |-> InitialStatus(prog, p)]
  BY <1>2 DEF Performed
<1>4. CASE phase' # "done"
  BY <1>1, <1>3, <1>4 DEF Performed
<1>5. CASE phase' = "done"
  <2>1. CheckedBody' = CheckedBody /\ Unaliased' = Unaliased
    BY <1>1 DEF CheckedBody, Unaliased
  <2>2. MP!Leq(MP!EntryFlags(CheckedBody), entry'[0])
    BY <1>1, <2>1 DEF Handed, MP!Inv, MP!Leq
  <2>3. Seen(status, entry'[0], Unaliased)
    BY <1>3, <2>2, EntrySeen DEF FactsInv, Typed
  <2>4. entry'[0] # MP!NoFlags
    BY <2>3, ReturnUnaliased, SeenSome DEF Performed
  <2>5. \A tr : MP!Trace(bb, entry[bb], MP!Exit(bb), tr)' => Seen(status', tr[pt'], Unaliased')
    BY <1>1, <1>3, <2>1, <2>3 DEF MP!Trace
  <2>6. entry'[bb'] # MP!NoFlags
    BY <1>1, <1>3, <2>4
  <2>7. status' \in [Locals -> Status] /\ status'[ReturnLocal] # "filled"
    BY <1>1 DEF Performed
  <2> QED BY <1>5, <2>5, <2>6, <2>7 DEF Performed
<1> QED BY <1>4, <1>5

(* The length of a block, as the move checker sees it.                     *)
LEMMA CheckedExit ==
  ASSUME FactsInv, stage = "facts", NEW b \in Blocks
  PROVE  /\ MP!Exit(b) = Exit(b) + 1 /\ Exit(b) \in Nat /\ Exit(b) > 0
         /\ CheckedBody.points[b] = facts[b] /\ Len(facts[b]) = Exit(b)
         /\ CheckedBody.succ[b] = prog.succ[b]
         /\ \A i \in 1 .. Exit(b) : facts[b][i] \in Event
<1>1. CheckedBody.points[b] = facts[b] /\ CheckedBody.succ[b] = prog.succ[b]
  BY DEF CheckedBody
<1>2. Len(facts[b]) = Exit(b) /\ facts[b] \in Seq(Event)
  BY DEF FactsInv, Typed, Counted
<1>3. Exit(b) \in Nat /\ Exit(b) > 0
  BY ExitType DEF FactsInv, Typed
<1>4. \A i \in 1 .. Exit(b) : facts[b][i] \in Event
  BY <1>2
<1> QED BY <1>1, <1>2, <1>3, <1>4 DEF MP!Exit

LEMMA DoneInv == Handed /\ phase = "done" => stage = "facts" /\ MP!Inv
BY DEF Handed, MP!Start

(* A point of the execution whose pointer writes are recorded.             *)
LEMMA PerformedPoint ==
  ASSUME FactsInv, Handed, Performed, phase = "done", bb \in Blocks, pt \in 1 .. Exit(bb),
         NEW writes, writes \subseteq facts[bb][pt].written, Perform(writes),
         UNCHANGED <<ptVars, bb>>, UNCHANGED checkVars
  PROVE  Performed'
<1>1. /\ prog' = prog /\ facts' = facts /\ bb' = bb /\ entry' = entry /\ phase' = phase
      /\ pt' = pt + 1
      /\ status' = [p \in Locals |-> After(status[p], p, [facts[bb][pt] EXCEPT !.written = writes])]
  BY DEF ptVars, checkVars, Perform
<1>2. stage = "facts"
  BY DoneInv
<1> PICK ev : ev = facts[bb][pt]
  OBVIOUS
<1>3. /\ ev \in Event /\ MP!Exit(bb) = Exit(bb) + 1 /\ Exit(bb) \in Nat
      /\ CheckedBody.points[bb] = facts[bb] /\ Len(facts[bb]) = Exit(bb)
  BY <1>2, CheckedExit
<1>4. CheckedBody' = CheckedBody /\ Unaliased' = Unaliased /\ MP!Exit(bb)' = MP!Exit(bb)
  BY <1>1 DEF CheckedBody, Unaliased, MP!Exit
<1>5. status \in [Locals -> Status] /\ status[ReturnLocal] # "filled" /\ entry[bb] # MP!NoFlags
  BY DEF Performed
<1>6. status' \in [Locals -> Status]
  <2>1. \A p \in Locals : status[p] \in Status
    BY <1>5
  <2> QED BY <1>1, <2>1 DEF After, Status
<1>7. Unaliased \cap ev.written = {}
  BY <1>3 DEF Unaliased
<1>8. ReturnLocal \notin writes /\ ReturnLocal \in Locals
  BY <1>7, ReturnUnaliased, SizesFact
<1>9. status'[ReturnLocal] # "filled"
  <2> PICK act : act = [ev EXCEPT !.written = writes]
    OBVIOUS
  <2>1. act.written = writes
    BY <1>3 DEF Event
  <2>2. status'[ReturnLocal] = After(status[ReturnLocal], ReturnLocal, act)
    BY <1>1, <1>8
  <2> QED BY <1>5, <1>8, <2>1, <2>2 DEF After
<1>10. ASSUME NEW tr, MP!Trace(bb, entry[bb], MP!Exit(bb), tr) PROVE Seen(status', tr[pt + 1], Unaliased)
  <2>1. tr[pt + 1] = MP!Apply(ev, tr[pt])
    <3>1. pt \in 1 .. MP!Exit(bb) - 1
      BY <1>3
    <3> QED BY <1>3, <1>10, <3>1 DEF MP!Trace
  <2>2. Seen(status, tr[pt], Unaliased)
    BY <1>10 DEF Performed
  <2> PICK fl, plain : fl = tr[pt] /\ plain = Unaliased
    OBVIOUS
  <2>3. writes \subseteq ev.written /\ plain \cap ev.written = {} /\ Seen(status, fl, plain)
    BY <1>7, <2>2
  <2>4. Seen([p \in Locals |-> After(status[p], p, [ev EXCEPT !.written = writes])],
             MP!Apply(ev, fl), plain)
    BY ONLY <1>3, <1>5, <2>3, SeenStep
  <2> QED BY <1>1, <2>1, <2>4
<1>11. \A tr : MP!Trace(bb, entry[bb], MP!Exit(bb), tr)' => Seen(status', tr[pt'], Unaliased')
  BY <1>1, <1>4, <1>10 DEF MP!Trace
<1> QED BY <1>1, <1>5, <1>6, <1>9, <1>11 DEF Performed

LEMMA PerformedJump ==
  FactsInv /\ Handed /\ Followed /\ Performed /\ phase = "done" /\ Jump /\ UNCHANGED checkVars => Performed'
<1> SUFFICES ASSUME FactsInv, Handed, Followed, Performed, phase = "done", Jump, UNCHANGED checkVars
             PROVE  Performed'
  OBVIOUS
<1>1. /\ prog' = prog /\ facts' = facts /\ status' = status /\ entry' = entry /\ phase' = phase
      /\ pt' = 1 /\ pt = Len(prog.code[bb]) + 2
  BY DEF Jump, ptVars, checkVars, Statements
<1>2. stage = "facts" /\ MP!Inv
  BY DoneInv
<1>3. bb \in Blocks /\ MIR(prog)
  BY DEF Followed, FactsInv, Typed
<1>4. MP!Exit(bb) = Exit(bb) + 1 /\ CheckedBody.succ[bb] = prog.succ[bb]
  BY <1>2, <1>3, CheckedExit
<1>5. pt = MP!Exit(bb)
  BY <1>1, <1>3, <1>4, CodeType DEF Exit
<1>6. PICK k \in 1 .. Len(prog.succ[bb]) : bb' = prog.succ[bb][k]
  <2>1. PICK t \in ToSet(prog.succ[bb]) : bb' = t
    BY DEF Jump
  <2>2. prog.succ[bb] \in Seq(Blocks)
    BY <1>3, CodeType
  <2> QED BY <2>1, <2>2 DEF ToSet
<1>7. entry[bb] # MP!NoFlags
  BY DEF Performed
<1>8. PICK tr : /\ MP!Trace(bb, entry[bb], MP!Exit(bb), tr)
                /\ MP!Flows(tr[MP!Exit(bb)], bb, Len(CheckedBody.succ[bb]))
  <2>1. ~MP!Queued(bb)
    BY <1>2 DEF MP!Inv, MP!Scanned, MP!Queued
  <2>2. MP!Closed(bb)
    BY <1>2, <1>3, <1>7, <2>1, SameSets DEF MP!Inv, MP!AllClosed
  <2> QED BY <2>2 DEF MP!Closed, MP!Walked
<1>9. MP!Leq(tr[pt], entry[bb'])
  BY <1>4, <1>5, <1>6, <1>8 DEF MP!Flows
<1>10. Seen(status, entry[bb'], Unaliased)
  BY <1>5, <1>8, <1>9, SeenLeq DEF Performed
<1>11. entry[bb'] # MP!NoFlags
  BY <1>10, ReturnUnaliased, SeenSome DEF Performed
<1>12. CheckedBody' = CheckedBody /\ Unaliased' = Unaliased
  BY <1>1 DEF CheckedBody, Unaliased
<1>13. \A x : MP!Trace(bb, entry[bb], MP!Exit(bb), x)' => Seen(status', x[pt'], Unaliased')
  BY <1>1, <1>10, <1>12 DEF MP!Trace
<1> QED BY <1>1, <1>11, <1>13 DEF Performed

LEMMA PerformedStep ==
  FactsInv /\ Followed /\ Handed /\ Handed' /\ Performed /\ [MovesNext]_allMovesVars => Performed'
<1> SUFFICES ASSUME FactsInv, Followed, Handed, Handed', Performed, [MovesNext]_allMovesVars
             PROVE  Performed'
  OBVIOUS
<1>1. CASE Facts
  BY <1>1, PerformedFacts
<1>2. CASE Analyze
  BY <1>2, PerformedAnalyze
<1>3. CASE Execute /\ ExecStatement
  <2>1. phase = "done" /\ stage = "facts" /\ AtStatement /\ bb \in Blocks /\ MIR(prog)
    BY <1>3 DEF Execute, ExecStatement, Followed, FactsInv, Typed
  <2>2. pt \in 1 .. Exit(bb)
    <3>1. Len(prog.code[bb]) \in Nat /\ pt <= Len(prog.code[bb]) /\ pt \in Nat \ {0}
      BY <2>1, CodeType DEF AtStatement, Statements, Followed
    <3> QED BY <3>1 DEF Exit
  <2>3. Stored \subseteq facts[bb][pt].written
    BY <2>1, RecordedHere DEF StoresRecorded
  <2> QED BY <1>3, <2>1, <2>2, <2>3, PerformedPoint DEF Execute, ExecStatement
<1>4. CASE Execute /\ ExecTerminator
  <2>1. phase = "done" /\ stage = "facts" /\ pt = Len(Statements) + 1 /\ bb \in Blocks /\ MIR(prog)
    BY <1>4 DEF Execute, ExecTerminator, Followed, FactsInv, Typed
  <2>2. pt \in 1 .. Exit(bb)
    <3>1. Len(prog.code[bb]) \in Nat
      BY <2>1, CodeType
    <3> QED BY <2>1, <3>1 DEF Exit, Statements
  <2>3. Reachable \subseteq facts[bb][pt].written
    BY <2>1, RecordedHere DEF StoresRecorded
  <2>4. PICK hit \in SUBSET Reachable : Perform(hit)
    BY <1>4 DEF ExecTerminator
  <2>5. hit \subseteq facts[bb][pt].written
    BY <2>3
  <2> QED BY <1>4, <2>1, <2>2, <2>4, <2>5, PerformedPoint DEF Execute, ExecTerminator
<1>5. CASE Execute /\ Jump
  BY <1>5, PerformedJump DEF Execute
<1>6. CASE UNCHANGED allMovesVars
  <2>1. UNCHANGED <<prog, facts, bb, pt, status, entry, phase>>
    BY <1>6 DEF allMovesVars, ptVars, runVars, checkVars
  <2>2. CheckedBody' = CheckedBody /\ Unaliased' = Unaliased
    BY <2>1, <1>6 DEF CheckedBody, Unaliased
  <2> QED BY <2>1, <2>2 DEF Performed, MP!Trace, MP!Exit
<1> QED BY <1>1, <1>2, <1>3, <1>4, <1>5, <1>6 DEF MovesNext, Execute

LEMMA PerformedAlways == MovesSpec => []Performed
BY PerformedInit, PerformedStep, FactsInvariant, FollowedAlways, HandedAlways, PTL
   DEF MovesSpec, allMovesVars

-----------------------------------------------------------------------------
(* A local no pointer of the body is ever recorded to reach is reported at *)
(* the very point where an execution uses it uninitialised or moved,       *)
(* whatever its other pointers do and however often the blocks were walked. *)
THEOREM UnaliasedUsesAreReported == MovesSpec => []UnaliasedUsesReported
<1>1. FactsInv /\ Followed /\ Handed /\ Performed => UnaliasedUsesReported
  <2> SUFFICES ASSUME FactsInv, Followed, Handed, Performed, AtPoint, NEW v \in Unaliased, Wrong(v)
               PROVE  Reported(v)
    BY DEF UnaliasedUsesReported, Unaliased
  <2>1. phase = "done" /\ bb \in Blocks /\ MIR(prog) /\ stage = "facts" /\ MP!Inv
    BY DoneInv DEF AtPoint, Followed, FactsInv, Typed
  <2>2. pt \in 1 .. Exit(bb)
    <3>1. Len(prog.code[bb]) \in Nat
      BY <2>1, CodeType
    <3> QED BY <3>1 DEF AtPoint, Statements, Followed, Exit
  <2> PICK ev : ev = facts[bb][pt]
    OBVIOUS
  <2>3. /\ ev \in Event /\ CheckedBody.points[bb] = facts[bb] /\ MP!Exit(bb) = Exit(bb) + 1
        /\ pt \in 1 .. MP!Exit(bb) - 1
    <3>1. Exit(bb) \in Nat /\ MP!Exit(bb) = Exit(bb) + 1
      BY <2>1, CheckedExit
    <3>2. MP!Exit(bb) - 1 = Exit(bb)
      BY <3>1
    <3> QED BY <2>1, <2>2, <3>1, <3>2, CheckedExit
  <2>4. ~MP!Queued(bb)
    BY <2>1 DEF MP!Inv, MP!Scanned, MP!Queued
  <2>5. MP!Closed(bb)
    BY <2>1, <2>4, SameSets DEF MP!Inv, MP!AllClosed, Performed
  <2>6. PICK tr : MP!Walked(bb, MP!Exit(bb), tr)
    BY <2>5 DEF MP!Closed
  <2>7. Seen(status, tr[pt], Unaliased)
    BY <2>1, <2>6 DEF Performed, MP!Walked
  <2>8. v \in Locals \cap Unaliased /\ IsMoveError(status[v], v, ev)
    BY DEF Wrong, Unaliased
  <2>9. PICK kind \in {"Moved", "Uninit"} : <<v, kind>> \in MP!ErrorsAt(ev, tr[pt])
    BY <2>3, <2>7, <2>8, WrongReported
  <2>10. MP!Recorded(bb, pt, tr[pt])
    BY <2>3, <2>6 DEF MP!Walked
  <2>11. <<bb, pt, v, kind>> \in errors
    BY <2>3, <2>9, <2>10 DEF MP!Recorded
  <2> QED BY <2>11 DEF Reported
<1> QED BY <1>1, FactsInvariant, FollowedAlways, HandedAlways, PerformedAlways, PTL

(* A droppable value an execution still owns when it returns has been      *)
(* reported as leaked, even if pointers have written over it on the way: a *)
(* write through a pointer takes no ownership away.                        *)
THEOREM OwnedLeaksAreReported == MovesSpec => []OwnedLeaksReported
<1>1. FactsInv /\ Followed /\ Handed /\ Performed => OwnedLeaksReported
  <2> SUFFICES ASSUME FactsInv, Followed, Handed, Performed,
                      phase = "done", bb \in CheckedBody.returns, pt = Len(Statements) + 2,
                      NEW v \in prog.needsDrop \ {ReturnLocal}, status[v] = "owned"
               PROVE  \E l \in leaks : l[1] = v
    BY DEF OwnedLeaksReported
  <2>1. bb \in Blocks /\ MIR(prog) /\ stage = "facts" /\ MP!Inv
    BY DoneInv DEF Followed, FactsInv, Typed
  <2>2. pt = MP!Exit(bb)
    <3>1. Len(prog.code[bb]) \in Nat /\ MP!Exit(bb) = Exit(bb) + 1
      BY <2>1, CodeType, CheckedExit
    <3> QED BY <3>1 DEF Statements, Exit
  <2>3. bb < blk
    <3>1. blk = NumBlocks
      BY <2>1 DEF MP!Inv, MP!Scanned
    <3>2. bb \in 0 .. NumBlocks - 1
      BY <2>1 DEF Blocks
    <3> QED BY <3>1, <3>2, BodySizeAssumption
  <2>4. PICK tr : MP!Trace(bb, entry[bb], MP!Exit(bb), tr) /\ MP!LeaksOf(tr[MP!Exit(bb)])
    BY <2>1, <2>3 DEF MP!Inv, MP!Scanned
  <2>5. Seen(status, tr[pt], Unaliased)
    BY <2>2, <2>4 DEF Performed
  <2>6. v \in Locals
    BY <2>1 DEF MIR, Program
  <2>7. v \in (tr[pt].owned \cap CheckedBody.needsDrop) \ {MP!ReturnLocal}
    BY <2>5, <2>6, SameSets DEF Seen, CheckedBody
  <2> QED BY <2>2, <2>4, <2>7 DEF MP!LeaksOf
<1> QED BY <1>1, FactsInvariant, FollowedAlways, HandedAlways, PerformedAlways, PTL

-----------------------------------------------------------------------------
(***************************************************************************)
(* Paths.  PathEntries is the least set that holds the starts and is       *)
(* closed under edges; the converged entries are such a set, and whatever  *)
(* the analysis has at any time some path brings.                          *)
(***************************************************************************)
LEMMA WithinItself == ASSUME NEW w PROVE Within(w, w)
BY DEF Within

LEMMA AssignedType ==
  ASSUME NEW w \in PointsToState, NEW s \in Statement PROVE Assigned(w, s) \in PointsToState
BY WithinItself, AssignedWithin

(* The states of a path through the first n statements of a block.         *)
Carries(f, b, w, n, h) ==
  /\ h \in [0 .. n -> PointsToState]
  /\ h[0] = w
  /\ \A i \in 0 .. n - 1 : h[i + 1] = Assigned(h[i], f.code[b][i + 1])

Steps(f, b, w, n, g) ==
  g[0] = w /\ \A i \in 0 .. n - 1 : g[i + 1] = Assigned(g[i], f.code[b][i + 1])

LEMMA CarriesSome ==
  ASSUME NEW f, MIR(f), NEW b \in Blocks, NEW w \in PointsToState, NEW n \in 0 .. Len(f.code[b])
  PROVE  \E h : Carries(f, b, w, n, h)
<1> DEFINE step == [a \in (0 .. n - 1) \X PointsToState |-> Assigned(a[2], f.code[b][a[1] + 1])]
<1>1. n \in Nat /\ \A i \in 0 .. n - 1 : i + 1 \in 1 .. Len(f.code[b])
  BY CodeType
<1>2. step \in [(0 .. n - 1) \X PointsToState -> PointsToState]
  <2> SUFFICES ASSUME NEW a \in (0 .. n - 1) \X PointsToState
               PROVE  Assigned(a[2], f.code[b][a[1] + 1]) \in PointsToState
    OBVIOUS
  <2>1. a[2] \in PointsToState /\ f.code[b][a[1] + 1] \in Statement
    BY <1>1, StatementIn
  <2> QED BY <2>1, AssignedType
<1>3. \A i \in 0 .. n - 1 : \A u \in PointsToState : step[<<i, u>>] = Assigned(u, f.code[b][i + 1])
  OBVIOUS
<1> HIDE DEF step
<1>4. PICK h : Unfolds(h, n, PointsToState, w, step)
  BY <1>1, <1>2, Unfolding
<1>5. h \in [0 .. n -> PointsToState] /\ h[0] = w
  BY <1>4 DEF Unfolds
<1>6. ASSUME NEW i \in 0 .. n - 1 PROVE h[i + 1] = Assigned(h[i], f.code[b][i + 1])
  <2>1. h[i] \in PointsToState
    BY <1>1, <1>5
  <2>2. h[i + 1] = step[<<i, h[i]>>]
    BY <1>4 DEF Unfolds
  <2> QED BY <1>3, <2>1, <2>2
<1> QED BY <1>5, <1>6 DEF Carries

LEMMA CarriesOne ==
  ASSUME NEW f, NEW b, NEW w, NEW n \in Nat, NEW g, NEW h, Carries(f, b, w, n, h), Steps(f, b, w, n, g)
  PROVE  g[n] = h[n]
<1> DEFINE T == {i \in 0 .. n : g[i] = h[i]}
<1>1. 0 \in T
  BY DEF Carries, Steps
<1>2. ASSUME NEW i \in 0 .. n - 1, i \in T PROVE i + 1 \in T
  <2>1. g[i] = h[i] /\ i + 1 \in 0 .. n
    BY <1>2
  <2> QED BY <2>1 DEF Carries, Steps
<1> HIDE DEF T
<1>3. 0 .. n \subseteq T
  BY <1>1, <1>2, UpTo
<1>4. n \in T
  BY <1>3
<1> QED BY <1>4 DEF T

LEMMA AlongIs ==
  ASSUME NEW f, MIR(f), NEW b \in Blocks, NEW w \in PointsToState,
         NEW h, Carries(f, b, w, Len(f.code[b]), h)
  PROVE  AlongBlock(f, w, b) = h[Len(f.code[b])]
<1> DEFINE n == Len(f.code[b])
           Is(g) == g = [i \in 0 .. n |-> IF i = 0 THEN w ELSE Assigned(g[i - 1], f.code[b][i])]
           way == CHOOSE g : Is(g)
<1>1. n \in Nat
  BY CodeType
<1>2. AlongBlock(f, w, b) = way[n]
  BY DEF AlongBlock
<1> HIDE DEF n
<1>3. Is(h)
  <2>1. h \in [0 .. n -> PointsToState] /\ h[0] = w
    BY DEF Carries, n
  <2>2. ASSUME NEW i \in 0 .. n
        PROVE  h[i] = IF i = 0 THEN w ELSE Assigned(h[i - 1], f.code[b][i])
    <3>1. CASE i = 0
      BY <2>1, <3>1
    <3>2. CASE i # 0
      <4>1. i - 1 \in 0 .. n - 1 /\ (i - 1) + 1 = i
        BY <1>1, <3>2
      <4> QED BY <3>2, <4>1 DEF Carries, n
    <3> QED BY <3>1, <3>2
  <2> QED BY <2>1, <2>2
<1>4. Is(way)
  <2> HIDE DEF Is
  <2> QED BY <1>3
<1> HIDE DEF way
<1>5. way[0] = w /\ \A k \in 0 .. n - 1 : way[k + 1] = Assigned(way[k], f.code[b][k + 1])
  <2>1. 0 \in 0 .. n /\ \A k \in 0 .. n - 1 : k + 1 \in 0 .. n /\ k + 1 # 0 /\ (k + 1) - 1 = k
    BY <1>1
  <2> QED BY <1>4, <2>1
<1> HIDE DEF Is
<1>6. way[n] = h[n]
  <2>1. Carries(f, b, w, n, h)
    BY DEF n
  <2>2. Steps(f, b, w, n, way)
    BY <1>5 DEF Steps
  <2> QED BY <1>1, <2>1, <2>2, CarriesOne
<1> QED BY <1>2, <1>6 DEF n

LEMMA AlongType ==
  ASSUME NEW f, MIR(f), NEW b \in Blocks, NEW w \in PointsToState
  PROVE  AlongBlock(f, w, b) \in PointsToState
<1>1. Len(f.code[b]) \in Nat
  BY CodeType
<1>2. PICK h : Carries(f, b, w, Len(f.code[b]), h)
  BY <1>1, CarriesSome
<1>3. h[Len(f.code[b])] \in PointsToState
  BY <1>1, <1>2 DEF Carries
<1> QED BY <1>2, <1>3, AlongIs

Entries == Blocks \X PointsToState

LEMMA EntriesFinite == IsFiniteSet(Entries)
<1> DEFINE graph == [w \in PointsToState |-> {e \in Locals \X Locals : e[2] \in w[e[1]]}]
<1>1. IsFiniteSet(Blocks) /\ IsFiniteSet(Locals)
  BY FS_Interval, BodySizeAssumption DEF Blocks, Locals
<1>2. IsFiniteSet(SUBSET (Locals \X Locals))
  BY <1>1, FS_Product, FS_SUBSET
<1>3. graph \in [PointsToState -> SUBSET (Locals \X Locals)]
  OBVIOUS
<1>4. ASSUME NEW w \in PointsToState, NEW u \in PointsToState, graph[w] = graph[u] PROVE w = u
  <2>1. ASSUME NEW v \in Locals PROVE w[v] = u[v]
    <3>1. ASSUME NEW a \in Locals PROVE a \in w[v] <=> a \in u[v]
      <4>1. <<v, a>> \in graph[w] <=> a \in w[v]
        OBVIOUS
      <4>2. <<v, a>> \in graph[u] <=> a \in u[v]
        OBVIOUS
      <4> QED BY <1>4, <4>1, <4>2
    <3>2. w[v] \subseteq Locals /\ u[v] \subseteq Locals
      BY DEF PointsToState
    <3> QED BY <3>1, <3>2
  <2> QED BY <2>1 DEF PointsToState
<1> HIDE DEF graph
<1>5. graph \in Injection(PointsToState, SUBSET (Locals \X Locals))
  BY <1>3, <1>4 DEF Injection, IsInjective
<1>6. IsFiniteSet(PointsToState)
  BY <1>2, <1>5, FS_Injection
<1> QED BY <1>1, <1>6, FS_Product DEF Entries

LEMMA OnwardType ==
  ASSUME NEW f, MIR(f), NEW r \in SUBSET Entries PROVE Onward(f, r) \in SUBSET Entries
<1> SUFFICES ASSUME NEW e \in r, NEW t \in ToSet(f.succ[e[1]]) PROVE <<t, AlongBlock(f, e[2], e[1])>> \in Entries
  BY DEF Onward
<1>1. e[1] \in Blocks /\ e[2] \in PointsToState
  BY DEF Entries
<1>2. t \in Blocks
  BY <1>1, CodeType, Member
<1> QED BY <1>1, <1>2, AlongType DEF Entries

LEMMA StartsType == Starts \in SUBSET Entries
BY NothingTracked DEF Starts, Entries, Targets

LEMMA PathEntriesLeast ==
  ASSUME NEW f, MIR(f)
  PROVE  /\ PathEntries(f) \in SUBSET Entries /\ Starts \subseteq PathEntries(f)
         /\ Onward(f, PathEntries(f)) = PathEntries(f)
         /\ \A c \in SUBSET Entries : Starts \subseteq c /\ Onward(f, c) = c => PathEntries(f) \subseteq c
<1> DEFINE on == [r \in SUBSET Entries |-> Onward(f, r)]
           Is(p) == p = [r \in SUBSET Entries |-> IF Onward(f, r) = r THEN r ELSE p[Onward(f, r)]]
           paths == CHOOSE p : Is(p)
<1>1. Grows(Entries, on)
  <2>1. on \in [SUBSET Entries -> SUBSET Entries]
    BY OnwardType
  <2>2. \A r \in SUBSET Entries : r \subseteq on[r]
    BY DEF Onward
  <2>3. \A r, c \in SUBSET Entries : r \subseteq c => on[r] \subseteq on[c]
    BY DEF Onward
  <2> HIDE DEF on
  <2> QED BY <2>1, <2>2, <2>3, EntriesFinite DEF Grows
<1>2. PathEntries(f) = paths[Starts]
  BY DEF PathEntries, Entries
<1>3. \A p : Closing(Entries, on, p) <=> Is(p)
  <2> SUFFICES ASSUME NEW p PROVE Closing(Entries, on, p) <=> Is(p)
    OBVIOUS
  <2>1. [r \in SUBSET Entries |-> IF on[r] = r THEN r ELSE p[on[r]]]
        = [r \in SUBSET Entries |-> IF Onward(f, r) = r THEN r ELSE p[Onward(f, r)]]
    OBVIOUS
  <2> QED BY <2>1 DEF Closing
<1>4. \A r \in SUBSET Entries : on[r] = Onward(f, r)
  OBVIOUS
<1> HIDE DEF Is, on
<1>5. Is(paths)
  BY <1>1, <1>3, ClosingExists
<1> HIDE DEF paths
<1>6. IsClosure(Entries, on, Starts, paths[Starts])
  BY <1>1, <1>3, <1>5, StartsType, ClosingCloses
<1> QED BY <1>2, <1>4, <1>6 DEF IsClosure

(* What every path brings is among the targets once the worklist is empty. *)
LEMMA ClosedFlows ==
  ASSUME FactsInv, NEW b \in Blocks, ClosedBlock(b), NEW w \in PointsToState, Within(w, ptEntry[b]),
         NEW t \in ToSet(prog.succ[b])
  PROVE  Within(AlongBlock(prog, w, b), ptEntry[t])
<1> PICK n : n = Len(prog.code[b])
  OBVIOUS
<1>1. MIR(prog) /\ n \in Nat /\ Exit(b) = n + 1 /\ n \in 0 .. Len(prog.code[b])
  BY CodeType DEF FactsInv, Typed, Exit
<1>2. PICK tr : Track(b, ptEntry[b], n + 1, tr) /\ FlowsInto(tr[n + 1], b, Len(prog.succ[b]))
  BY <1>1 DEF ClosedBlock
<1>3. PICK h : Carries(prog, b, w, n, h)
  BY <1>1, CarriesSome
<1> DEFINE T == {i \in 0 .. n : Within(h[i], tr[i + 1])}
<1>4. 0 \in T
  BY <1>1, <1>2, <1>3 DEF Carries, Track
<1>5. ASSUME NEW i \in 0 .. n - 1, i \in T PROVE i + 1 \in T
  <2>1. i + 1 \in 1 .. n /\ i \in 0 .. n /\ i + 1 \in 0 .. n /\ i + 1 \in 1 .. n + 1
        /\ i + 1 \in 1 .. (n + 1) - 1
    BY <1>1
  <2>2. /\ h[i] \in PointsToState /\ tr[i + 1] \in PointsToState /\ Within(h[i], tr[i + 1])
        /\ h[i + 1] = Assigned(h[i], prog.code[b][i + 1])
        /\ tr[(i + 1) + 1] = AssignPointsTo(tr[i + 1], prog.code[b][i + 1])
    BY <1>2, <1>3, <1>5, <2>1 DEF Carries, Track
  <2>3. prog.code[b][i + 1] \in Statement
    BY <1>1, <2>1, StatementIn
  <2>4. Within(h[i + 1], tr[(i + 1) + 1])
    BY <2>2, <2>3, AssignedWithin
  <2> QED BY <2>1, <2>4
<1> HIDE DEF T
<1>6. 0 .. n \subseteq T
  BY <1>1, <1>4, <1>5, UpTo
<1>7. Within(h[n], tr[n + 1])
  BY <1>1, <1>6 DEF T
<1>8. PICK k \in 1 .. Len(prog.succ[b]) : t = prog.succ[b][k]
  BY <1>1, CodeType DEF ToSet
<1>9. Within(tr[n + 1], ptEntry[t])
  BY <1>2, <1>8 DEF FlowsInto
<1>10. AlongBlock(prog, w, b) = h[n]
  BY <1>1, <1>3, AlongIs
<1> QED BY <1>7, <1>9, <1>10, WithinTrans

LEMMA PathsWithin ==
  ASSUME FactsInv, Converged, NEW e \in PathEntries(prog)
  PROVE  e[1] \in Blocks /\ e[2] \in PointsToState /\ Within(e[2], ptEntry[e[1]])
<1> DEFINE C == {n \in Entries : Within(n[2], ptEntry[n[1]])}
<1>1. MIR(prog)
  BY DEF FactsInv, Typed
<1>2. Starts \subseteq C
  BY StartsType DEF Starts, NothingKnown, Within
<1>3. Onward(prog, C) = C
  <2> SUFFICES ASSUME NEW n \in C, NEW t \in ToSet(prog.succ[n[1]]) PROVE <<t, AlongBlock(prog, n[2], n[1])>> \in C
    BY DEF Onward
  <2>1. n[1] \in Blocks /\ n[2] \in PointsToState /\ Within(n[2], ptEntry[n[1]])
    BY DEF Entries
  <2>2. Within(AlongBlock(prog, n[2], n[1]), ptEntry[t])
    BY <2>1, ClosedAtEnd, ClosedFlows DEF Converged
  <2>3. t \in Blocks /\ AlongBlock(prog, n[2], n[1]) \in PointsToState
    BY <1>1, <2>1, CodeType, Member, AlongType
  <2> QED BY <2>2, <2>3 DEF Entries
<1>4. C \in SUBSET Entries
  OBVIOUS
<1> HIDE DEF C
<1>5. e \in C
  BY <1>1, <1>2, <1>3, <1>4, PathEntriesLeast
<1> QED BY <1>5 DEF C, Entries

(* Every path's targets at every block are among those the worklist ended  *)
(* with, whatever the body: compute_points_to forgets nothing.             *)
THEOREM PathsAlwaysCovered == MovesSpec => []PathsCovered
<1>1. FactsInv => PathsCovered
  <2> SUFFICES ASSUME FactsInv, Converged, NEW b \in Blocks, NEW v \in Locals, NEW u \in PathTargets[b][v]
               PROVE  u \in ptEntry[b][v]
    BY DEF PathsCovered
  <2>1. PICK e \in PathEntries(prog) : e[1] = b /\ u \in e[2][v]
    BY DEF PathTargets
  <2> QED BY <2>1, PathsWithin DEF Within
<1> QED BY <1>1, FactsInvariant, PTL

-----------------------------------------------------------------------------
(* Some path brings x to v before statement n + 1 of block b.              *)
Comes(f, b, n, v, x) ==
  \E e, h : /\ e \in PathEntries(f) /\ e[1] = b
           /\ Carries(f, b, e[2], n, h) /\ x \in h[n][v]

LEMMA StartComes ==
  ASSUME NEW f, MIR(f), NEW b \in Blocks, NEW n \in 0 .. Len(f.code[b])
  PROVE  \E e, h : e \in PathEntries(f) /\ e[1] = b /\ Carries(f, b, e[2], n, h)
<1>1. <<b, NothingKnown>> \in PathEntries(f) /\ NothingKnown \in PointsToState
  BY PathEntriesLeast, NothingTracked DEF Starts, Targets
<1>2. PICK h : Carries(f, b, NothingKnown, n, h)
  BY <1>1, CarriesSome
<1>3. PICK e : e = <<b, NothingKnown>>
  OBVIOUS
<1> QED BY <1>1, <1>2, <1>3

LEMMA CarriesFurther ==
  ASSUME NEW f, MIR(f), NEW b \in Blocks, NEW w \in PointsToState, NEW n \in 0 .. Len(f.code[b]) - 1,
         NEW h, Carries(f, b, w, n, h)
  PROVE  \E g : Carries(f, b, w, n + 1, g) /\ g[n + 1] = Assigned(h[n], f.code[b][n + 1])
                /\ h[n] \in PointsToState
<1>1. n \in Nat /\ n + 1 \in 0 .. Len(f.code[b]) /\ n + 1 \in Nat /\ (n + 1) - 1 = n
  BY CodeType
<1>2. PICK g : Carries(f, b, w, n + 1, g)
  BY <1>1, CarriesSome
<1>3. g[0] = w /\ \A i \in 0 .. n : g[i + 1] = Assigned(g[i], f.code[b][i + 1])
  BY <1>1, <1>2 DEF Carries
<1>4. \A i \in 0 .. n - 1 : i \in 0 .. n
  BY <1>1
<1>5. g[n] = h[n]
  <2>1. Steps(f, b, w, n, g)
    BY <1>3, <1>4 DEF Steps
  <2> QED BY <1>1, <2>1, CarriesOne
<1>6. n \in 0 .. n
  BY <1>1
<1>7. h[n] \in PointsToState
  BY <1>6 DEF Carries
<1> QED BY <1>2, <1>3, <1>5, <1>6, <1>7

(* A target the analysis gives an assignment has one of two origins, and   *)
(* either gives it to the assignment's meaning.                            *)
Follows(s) == s.kind = "ref" => \A op \in ToSet(s.from) : op.place.shape \in {"plain", "field", "deref"}

LEMMA TargetComes ==
  ASSUME NEW s \in Statement, Follows(s), NEW pts \in PointsToState, NEW x \in NewTargets(pts, s)
  PROVE  \/ \A w \in PointsToState : x \in Value(w, s)
         \/ \E u \in Locals : x \in pts[u] /\ \A w \in PointsToState : x \in w[u] => x \in Value(w, s)
<1> DEFINE Goes(op) == CASE s.kind = "use" -> UNION { pts[u] : u \in AsLocal(op.place) }
                         [] s.kind = "ref" -> IF DerefPointer(op.place) = {} THEN {op.place.local}
                                              ELSE pts[op.place.local]
                         [] OTHER          -> {}
           From(w, pl) == CASE <<s.kind, pl.shape>> \in {<<"ref", "plain">>, <<"ref", "field">>} -> {pl.local}
                            [] <<s.kind, pl.shape>> \in {<<"ref", "deref">>, <<"use", "plain">>} -> w[pl.local]
                            [] OTHER -> {}
<1>1. PICK op \in ToSet(s.from) : x \in Goes(op)
  BY DEF NewTargets
<1>2. PICK pl, a : pl = op.place /\ a = pl.local
  OBVIOUS
<1>3. a \in Locals
  BY <1>2, OperandsIn DEF Statement
<1>4. \A w : \A y \in From(w, pl) : y \in Value(w, s)
  BY <1>2 DEF Value
<1>5. CASE s.kind = "use"
  <2>1. x \in UNION { pts[u] : u \in AsLocal(pl) }
    BY <1>1, <1>2, <1>5
  <2>2. pl.shape = "plain" /\ x \in pts[a]
    BY <1>2, <2>1 DEF AsLocal
  <2>3. \A w : From(w, pl) = w[a]
    BY <1>2, <1>5, <2>2
  <2> HIDE DEF From
  <2> QED BY <1>3, <1>4, <2>2, <2>3
<1>6. CASE s.kind = "ref" /\ pl.shape \in {"plain", "field"}
  <2>1. x = a
    BY <1>1, <1>2, <1>6 DEF DerefPointer
  <2>2. \A w : From(w, pl) = {a}
    BY <1>2, <1>6
  <2> HIDE DEF From
  <2> QED BY <1>4, <2>1, <2>2
<1>7. CASE s.kind = "ref" /\ pl.shape = "deref"
  <2>1. x \in pts[a]
    BY <1>1, <1>2, <1>7 DEF DerefPointer
  <2>2. \A w : From(w, pl) = w[a]
    BY <1>2, <1>7
  <2> HIDE DEF From
  <2> QED BY <1>3, <1>4, <2>1, <2>2
<1>8. s.kind = "use" \/ s.kind = "ref"
  BY <1>1
<1>9. s.kind = "ref" => pl.shape \in {"plain", "field"} \/ pl.shape = "deref"
  BY <1>2 DEF Follows
<1> QED BY <1>5, <1>6, <1>7, <1>8, <1>9

(* One statement: what it leaves a pointer with, some path does too.       *)
LEMMA StatementComes ==
  ASSUME NEW f, MIR(f), AddressesFollowed(f), NEW b \in Blocks, NEW n \in 0 .. Len(f.code[b]) - 1,
         NEW pts \in PointsToState, \A v \in Locals : \A x \in pts[v] : Comes(f, b, n, v, x),
         NEW v \in Locals, NEW x \in AssignPointsTo(pts, f.code[b][n + 1])[v]
  PROVE  Comes(f, b, n + 1, v, x)
<1> PICK s : s = f.code[b][n + 1]
  OBVIOUS
<1>1. n + 1 \in 1 .. Len(f.code[b]) /\ n \in 0 .. Len(f.code[b])
  BY CodeType
<1>2. s \in Statement /\ s \in ToSet(f.code[b])
  BY <1>1, StatementIn
<1>3. Follows(s) /\ s.dst.local \in Locals
  BY <1>2 DEF Follows, AddressesFollowed, Statement, Place
<1>4. ASSUME NEW e \in PathEntries(f), NEW h, e[1] = b, Carries(f, b, e[2], n, h),
             h[n] \in PointsToState => x \in Assigned(h[n], s)[v]
      PROVE  Comes(f, b, n + 1, v, x)
  <2>1. e[2] \in PointsToState
    BY PathEntriesLeast DEF Entries
  <2>2. PICK g : /\ Carries(f, b, e[2], n + 1, g) /\ g[n + 1] = Assigned(h[n], s)
                 /\ h[n] \in PointsToState
    BY <1>4, <2>1, CarriesFurther
  <2> QED BY <1>4, <2>2 DEF Comes
<1>5. CASE s.dst.shape = "plain" /\ s.dst.local \in Pointers /\ v = s.dst.local
  <2>1. x \in NewTargets(pts, s)
    BY <1>3, <1>5 DEF AssignPointsTo, AsLocal, PointsToState
  <2>2. \A w \in PointsToState : Assigned(w, s)[v] = Value(w, s)
    BY <1>3, <1>5 DEF Assigned, PointsToState
  <2>3. CASE \A w \in PointsToState : x \in Value(w, s)
    <3>1. PICK e, h : e \in PathEntries(f) /\ e[1] = b /\ Carries(f, b, e[2], n, h)
      BY <1>1, StartComes
    <3> QED BY <1>4, <2>2, <2>3, <3>1
  <2>4. CASE \E u \in Locals : x \in pts[u] /\ \A w \in PointsToState : x \in w[u] => x \in Value(w, s)
    <3>1. PICK u \in Locals : x \in pts[u] /\ \A w \in PointsToState : x \in w[u] => x \in Value(w, s)
      BY <2>4
    <3>2. PICK e, h : e \in PathEntries(f) /\ e[1] = b /\ Carries(f, b, e[2], n, h) /\ x \in h[n][u]
      BY <3>1 DEF Comes
    <3> QED BY <1>4, <2>2, <3>1, <3>2
  <2> QED BY <1>2, <1>3, <2>1, <2>3, <2>4, TargetComes
<1>6. CASE ~(s.dst.shape = "plain" /\ s.dst.local \in Pointers /\ v = s.dst.local)
  <2>1. x \in pts[v]
    BY <1>6 DEF AssignPointsTo, AsLocal, PointsToState
  <2>2. \A w \in PointsToState : Assigned(w, s)[v] = w[v]
    BY <1>6 DEF Assigned, PointsToState
  <2>3. PICK e, h : e \in PathEntries(f) /\ e[1] = b /\ Carries(f, b, e[2], n, h) /\ x \in h[n][v]
    BY <2>1 DEF Comes
  <2> QED BY <1>4, <2>2, <2>3
<1> QED BY <1>5, <1>6

(* One edge.                                                               *)
LEMMA EdgeComes ==
  ASSUME NEW f, MIR(f), NEW b \in Blocks, NEW t \in ToSet(f.succ[b]), NEW v, NEW x,
         Comes(f, b, Len(f.code[b]), v, x)
  PROVE  Comes(f, t, 0, v, x)
<1> PICK n : n = Len(f.code[b])
  OBVIOUS
<1>1. PICK e, h : e \in PathEntries(f) /\ e[1] = b /\ Carries(f, b, e[2], n, h) /\ x \in h[n][v]
  BY DEF Comes
<1>2. e[2] \in PointsToState
  BY <1>1, PathEntriesLeast DEF Entries
<1>3. AlongBlock(f, e[2], b) = h[n] /\ h[n] \in PointsToState
  BY <1>1, <1>2, AlongIs, AlongType
<1>4. PICK next2 : next2 = <<t, AlongBlock(f, e[2], e[1])>>
  OBVIOUS
<1>5. next2 \in Onward(f, PathEntries(f))
  BY <1>1, <1>4 DEF Onward
<1>6. next2 \in PathEntries(f) /\ next2[1] = t /\ next2[2] = h[n]
  BY <1>1, <1>3, <1>4, <1>5, PathEntriesLeast
<1>7. t \in Blocks /\ 0 \in 0 .. Len(f.code[t])
  BY CodeType, Member
<1>8. PICK g : Carries(f, t, h[n], 0, g)
  BY <1>3, <1>7, CarriesSome
<1>9. g[0] = h[n]
  BY <1>8 DEF Carries
<1> QED BY <1>1, <1>6, <1>8, <1>9 DEF Comes

(***************************************************************************)
(* Whatever the analysis has, at any time, some path brings.               *)
(***************************************************************************)
OnPaths ==
  /\ AddressesFollowed(prog)
  /\ \A b \in Blocks : \A v \in Locals : \A x \in ptEntry[b][v] : Comes(prog, b, 0, v, x)
  /\ stage = "walk" => \A v \in Locals : \A x \in pointsTo[v] : Comes(prog, block, next - 1, v, x)
  /\ stage = "edges" =>
       \A v \in Locals : \A x \in pointsTo[v] : Comes(prog, block, Len(prog.code[block]), v, x)

LEMMA OnPathsInit == (\A f \in Programs : AddressesFollowed(f)) /\ FactsInit => OnPaths
BY DEF FactsInit, NothingKnown, OnPaths

LEMMA OnPathsPop == Typed /\ OnPaths /\ PopBlock => OnPaths'
<1> SUFFICES ASSUME Typed, OnPaths, PopBlock PROVE OnPaths'
  OBVIOUS
<1>1. /\ prog' = prog /\ ptEntry' = ptEntry /\ stage' = "walk" /\ next' - 1 = 0
      /\ pointsTo' = ptEntry[block']
  BY DEF PopBlock
<1>2. block' \in Blocks
  BY PopTyped DEF Typed, PopBlock
<1> QED BY <1>1, <1>2 DEF OnPaths

LEMMA OnPathsWalk == Typed /\ OnPaths /\ Walk => OnPaths'
<1> SUFFICES ASSUME Typed, OnPaths, Walk PROVE OnPaths'
  OBVIOUS
<1>1. /\ prog' = prog /\ ptEntry' = ptEntry /\ stage = "walk" /\ stage' = "walk" /\ next' = next + 1
      /\ block' = block /\ next <= Len(prog.code[block])
      /\ pointsTo' = AssignPointsTo(pointsTo, prog.code[block][next])
  BY DEF Walk
<1>2. /\ MIR(prog) /\ block \in Blocks /\ next \in Nat \ {0} /\ Len(prog.code[block]) \in Nat
      /\ pointsTo \in PointsToState
  BY CodeType DEF Typed, Targets
<1>3. PICK n : n = next - 1 /\ n + 1 = next /\ next' - 1 = n + 1 /\ n \in 0 .. Len(prog.code[block]) - 1
  BY <1>1, <1>2
<1>4. \A v \in Locals : \A x \in pointsTo[v] : Comes(prog, block, n, v, x)
  BY <1>1, <1>3 DEF OnPaths
<1>5. \A v \in Locals : \A x \in pointsTo'[v] : Comes(prog, block, n + 1, v, x)
  BY <1>1, <1>2, <1>3, <1>4, StatementComes DEF OnPaths
<1> QED BY <1>1, <1>3, <1>5 DEF OnPaths

LEMMA OnPathsLeave == Typed /\ Counted /\ OnPaths /\ LeaveBlock => OnPaths'
<1> SUFFICES ASSUME Typed, Counted, OnPaths, LeaveBlock PROVE OnPaths'
  OBVIOUS
<1>1. /\ prog' = prog /\ ptEntry' = ptEntry /\ stage = "walk" /\ stage' = "edges" /\ block' = block
      /\ pointsTo' = pointsTo /\ next > Len(prog.code[block])
  BY DEF LeaveBlock
<1>2. block \in Blocks /\ next \in Nat \ {0} /\ Len(prog.code[block]) \in Nat
  BY CodeType DEF Typed
<1>3. next \in 1 .. Len(prog.code[block]) + 1
  BY <1>1 DEF Counted, Exit
<1>4. next - 1 = Len(prog.code[block])
  BY <1>1, <1>2, <1>3
<1> QED BY <1>1, <1>4 DEF OnPaths

LEMMA OnPathsMerge == Typed /\ OnPaths /\ MergeEdge => OnPaths'
<1> SUFFICES ASSUME Typed, OnPaths, MergeEdge PROVE OnPaths'
  OBVIOUS
<1> PICK t : t = prog.succ[block][next]
  OBVIOUS
<1>1. /\ prog' = prog /\ stage = "edges" /\ stage' = "edges" /\ block' = block /\ pointsTo' = pointsTo
      /\ next <= Len(prog.succ[block])
      /\ ptEntry' = [ptEntry EXCEPT ![t] = Merge(ptEntry[t], pointsTo)]
  BY DEF MergeEdge
<1>2. MIR(prog) /\ block \in Blocks /\ next \in 1 .. Len(prog.succ[block]) /\ ptEntry \in [Blocks -> Targets]
  BY <1>1, CodeType DEF Typed
<1>3. t \in Blocks /\ t \in ToSet(prog.succ[block])
  BY <1>2, EdgeIn, CodeType DEF ToSet
<1>4. ASSUME NEW b \in Blocks, NEW v \in Locals, NEW x \in ptEntry'[b][v] PROVE Comes(prog, b, 0, v, x)
  <2>1. CASE x \in ptEntry[b][v]
    BY <2>1 DEF OnPaths
  <2>2. CASE x \notin ptEntry[b][v]
    <3>1. b = t /\ x \in pointsTo[v]
      BY <1>1, <1>2, <2>2 DEF Merge
    <3>2. Comes(prog, block, Len(prog.code[block]), v, x)
      BY <1>1, <3>1 DEF OnPaths
    <3> QED BY <1>2, <1>3, <3>1, <3>2, EdgeComes
  <2> QED BY <2>1, <2>2
<1> QED BY <1>1, <1>4 DEF OnPaths

LEMMA OnPathsStep == Typed /\ Counted /\ OnPaths /\ [FactsNext]_ptVars => OnPaths'
<1> SUFFICES ASSUME Typed, Counted, OnPaths, [FactsNext]_ptVars PROVE OnPaths'
  OBVIOUS
<1>1. CASE UNCHANGED ptVars
  BY <1>1 DEF OnPaths, ptVars
<1>2. CASE EndBlock
  BY <1>2 DEF OnPaths, EndBlock
<1>3. CASE StartEmitting
  BY <1>3 DEF OnPaths, StartEmitting
<1>4. CASE EmitStatement
  BY <1>4 DEF OnPaths, EmitStatement
<1>5. CASE EmitTerminator
  BY <1>5 DEF OnPaths, EmitTerminator
<1> QED BY <1>1, <1>2, <1>3, <1>4, <1>5, OnPathsPop, OnPathsWalk, OnPathsLeave, OnPathsMerge DEF FactsNext

(* For bodies that take no address past a second pointer, joining at the   *)
(* entries of blocks loses nothing either: compute_points_to converges to  *)
(* exactly the targets of paths, however the worklist went.                *)
THEOREM PathsAlwaysExact ==
  ASSUME \A f \in Programs : AddressesFollowed(f)
  PROVE  MovesSpec => []PathsExact
<1>1. MovesInit => OnPaths
  BY OnPathsInit DEF MovesInit, PtRunInit
<1>2. Typed /\ Counted /\ OnPaths /\ [MovesNext]_<<ptVars, runVars, checkVars>> => OnPaths'
  BY FactsStep, OnPathsStep
<1>3. MovesSpec => []OnPaths
  BY <1>1, <1>2, TypedAlways, PTL DEF MovesSpec
<1>4. FactsInv /\ OnPaths => PathsExact
  <2> SUFFICES ASSUME FactsInv, OnPaths, Converged PROVE ptEntry = PathTargets
    BY DEF PathsExact
  <2>1. ASSUME NEW b \in Blocks, NEW v \in Locals PROVE ptEntry[b][v] = PathTargets[b][v]
    <3>1. PathTargets[b][v] = UNION { e[2][v] : e \in { n \in PathEntries(prog) : n[1] = b } }
      BY DEF PathTargets
    <3>2. ASSUME NEW x \in ptEntry[b][v] PROVE \E e \in PathEntries(prog) : e[1] = b /\ x \in e[2][v]
      BY DEF OnPaths, Comes, Carries
    <3>3. ASSUME NEW e \in PathEntries(prog), e[1] = b PROVE e[2][v] \subseteq ptEntry[b][v]
      BY <3>3, PathsWithin DEF Within
    <3> QED BY <3>1, <3>2, <3>3
  <2>2. /\ ptEntry = [b \in Blocks |-> [v \in Locals |-> ptEntry[b][v]]]
        /\ PathTargets = [b \in Blocks |-> [v \in Locals |-> PathTargets[b][v]]]
    BY DEF FactsInv, Typed, Targets, PointsToState, PathTargets
  <2> QED BY <2>1, <2>2
<1> QED BY <1>3, <1>4, FactsInvariant, PTL

=============================================================================
