---------------------------- MODULE MoveDataflow ----------------------------
(***************************************************************************)
(* The data flow of the move checker: `analyze` of                         *)
(* src/co2_borrowck/src/check.rs.  A LIFO worklist of blocks, three bit    *)
(* sets per block entry joined by union, move errors recorded while the    *)
(* blocks are walked, and a last pass that replays every return block from *)
(* its converged entry state to report leaks.                              *)
(***************************************************************************)
EXTENDS MoveFacts, SequencesExt

VARIABLES
  body,        \* the body under analysis
  phase,       \* where analyze() is: see Phases
  worklist,    \* blocks to walk; the last one is popped
  entry,       \* in-state of every block
  blk, at,     \* the block being walked, and the next point or edge of it
  flags,       \* the state before that point
  lastAssign,  \* the last point seen to assign each local
  errors,      \* move errors <<b, i, local, kind>>
  leaks        \* leaks <<local, point blamed>>

vars == <<body, phase, worklist, entry, blk, at, flags, lastAssign, errors, leaks>>

Phases == {"pop", "points", "edges", "scan", "replay", "done"}

(* The state of the analysis at one place: possibly-uninitialised,         *)
(* possibly-moved and owned locals.                                        *)
Flags == [uninit : SUBSET Locals, moved : SUBSET Locals, owned : SUBSET Locals]
NoFlags == [uninit |-> {}, moved |-> {}, owned |-> {}]

EntryFlags(f) == [uninit |-> Locals \ f.args, moved |-> {}, owned |-> f.args]

(* Mutant: the out-state replaces the in-state of the successor.            *)
Join_Replace(x, y) == y

Join(x, y) == [uninit |-> x.uninit \cup y.uninit,
               moved  |-> x.moved \cup y.moved,
               owned  |-> x.owned \cup y.owned]

Leq(x, y) == /\ x.uninit \subseteq y.uninit
             /\ x.moved \subseteq y.moved
             /\ x.owned \subseteq y.owned

(* Mutants: a pointer write forgets to clear `moved`; it drops ownership.   *)
Apply_WriteKeepsMoved(ev, s) ==
  [uninit |-> (s.uninit \cup ev.moved) \ (ev.written \cup ev.assigned),
   moved  |-> (s.moved \cup ev.moved) \ ev.assigned,
   owned  |-> (s.owned \ ev.moved) \cup ev.assigned]
Apply_WriteDisowns(ev, s) ==
  [uninit |-> (s.uninit \cup ev.moved) \ (ev.written \cup ev.assigned),
   moved  |-> (s.moved \cup ev.moved) \ (ev.written \cup ev.assigned),
   owned  |-> (s.owned \ (ev.moved \cup ev.written)) \cup ev.assigned]

(* The effect of one point: moves, then pointer writes, then assignments.  *)
Apply(ev, s) ==
  [uninit |-> (s.uninit \cup ev.moved) \ (ev.written \cup ev.assigned),
   moved  |-> (s.moved \cup ev.moved) \ (ev.written \cup ev.assigned),
   owned  |-> (s.owned \ ev.moved) \cup ev.assigned]

(* Mutant: borrowing a moved local is not looked at.                        *)
ErrorsAt_NoBorrow(ev, s) ==
  { <<p, IF p \in s.moved THEN "Moved" ELSE "Uninit">> : p \in ev.accessed \cap s.uninit }

(* Accesses and borrows are judged on the state before the point.          *)
ErrorsAt(ev, s) ==
  { <<p, IF p \in s.moved THEN "Moved" ELSE "Uninit">> : p \in ev.accessed \cap s.uninit }
  \cup { <<p, "Moved">> : p \in ev.borrowed \cap s.moved }

NoPoint == << >>
(* Mutant: a move is taken for an assignment.                               *)
Blame_Moves(ev, pt) ==
  [p \in Locals |-> IF p \in ev.assigned \cup ev.moved THEN pt ELSE lastAssign[p]]

Blame(ev, pt) == [p \in Locals |-> IF p \in ev.assigned THEN pt ELSE lastAssign[p]]

ThisPoint == body.points[blk][at]
LastPoint == at = Len(body.points[blk])

-----------------------------------------------------------------------------
Start ==
  /\ phase = "pop"
  /\ worklist = <<0>>
  /\ entry = [b \in Blocks |-> IF b = 0 THEN EntryFlags(body) ELSE NoFlags]
  /\ blk = 0 /\ at = 1 /\ flags = NoFlags
  /\ lastAssign = [p \in Locals |-> NoPoint]
  /\ errors = {} /\ leaks = {}

Init == body \in Bodies /\ Start

(* Mutant: the block is read off the worklist and left there.               *)
Pop_Peek ==
  /\ phase = "pop" /\ worklist # << >>
  /\ blk' = Last(worklist) /\ worklist' = worklist
  /\ flags' = entry[Last(worklist)]
  /\ at' = 1 /\ phase' = "points"
  /\ UNCHANGED <<body, entry, lastAssign, errors, leaks>>

(* Take the block pushed last and start from its current in-state.         *)
Pop ==
  /\ phase = "pop" /\ worklist # << >>
  /\ blk' = Last(worklist) /\ worklist' = Front(worklist)
  /\ flags' = entry[Last(worklist)]
  /\ at' = 1 /\ phase' = "points"
  /\ UNCHANGED <<body, entry, lastAssign, errors, leaks>>

(* One statement, or the terminator.                                       *)
Point ==
  /\ phase = "points"
  /\ errors' = errors \cup
       { <<blk, at, e[1], e[2]>> : e \in ErrorsAt(ThisPoint, flags) }
  /\ flags' = Apply(ThisPoint, flags)
  /\ lastAssign' = Blame(ThisPoint, <<blk, at>>)
  /\ IF LastPoint THEN phase' = "edges" /\ at' = 1
                  ELSE phase' = "points" /\ at' = at + 1
  /\ UNCHANGED <<body, worklist, entry, blk, leaks>>

(* Mutant: only a change of `uninit` sends the successor back to work.      *)
Edge_UninitOnly ==
  /\ phase = "edges" /\ at <= Len(body.succ[blk])
  /\ LET t      == body.succ[blk][at]
         joined == Join(entry[t], flags)
     IN  /\ entry' = [entry EXCEPT ![t] = joined]
         /\ worklist' = IF joined.uninit # entry[t].uninit THEN Append(worklist, t) ELSE worklist
  /\ at' = at + 1
  /\ UNCHANGED <<body, phase, blk, flags, lastAssign, errors, leaks>>

(* Join the out-state into one successor, pushed only if that changed it.  *)
Edge ==
  /\ phase = "edges" /\ at <= Len(body.succ[blk])
  /\ LET t      == body.succ[blk][at]
         joined == Join(entry[t], flags)
     IN  /\ entry' = [entry EXCEPT ![t] = joined]
         /\ worklist' = IF joined # entry[t] THEN Append(worklist, t) ELSE worklist
  /\ at' = at + 1
  /\ UNCHANGED <<body, phase, blk, flags, lastAssign, errors, leaks>>

NextBlock ==
  /\ phase = "edges" /\ at > Len(body.succ[blk])
  /\ phase' = "pop"
  /\ UNCHANGED <<body, worklist, entry, blk, at, flags, lastAssign, errors, leaks>>

Converge ==
  /\ phase = "pop" /\ worklist = << >>
  /\ phase' = "scan" /\ blk' = 0
  /\ UNCHANGED <<body, worklist, entry, at, flags, lastAssign, errors, leaks>>

-----------------------------------------------------------------------------
(* The second pass visits the blocks in order, return blocks only.         *)
ScanBlock ==
  /\ phase = "scan" /\ blk < NumBlocks
  /\ IF blk \in body.returns
     THEN phase' = "replay" /\ flags' = entry[blk] /\ at' = 1 /\ UNCHANGED blk
     ELSE blk' = blk + 1 /\ UNCHANGED <<phase, flags, at>>
  /\ UNCHANGED <<body, worklist, entry, lastAssign, errors, leaks>>

(* check_leaks: the return place and types without drop glue are exempt.   *)
Leaked(s, blame) ==
  { <<p, blame[p]>> : p \in (s.owned \cap body.needsDrop) \ {ReturnLocal} }

Replay ==
  /\ phase = "replay"
  /\ flags' = Apply(ThisPoint, flags)
  /\ lastAssign' = Blame(ThisPoint, <<blk, at>>)
  /\ IF LastPoint
     THEN /\ leaks' = leaks \cup Leaked(flags', lastAssign')
          /\ phase' = "scan" /\ blk' = blk + 1
          /\ UNCHANGED at
     ELSE /\ at' = at + 1
          /\ UNCHANGED <<leaks, phase, blk>>
  /\ UNCHANGED <<body, worklist, entry, errors>>

Finish ==
  /\ phase = "scan" /\ blk = NumBlocks
  /\ phase' = "done"
  /\ UNCHANGED <<body, worklist, entry, blk, at, flags, lastAssign, errors, leaks>>

Next == Pop \/ Point \/ Edge \/ NextBlock \/ Converge \/ ScanBlock \/ Replay \/ Finish

Spec == Init /\ [][Next]_vars /\ WF_vars(Next)

-----------------------------------------------------------------------------
TypeOK ==
  /\ WellFormed(body) /\ ReturnNotWritten(body)
  /\ phase \in Phases
  /\ worklist \in Seq(Blocks)
  /\ entry \in [Blocks -> Flags]
  /\ blk \in 0 .. NumBlocks
  /\ at \in Nat \ {0}
  /\ flags \in Flags
  /\ DOMAIN lastAssign = Locals
  /\ phase \in {"points", "edges", "replay"} => blk \in Blocks
  /\ phase \in {"points", "replay"} => at \in 1 .. Len(body.points[blk])

(* A moved local is possibly uninitialised in every state of the analysis. *)
(* The access check of check.rs:144-153 tests `uninit` first and consults  *)
(* `moved` only to choose the message, so a moved local outside `uninit`   *)
(* would be read with no diagnostic at all.                                *)
MovedIsUninit ==
  /\ \A b \in Blocks : entry[b].moved \subseteq entry[b].uninit
  /\ flags.moved \subseteq flags.uninit

(* In-states only grow (check.rs:190-211 joins, never replaces): what one  *)
(* path contributed is never lost to another, and the worklist must empty. *)
EntryGrows == [][\A b \in Blocks : Leq(entry[b], entry'[b])]_vars

(* The data flow ends for every graph, loops and self-loops included.      *)
Termination == <>(phase = "done")

(* When it ends, analyze() has reached the verdict of the path-by-path     *)
(* definition: an error for exactly the points some path goes wrong at, a  *)
(* leak for exactly the locals some path still owns at a return.           *)
Check == INSTANCE MoveCheck WITH
  verdict <- IF phase = "done"
             THEN { [errors |-> { <<e[1], e[2], e[3]>> : e \in errors },
                     leaks  |-> { l[1] : l \in leaks }] }
             ELSE {}

ImplementsMoveCheck == Check!Spec

(* The statuses of p at a point on the paths that reach its block.         *)
StatusesAt(b, i, p, reached) ==
  { Check!Through(body, p, b, r[2])[i] : r \in { r \in reached : r[1] = b } }

(* The wording of an error (enum UseKind, check.rs:19-26) is right although *)
(* it was chosen from whatever had reached the block when it was walked:   *)
(* "moved" is said exactly when some path has moved the local, "never      *)
(* initialised" only when some path has never initialised it.              *)
KindsJustified ==
  phase = "done" =>
    \A p \in Locals :
      LET reached == Check!Reached(body, p) IN
      \A b \in Blocks : \A i \in 1 .. Len(body.points[b]) :
        LET ev == body.points[b][i] IN
        /\ <<b, i, p, "Moved">> \in errors <=>
             p \in ev.accessed \cup ev.borrowed /\ "moved" \in StatusesAt(b, i, p, reached)
        /\ <<b, i, p, "Uninit">> \in errors => "uninit" \in StatusesAt(b, i, p, reached)

(* The place a leak is blamed on (last_assign) is one that assigns the     *)
(* local; only an argument nothing assigns is blamed on its declaration.   *)
BlameAssigns ==
  \A l \in leaks :
    IF l[2] = NoPoint THEN l[1] \in body.args
                      ELSE l[1] \in body.points[l[2][1]][l[2][2]].assigned

-----------------------------------------------------------------------------
(* check.rs:215-219: a local leaks if on *some* path reaching a return it  *)
(* is still owned.                                                         *)
LeakOnSomePath ==
  phase = "done" => \A l \in leaks : l[1] \in Check!Leaks(body)

=============================================================================
