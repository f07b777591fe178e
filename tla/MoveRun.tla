------------------------------- MODULE MoveRun -------------------------------
(***************************************************************************)
(* The analysis of MoveDataflow followed by one execution of the body it   *)
(* analysed, point by point and along any edge: what the execution does to *)
(* its locals must already be in the diagnostics.                          *)
(***************************************************************************)
EXTENDS MoveDataflow

VARIABLES
  bb, pt,  \* block and point the execution is about to perform
  status   \* what the execution has done to each local

runVars == <<bb, pt, status>>
allVars == <<vars, runVars>>

RunInit ==
  /\ Init
  /\ bb = 0 /\ pt = 1
  /\ status = [p \in Locals |-> InitialStatus(body, p)]

Analyze == Next /\ UNCHANGED runVars

Execute ==
  /\ phase = "done" /\ pt <= Len(body.points[bb])
  /\ status' = [p \in Locals |-> After(status[p], p, body.points[bb][pt])]
  /\ pt' = pt + 1
  /\ UNCHANGED <<vars, bb>>

Branch ==
  /\ phase = "done" /\ pt > Len(body.points[bb])
  /\ \E t \in ToSet(body.succ[bb]) : bb' = t
  /\ pt' = 1
  /\ UNCHANGED <<vars, status>>

RunNext == Analyze \/ Execute \/ Branch

(* analyze() is one function in one thread: it runs until it returns.      *)
RunSpec == RunInit /\ [][RunNext]_allVars /\ WF_vars(Analyze)

-----------------------------------------------------------------------------
RunTypeOK ==
  /\ TypeOK
  /\ bb \in Blocks
  /\ pt \in 1 .. Len(body.points[bb]) + 1
  /\ status \in [Locals -> Status]

(* The flags an execution with these statuses satisfies.                   *)
Concrete(st) == [uninit |-> { p \in Locals : st[p] \in {"uninit", "moved"} },
                 moved  |-> { p \in Locals : st[p] = "moved" },
                 owned  |-> { p \in Locals : st[p] = "owned" }]

(* The converged in-state of every block covers every execution reaching   *)
(* it (check.rs:214: "`entry[block]` holds the final in-state").           *)
BlockEntryCovered ==
  phase = "done" /\ pt = 1 => Leq(Concrete(status), entry[bb])

(* An execution about to use a moved or uninitialised local has been       *)
(* warned about at that very point, as a move when it was one.             *)
UsesReported ==
  phase = "done" /\ pt <= Len(body.points[bb]) =>
    \A p \in Locals :
      IsMoveError(status[p], p, body.points[bb][pt]) =>
        \E kind \in {"Moved", "Uninit"} :
          /\ <<bb, pt, p, kind>> \in errors
          /\ status[p] = "moved" => kind = "Moved"

(* An execution that returns while owning a droppable value has been       *)
(* warned about that local.                                                *)
LeaksReported ==
  phase = "done" /\ bb \in body.returns /\ pt = Len(body.points[bb]) + 1 =>
    \A p \in body.needsDrop \ {ReturnLocal} :
      status[p] = "owned" => \E l \in leaks : l[1] = p
=============================================================================
