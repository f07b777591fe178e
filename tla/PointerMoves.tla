---------------------------- MODULE PointerMoves ----------------------------
(***************************************************************************)
(* The whole of co2_borrowck's `check` on one body (check.rs:28-39): the   *)
(* facts of PointsTo, handed to the move checker of MoveDataflow, then an  *)
(* execution of the body with the pointers it really has.  Its diagnostics *)
(* are judged on what the execution does, no longer on the facts.          *)
(***************************************************************************)
EXTENDS PointsRun

VARIABLES phase, worklist, entry, blk, at, flags, lastAssign, errors, leaks

checkVars == <<phase, worklist, entry, blk, at, flags, lastAssign, errors, leaks>>

M == INSTANCE MoveDataflow WITH Bodies <- {}, body <- CheckedBody

MovesInit == PtRunInit /\ M!Start

Facts == GenerateFacts /\ UNCHANGED checkVars

Analyze == stage = "facts" /\ UNCHANGED <<ptVars, runVars>> /\ M!Next

Execute ==
  /\ phase = "done"
  /\ ExecStatement \/ ExecTerminator \/ Jump
  /\ UNCHANGED checkVars

MovesNext == Facts \/ Analyze \/ Execute

(* generate_facts is one function in one thread: it runs until it returns. *)
MovesSpec ==
  MovesInit /\ [][MovesNext]_<<ptVars, runVars, checkVars>> /\ WF_ptVars(Facts)

-----------------------------------------------------------------------------
AtPoint == phase = "done" /\ pt <= Len(Statements) + 1

Wrong(v) == IsMoveError(status[v], v, facts[bb][pt])
Reported(v) == \E kind \in {"Moved", "Uninit"} : <<bb, pt, v, kind>> \in errors

(* A local no pointer is ever recorded to reach is reported whenever an    *)
(* execution uses it uninitialised or moved, however the pointers of the   *)
(* body were followed.                                                     *)
UnaliasedUsesReported ==
  AtPoint =>
    \A v \in Locals :
      Wrong(v) /\ (\A b \in Blocks : \A i \in 1 .. Len(facts[b]) : v \notin facts[b][i].written)
        => Reported(v)

(* A value still owned at a return is reported even when a pointer has     *)
(* written over it: a write initialises, it never takes ownership away     *)
(* (facts.rs:104-106).                                                     *)
OwnedLeaksReported ==
  phase = "done" /\ bb \in CheckedBody.returns /\ pt = Len(Statements) + 2 =>
    \A v \in prog.needsDrop \ {ReturnLocal} :
      status[v] = "owned" => \E l \in leaks : l[1] = v
=============================================================================
