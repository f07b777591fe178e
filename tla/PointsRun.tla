------------------------------ MODULE PointsRun ------------------------------
(***************************************************************************)
(* The facts of PointsTo followed by one execution of the body: where each *)
(* pointer really points and what the stores really initialise, against    *)
(* the events emitted for the points the execution passes.                 *)
(***************************************************************************)
EXTENDS PointsTo

VARIABLES
  bb, pt,  \* block and point the execution is about to perform
  where,   \* the local each pointer points to, {} if it came through memory
  status   \* what the execution has done to each local: Status of MoveFacts

runVars == <<bb, pt, where, status>>

PtRunInit ==
  /\ FactsInit
  /\ bb = 0 /\ pt = 1
  /\ where = NothingKnown
  /\ status = [p \in Locals |-> InitialStatus(prog, p)]

GenerateFacts == FactsNext /\ UNCHANGED runVars

-----------------------------------------------------------------------------
(* Pointers overwritten through memory are no longer followed.             *)
Forget(w, ps) == [v \in Locals |-> IF v \in ps THEN {} ELSE w[v]]

Statements == prog.code[bb]
AtStatement == pt <= Len(Statements)

(* The locals a statement stores to through the pointers followed.         *)
Stored == IF Statements[pt].dst.shape = "deref" THEN where[Statements[pt].dst.local] ELSE {}

(* The locals a call may store to through its arguments.                   *)
Reachable ==
  IF prog.term[bb].kind # "call" THEN {}
  ELSE UNION { where[op.place.local] :
                 op \in { o \in ToSet(prog.term[bb].from) : o.place.shape = "plain" } }

(* A point whose pointer writes are those of the execution.                *)
Perform(writes) ==
  /\ status' = [p \in Locals |-> After(status[p], p, [facts[bb][pt] EXCEPT !.written = writes])]
  /\ pt' = pt + 1

(* A store through a path nobody follows may hit any pointer.              *)
ExecStatement ==
  /\ stage = "facts" /\ AtStatement
  /\ Perform(Stored)
  /\ \E hit \in IF Statements[pt].dst.shape \in {"nested", "inner"}
                THEN {{}} \cup { {v} : v \in Pointers } ELSE {Stored} :
       where' = Assigned(Forget(where, hit), Statements[pt])
  /\ UNCHANGED <<ptVars, bb>>

(* The callee writes through some of the pointers it was given, and its    *)
(* result comes from nowhere the body knows.                               *)
ExecTerminator ==
  /\ stage = "facts" /\ pt = Len(Statements) + 1
  /\ \E hit \in SUBSET Reachable :
       /\ Perform(hit)
       /\ where' = Forget(where, hit \cup { d.local : d \in ToSet(prog.term[bb].dsts) })
  /\ UNCHANGED <<ptVars, bb>>

Jump ==
  /\ stage = "facts" /\ pt = Len(Statements) + 2
  /\ \E t \in ToSet(prog.succ[bb]) : bb' = t
  /\ pt' = 1
  /\ UNCHANGED <<ptVars, where, status>>

-----------------------------------------------------------------------------
(* Whenever a pointer the body followed is stored through, or handed to a  *)
(* call, its real target is among the locals recorded as written there     *)
(* (facts.rs:294-298, 381-388): otherwise `int* p = &x; *p = 1; use(x)`    *)
(* would be warned about, whatever blocks and loops lie between.           *)
StoresRecorded ==
  stage = "facts" =>
    /\ AtStatement => Stored \subseteq facts[bb][pt].written
    /\ pt = Len(Statements) + 1 => Reachable \subseteq facts[bb][pt].written
=============================================================================
