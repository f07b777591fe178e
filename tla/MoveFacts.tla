------------------------------ MODULE MoveFacts ------------------------------
(***************************************************************************)
(* The input of co2_borrowck's move checker (src/co2_borrowck/src/):       *)
(* a MIR body reduced to its control-flow graph and, for every statement   *)
(* and terminator, the locals it reads, borrows, moves, writes through a   *)
(* pointer and assigns (struct Events of check.rs).                        *)
(*                                                                         *)
(* Block 0 is the entry block and local 0 is the return place.  A point is *)
(* a pair <<b, i>>: statement i of block b, the terminator being the last. *)
(***************************************************************************)
EXTENDS Integers, Sequences, FiniteSets

CONSTANTS NumBlocks,  \* basic blocks of a body
          NumLocals,  \* locals of a body
          Bodies      \* the bodies to analyse

Blocks == 0 .. NumBlocks - 1
Locals == 0 .. NumLocals - 1
ReturnLocal == 0

Event == [accessed : SUBSET Locals, borrowed : SUBSET Locals,
          moved : SUBSET Locals, written : SUBSET Locals,
          assigned : SUBSET Locals]

Body == [args      : SUBSET (Locals \ {ReturnLocal}),
         needsDrop : SUBSET Locals,
         points    : [Blocks -> Seq(Event)],
         succ      : [Blocks -> Seq(Blocks)],
         returns   : SUBSET Blocks]

(* Every block has at least its terminator, and a Return has no successor. *)
WellFormed(f) ==
  /\ f \in Body
  /\ \A b \in Blocks : Len(f.points[b]) > 0
  /\ \A b \in f.returns : f.succ[b] = << >>

(* No AddressOf or Ref of the return place is ever generated (co2_mir only *)
(* assigns place(0)), so no write through a pointer initialises it.        *)
ReturnNotWritten(f) ==
  \A b \in Blocks : \A i \in 1 .. Len(f.points[b]) :
    ReturnLocal \notin f.points[b][i].written

ASSUME SizeAssumption == NumBlocks \in Nat \ {0} /\ NumLocals \in Nat \ {0}
ASSUME BodiesAssumption ==
  \A f \in Bodies : WellFormed(f) /\ ReturnNotWritten(f)

-----------------------------------------------------------------------------
(***************************************************************************)
(* What one execution does to one local.                                   *)
(*   uninit  never initialised         moved  its value was moved out      *)
(*   owned   holds a value it owns     filled initialised through a        *)
(*                                            pointer, owning nothing      *)
(***************************************************************************)
Status == {"uninit", "moved", "filled", "owned"}

InitialStatus(f, p) == IF p \in f.args THEN "owned" ELSE "uninit"

(* A point moves, then writes, then assigns: the last one wins, and a      *)
(* write through a pointer leaves an owned local owned.                    *)
After(s, p, ev) ==
  IF p \in ev.assigned THEN "owned"
  ELSE IF p \in ev.written
       THEN IF s = "owned" /\ p \notin ev.moved THEN "owned" ELSE "filled"
  ELSE IF p \in ev.moved THEN "moved"
  ELSE s

(* Reading an uninitialised or moved local, and borrowing a moved one, is  *)
(* a move error; borrowing a merely uninitialised one is C's `&x` idiom.   *)
IsMoveError(s, p, ev) ==
  \/ p \in ev.accessed /\ s \in {"uninit", "moved"}
  \/ p \in ev.borrowed /\ s = "moved"
=============================================================================
