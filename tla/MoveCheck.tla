------------------------------ MODULE MoveCheck ------------------------------
(***************************************************************************)
(* What the move checker of co2_borrowck promises, with no data flow: the  *)
(* diagnostics of a body are the move errors some control-flow path from   *)
(* the entry commits, and the drop-needing locals some such path still     *)
(* owns at a return.  The verdict is reached in one step.                  *)
(***************************************************************************)
EXTENDS MoveFacts, SequencesExt

VARIABLES body,     \* the body under analysis
          verdict   \* {} while undecided, then a singleton

vars == <<body, verdict>>

(* Status of local p at each point of block b (and past its end) when it   *)
(* enters the block with status s.                                         *)
Through(f, p, b, s) ==
  LET n == Len(f.points[b])
      at[i \in 1 .. n + 1] ==
        IF i = 1 THEN s ELSE After(at[i - 1], p, f.points[b][i - 1])
  IN  at

(* The <<block, status of p at its entry>> pairs of all paths from the     *)
(* entry: paths of up to k edges, with k the number of possible pairs.     *)
Reached(f, p) ==
  LET next(r) == UNION { { <<t, Through(f, p, e[1], e[2])[Len(f.points[e[1]]) + 1]>>
                           : t \in ToSet(f.succ[e[1]]) } : e \in r }
      within[k \in 0 .. NumBlocks * Cardinality(Status)] ==
        IF k = 0 THEN { <<0, InitialStatus(f, p)>> }
                 ELSE LET r == within[k - 1] IN r \cup next(r)
  IN  within[NumBlocks * Cardinality(Status)]

MoveErrors(f) ==
  { e \in UNION { { <<b, i, p>> : i \in 1 .. Len(f.points[b]), p \in Locals }
                  : b \in Blocks } :
      \E r \in Reached(f, e[3]) :
        /\ r[1] = e[1]
        /\ IsMoveError(Through(f, e[3], e[1], r[2])[e[2]], e[3],
                       f.points[e[1]][e[2]]) }

(* Statuses of p at the end of return block b, over the paths reaching it. *)
AtReturn(f, p, b) ==
  { Through(f, p, b, r[2])[Len(f.points[b]) + 1] :
      r \in { r \in Reached(f, p) : r[1] = b } }

Leaks(f) ==
  { p \in f.needsDrop \ {ReturnLocal} :
      \E b \in f.returns : "owned" \in AtReturn(f, p, b) }

Verdict(f) == [errors |-> MoveErrors(f), leaks |-> Leaks(f)]

Init == WellFormed(body) /\ verdict = {}

Decide ==
  /\ verdict = {} /\ verdict' # {}
  /\ verdict' = {Verdict(body)}
  /\ UNCHANGED body

Spec == Init /\ [][Decide]_vars
=============================================================================
