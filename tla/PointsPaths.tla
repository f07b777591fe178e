----------------------------- MODULE PointsPaths -----------------------------
(***************************************************************************)
(* What compute_points_to promises, path by path: the targets the          *)
(* assignments along some path from some block give a pointer.             *)
(***************************************************************************)
EXTENDS PointsTo

(* The targets after block b of f, from those before it.                   *)
AlongBlock(f, w, b) ==
  LET along[i \in 0 .. Len(f.code[b])] ==
        IF i = 0 THEN w ELSE Assigned(along[i - 1], f.code[b][i])
  IN  along[Len(f.code[b])]

(* <<block, targets on entry>> of paths in r, and of those an edge longer. *)
Onward(f, r) ==
  r \cup UNION { { <<t, AlongBlock(f, e[2], e[1])>> : t \in ToSet(f.succ[e[1]]) } : e \in r }

(* Those of every path, all blocks being starts: the analysis seeds its    *)
(* worklist with every block (facts.rs:257-260).                           *)
Starts == { <<b, NothingKnown>> : b \in Blocks }

PathEntries(f) ==
  LET paths[r \in SUBSET (Blocks \X PointsToState)] ==
        IF Onward(f, r) = r THEN r ELSE paths[Onward(f, r)]
  IN  paths[Starts]

PathTargets ==
  LET entries == PathEntries(prog)
  IN  [b \in Blocks |-> [v \in Locals |->
         UNION { e[2][v] : e \in { n \in entries : n[1] = b } }]]

Converged == stage = "pop" /\ pending = << >>

(* Joining at block entries loses nothing: a pointer is said to point to   *)
(* exactly the locals some path's assignments make it point to.            *)
PathsExact == Converged => ptEntry = PathTargets

(* Whatever addresses the body takes, nothing a path does is forgotten.    *)
PathsCovered ==
  Converged => \A b \in Blocks : \A v \in Locals : PathTargets[b][v] \subseteq ptEntry[b][v]

(* No address is taken past a second pointer, as in &**p or &p.f->g: of    *)
(* those the analysis follows the first only.                              *)
AddressesFollowed(f) ==
  \A b \in Blocks : \A s \in ToSet(f.code[b]) :
    s.kind = "ref" => \A op \in ToSet(s.from) : op.place.shape \in {"plain", "field", "deref"}
=============================================================================
