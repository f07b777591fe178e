------------------------------- MODULE ScopeRun ------------------------------
(***************************************************************************)
(* A body lowered by ScopeLowering, then one execution of the MIR it       *)
(* became, block by block along any edge: storage must be live exactly     *)
(* where C says a local lives.                                             *)
(*                                                                         *)
(* Two observers remember what the source says and the builder does not:   *)
(* which VLAs are in scope, by name, at each jump and at each label.       *)
(***************************************************************************)
EXTENDS ScopeLowering

VARIABLES
  leaves,   \* VLAs nameable at each goto, in source order
  arrives,  \* VLAs nameable at each label
  bb, pt,   \* block and statement about to execute
  live,     \* locals whose storage is live
  declared  \* locals whose declaration this execution has passed

sight == <<leaves, arrives>>
runVars == <<bb, pt, live, declared>>
allVars == <<vars, sight, runVars>>

RunInit ==
  /\ Init
  /\ leaves = << >> /\ arrives = [l \in Labels |-> {}]
  /\ bb = 0 /\ pt = 1 /\ live = {} /\ declared = {}

Observe ==
  /\ leaves' = IF Len(gotos') > Len(gotos)
               THEN Append(leaves, Visible \cap Vlas) ELSE leaves
  /\ arrives' = [l \in Labels |-> IF targets'[l] # targets[l]
                                  THEN Visible \cap Vlas ELSE arrives[l]]

Build == Next /\ Observe /\ UNCHANGED runVars

(* Storage is what StorageLive and StorageDead make of it; an execution    *)
(* that leaves a local's storage forgets the local was declared.           *)
Effect(s) ==
  /\ live' = CASE s.op = "live" -> live \cup s.on
               [] s.op = "dead" -> live \ s.on
               [] OTHER -> live
  /\ declared' = CASE s.op = "decl" -> declared \cup s.on
                   [] s.op \in {"live", "dead"} -> declared \ s.on
                   [] OTHER -> declared

Running == phase = "done" /\ bb < NumBlocks
AtStmt == Running /\ pt <= Len(code[bb + 1])
Current == code[bb + 1][pt]

Execute ==
  /\ AtStmt
  /\ Effect(Current)
  /\ pt' = pt + 1
  /\ UNCHANGED <<vars, sight, bb>>

Jump ==
  /\ Running /\ ~AtStmt
  /\ \E t \in term[bb + 1].to : bb' = t
  /\ pt' = 1
  /\ UNCHANGED <<vars, sight, live, declared>>

RunNext == Build \/ Execute \/ Jump

RunSpec == RunInit /\ [][RunNext]_allVars

-----------------------------------------------------------------------------
(* Locals with storage statements; the others are live throughout.         *)
Stored == UNION { UNION { s.on : s \in { x \in ToSet(code[b]) : x.op = "live" } }
                  : b \in DOMAIN code }

(* rustc's own lint: storage is never started twice nor ended when it is   *)
(* not live, whatever scopes the jumps leave and enter.                    *)
StorageAlternates ==
  AtStmt => /\ Current.op = "live" => Current.on \cap live = {}
            /\ Current.op = "dead" => Current.on \subseteq live

(* Every local an execution declares or uses has live storage, after any   *)
(* jump into or out of blocks (build.rs:280 "a `goto` past the declaration *)
(* still leaves the local alive").                                         *)
UsedWhileLive ==
  AtStmt /\ Current.op \in {"decl", "use"} => Current.on \cap Stored \subseteq live

(* No execution uses a VLA whose declaration, which sizes and allocates it,*)
(* it has not passed (tests/c/array_size/vla/goto_scope.c:4 "no jump may   *)
(* enter the scope of a variably modified identifier").                    *)
VlaDeclaredFirst ==
  AtStmt /\ Current.op = "use" => Current.on \cap Vlas \subseteq declared

(* A body is rejected for a VLA only when some jump of it does enter the   *)
(* scope of one (goto_scope_ok.c:4 "only forbids *entering* the scope").   *)
RejectsOnlyEntering ==
  phase = "vla" /\ gotos # << >> =>
    ~ arrives[Head(gotos).label] \subseteq leaves[Len(leaves) - Len(gotos) + 1]
=============================================================================
