---------------------------- MODULE Conditionals ----------------------------
(***************************************************************************)
(* ConditionalStack of co2_preprocessor: the open #if chains of a file,    *)
(* innermost last.  Of each it remembers whether a group was taken, whether*)
(* the group being read is, and whether the chain itself is in text that   *)
(* is kept; not which directives led there.                                *)
(***************************************************************************)
EXTENDS Naturals, Sequences, SequencesExt

State(any, active, parent) ==
    [any_branch_taken |-> any, current_branch_active |-> active, parent_active |-> parent]

IsActive(stack) ==
    stack = <<>> \/ (Last(stack).current_branch_active /\ Last(stack).parent_active)

(* #if, #ifdef, #ifndef.                                                   *)
PushIf(stack, condition) ==
    Append(stack, State(condition, IsActive(stack) /\ condition, IsActive(stack)))

(* Mutant: the groups taken so far are not looked at.                      *)
ElifForgetful(state, condition) ==
    State(state.any_branch_taken \/ condition, state.parent_active /\ condition,
          state.parent_active)
Elif(state, condition) ==
    IF state.any_branch_taken THEN [state EXCEPT !.current_branch_active = FALSE]
    ELSE IF state.parent_active /\ condition THEN State(TRUE, TRUE, TRUE)
    ELSE [state EXCEPT !.current_branch_active = FALSE]

Else(state) ==
    IF state.any_branch_taken THEN [state EXCEPT !.current_branch_active = FALSE]
    ELSE State(TRUE, state.parent_active, state.parent_active)

(* Without an open chain #elif, #else and #endif do nothing.               *)
HandleElif(stack, condition) ==
    IF stack = <<>> THEN stack ELSE Append(Front(stack), Elif(Last(stack), condition))
HandleElse(stack) ==
    IF stack = <<>> THEN stack ELSE Append(Front(stack), Else(Last(stack)))
HandleEndif(stack) ==
    IF stack = <<>> THEN stack ELSE Front(stack)

=============================================================================
