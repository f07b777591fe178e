--------------------------- MODULE MCCompileDriver ---------------------------
(***************************************************************************)
(* Two C files whose objects have one name, a file of assembler and an     *)
(* object that do not, though their stems agree, and the standard input.   *)
(* One of the first two defines nothing that a copy of it clashes with.    *)
(***************************************************************************)
EXTENDS CompileDriver

MCWeak == { [dir |-> "b", stem |-> <<"x", "_", "y">>, ext |-> "c"] }

MCFiles == MCWeak \union
    { [dir |-> "a", stem |-> <<"x", "-", "y">>, ext |-> "c"],
      [dir |-> "a", stem |-> <<"z">>, ext |-> "s"],
      [dir |-> "a", stem |-> <<"z">>, ext |-> "o"],
      Stdin }

=============================================================================
