------------------------------ MODULE MCStmtRun ------------------------------
(* Model values for StmtRun: one named label, a case of one value and a    *)
(* case range of two, and a discriminant that may match neither.           *)
EXTENDS StmtRun

MCCaseSets == {{1}, {1, 2}}
MCValues == 1..3
MCKinds == {"expr", "return", "break", "continue", "goto", "label", "case", "default",
            "block", "if", "while", "do", "for", "forever", "switch"}
MCMaxStmts == 5

=============================================================================
