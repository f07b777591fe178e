-------------------------------- MODULE Lines --------------------------------
(***************************************************************************)
(* What co2_preprocessor makes of one line: of a line of text, whose       *)
(* macros are replaced, and of the line of an #if, which holds or not.     *)
(* The environment defines the macros and writes the line piece by piece.  *)
(***************************************************************************)
EXTENDS MacroExpansion, IfExpression

CONSTANTS TextTables, IfTables, \* the macros there may be
          Words,                \* the tokens of a line of text
          Operands,             \* of a condition: sequences of tokens
          Operators, Signs,  \* of a condition
          MaxText, MaxIf        \* bounds on the length of a line

VARIABLES table, kind, line,
          read,                 \* whether the line has been read
          result

vars == <<table, kind, line, read, result>>

Toks(words) == [i \in DOMAIN words |-> Tok(words[i])]

Init ==
    /\ \/ kind = "text" /\ table \in TextTables
       \/ kind = "if" /\ table \in IfTables
    /\ line = <<>>
    /\ read = FALSE
    /\ result = <<>>

-----------------------------------------------------------------------------
(* Writing the line *)

Question == <<"?">>
Colon == <<":">>

(* The parentheses and question marks that wait for their counterpart.     *)
Waiting(words) ==
    FoldLeft(LAMBDA open, w : CASE w \in {Lparen, Question} -> Append(open, w)
                                [] w \in {Rparen, Colon} -> Front(open)
                                [] OTHER -> open,
             <<>>, words)

AfterOperand(words) ==
    words # <<>> /\ LET w == Last(words) IN w = Rparen \/ IsNumber(w) \/ IsIdentifier(w)

(* How much is missing of a condition.                                     *)
Missing(words) ==
    LET open == Waiting(words)
    IN  Len(open) + Len(SelectSeq(open, LAMBDA w : w = Question))
        + IF AfterOperand(words) THEN 0 ELSE 1

(* Any words with matching parentheses, and commas in them.                *)
WriteWord ==
    /\ kind = "text" /\ ~read
    /\ \E w \in Words :
          /\ w \in {Rparen, Comma} => Waiting(line) # <<>>
          /\ line' = Append(line, w)
    /\ Len(line') + Len(Waiting(line')) <= MaxText
    /\ UNCHANGED <<table, kind, read, result>>

(* What may come next in an expression.                                    *)
MayFollow ==
    LET open == Waiting(line) IN
    IF AfterOperand(line)
    THEN {<<op>> : op \in Operators \union {Question}}
         \union {<<Lparen>> : w \in {Last(line)} \intersect {s \in DOMAIN table : table[s].fun}}
         \union {<<IF b = Lparen THEN Rparen ELSE Colon>> : b \in {Last(open) : i \in DOMAIN open}}
    ELSE Operands \union {<<w>> : w \in Signs \union {Lparen}}

WriteCondition ==
    /\ kind = "if" /\ ~read
    /\ \E piece \in MayFollow : line' = line \o piece
    /\ Len(line') + Missing(line') <= MaxIf
    /\ UNCHANGED <<table, kind, read, result>>

-----------------------------------------------------------------------------
(* Reading it *)

EmitText ==
    /\ kind = "text" /\ ~read /\ Waiting(line) = <<>>
    /\ read' = TRUE
    /\ result' = Spelled(ExpandLine(table, Toks(line)))
    /\ UNCHANGED <<table, kind, line>>

(* handle_if, handle_elif: defined is replaced before the macros, and once *)
(* more when a macro stood for it.                                         *)
Condition(macros, words) ==
    LET resolved == ResolveDefined(DOMAIN macros, words)
        expanded == Spelled(ExpandLine(macros, Toks(resolved)))
    IN  Holds(Zeroed(ResolveDefined(DOMAIN macros, expanded)))

HandleIf ==
    /\ kind = "if" /\ ~read /\ Missing(line) = 0
    /\ read' = TRUE
    /\ result' = Condition(table, line)
    /\ UNCHANGED <<table, kind, line>>

Next == WriteWord \/ WriteCondition \/ EmitText \/ HandleIf

Spec == Init /\ [][Next]_vars

=============================================================================
