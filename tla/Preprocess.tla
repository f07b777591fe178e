----------------------------- MODULE Preprocess -----------------------------
(***************************************************************************)
(* Preprocessor::preprocess_source of co2_preprocessor and what the        *)
(* directives do to it: a file is read line by line, text is expanded as   *)
(* soon as it is complete, #include reads another file in the middle of    *)
(* it, with chains of conditionals of its own, and a file that guards      *)
(* itself is skipped the next time.                                        *)
(*                                                                         *)
(* A line is text, a sequence of tokens, or a directive.  Its expansion    *)
(* goes to the output token by token.  The main file is written by the     *)
(* environment while it is read; the files it includes are there before.   *)
(***************************************************************************)
EXTENDS Conditionals, FiniteSets

CONSTANTS
    Names,          \* macros and include guards
    Bodies,         \* what an object-like macro may be defined as
    Fun,            \* the name of the function-like macro
    Texts,          \* what the included files may hold: functions from files
    MainLines,      \* the lines of main files
    MaxMain,        \* bound: the length of the main file
    MaxDepth,       \* MAX_INCLUDE_DEPTH: inclusions of one file in progress
    Main, Absent    \* the main file; no definition

(* What a file that is read may say: what it includes is among the files   *)
(* there are, and the names and bodies of its directives are those above.  *)
LineOf(files, l) ==
    /\ l.k = "include" => l.file \in files
    /\ l.k \in {"define", "undef", "push", "pop"} => l.m \in Names \union {Fun}
    /\ l.k = "define" => l.body \in Bodies

ASSUME TextsAssumption ==
    /\ MaxMain \in Nat /\ MaxDepth \in Nat \ {0}
    /\ \A t \in Texts :
        /\ IsFiniteSet(DOMAIN t) /\ Main \notin DOMAIN t
        /\ \A f \in DOMAIN t : Len(t[f]) \in Nat /\ \A i \in 1..Len(t[f]) : LineOf(DOMAIN t, t[f][i])
        /\ \A l \in MainLines : LineOf(DOMAIN t, l)

VARIABLES
    main,           \* the main file as far as it is written
    text,           \* the files it includes
    forced,         \* the file given with -include, or Absent
    frames,         \* the files being read, the main file first
    macros,         \* MacroTable: name -> body
    saves,          \* macro_save_stack of #pragma push_macro
    once,           \* pragma_once_files
    guards,         \* include_guard_macros: file -> name
    output,         \* the tokens emitted
    status          \* "start", "run", "done", "error"

vars == <<main, text, forced, frames, macros, saves, once, guards, output, status>>
tables == <<macros, saves, once, guards>>

-----------------------------------------------------------------------------
(* Text *)

(* Tokens: names, "(" and ")", and "g(", the opening of an ordinary call.  *)
Count(toks, S) == Cardinality({i \in DOMAIN toks : toks[i] \in S})
Unbalanced(toks) == Count(toks, {"(", "g("}) > Count(toks, {")"})

(* What the tokens become: an object-like macro its body, which may be the *)
(* name of the function-like one; and that, before a parenthesis, a call.  *)
Rescanned(tok, table) ==
    IF tok \in DOMAIN table /\ tok # Fun /\ table[tok] # Absent THEN table[tok] ELSE tok
Expand(toks, table) ==
    LET called(i) == /\ Rescanned(toks[i], table) = Fun /\ table[Fun] # Absent
                     /\ i < Len(toks) /\ toks[i + 1] = "("
    IN  [i \in DOMAIN toks |-> IF called(i) THEN "call" ELSE Rescanned(toks[i], table)]

(* ends_with_funclike_macro: the arguments may be on the next line.        *)
EndsWithFun(toks, table) == toks # <<>> /\ Last(toks) = Fun /\ table[Fun] # Absent

(* Mutant: the line is looked at for parentheses only.                     *)
MustClose(toks, table) == Unbalanced(toks)
(* accumulate_and_expand: text that cannot end here waits for more.        *)
MustWait(toks, table) == Unbalanced(toks) \/ EndsWithFun(Expand(toks, table), table)

-----------------------------------------------------------------------------
(* detect_include_guard: #ifndef first, then #define of the same name as   *)
(* the second directive, and the #endif of the former as the last line,    *)
(* with no #else or #elif of it.                                           *)

Opens(l) == l.k \in {"ifdef", "ifndef"}
DepthAfter(lines) ==
    LET depth[i \in 0..Len(lines)] ==
            IF i = 0 THEN 0
            ELSE IF Opens(lines[i]) THEN depth[i - 1] + 1
            ELSE IF lines[i].k = "endif" THEN depth[i - 1] - 1
            ELSE depth[i - 1]
    IN  depth

(* Mutant: an #else of the guard is not looked at.                         *)
ElseAllowed(lines) == TRUE
ElseFree(lines) ==
    \A i \in DOMAIN lines : lines[i].k \in {"elif", "else"} => DepthAfter(lines)[i] > 1

GuardedBy(lines, name) ==
    LET n == Len(lines)
        depth == DepthAfter(lines)
        directives == SelectSeq(lines, LAMBDA l : l.k # "text")
    IN  /\ n > 2 /\ lines[1] = [k |-> "ifndef", m |-> name]
        /\ directives[2].k = "define" /\ directives[2].m = name
        /\ lines[n].k = "endif"
        /\ \A i \in 1..n : (depth[i] = 0) = (i = n)
        /\ ElseFree(lines)

DetectedGuard(lines) ==
    IF \E name \in Names : GuardedBy(lines, name)
    THEN CHOOSE name \in Names : GuardedBy(lines, name) ELSE Absent

-----------------------------------------------------------------------------
(* Lines *)

(* What preprocess_source keeps while it reads a file.  groups is history: *)
(* of every open chain the conditions of its groups so far, #else's true.  *)
Frame(f, how) ==
    [file |-> f, how |-> how, at |-> 0, pending |-> <<>>, conditionals |-> <<>>, groups |-> <<>>]
Top == Last(frames)
InMain == Top.file = Main
Active == IsActive(Top.conditionals)

(* The main file is valid: chains are closed and have one #else.           *)
FitsMain(l) ==
    LET depth == DepthAfter(main)
        open == {i \in DOMAIN main : Opens(main[i]) /\
                    \A j \in (i + 1)..Len(main) : depth[j] >= depth[i]}
    IN  /\ l.k \in {"elif", "else", "endif"} => open # {}
        /\ l.k \in {"elif", "else"} =>
               \A i \in DOMAIN main : main[i].k = "else" =>
                   depth[i] < depth[Len(main)]
                   \/ \E j \in i..Len(main) : depth[j] < depth[i]

NextLines ==
    IF status # "run" \/ frames = <<>> THEN {}
    ELSE IF InMain THEN {l \in MainLines : Len(main) < MaxMain /\ FitsMain(l)}
    ELSE IF Top.at < Len(text[Top.file]) THEN {text[Top.file][Top.at + 1]} ELSE {}

(* The line is read, and the file's frame becomes f.                       *)
Advanced(f) == Append(Front(frames), [f EXCEPT !.at = @ + 1])
Reading(l) == main' = IF InMain THEN Append(main, l) ELSE main

Emit(toks) == output' = output \o Expand(toks, macros)

(* accumulate_and_expand_with_line *)
Accumulate(toks) ==
    LET waiting == Top.pending \o toks IN
    IF MustWait(waiting, macros)
    THEN frames' = Advanced([Top EXCEPT !.pending = waiting]) /\ UNCHANGED output
    ELSE frames' = Advanced([Top EXCEPT !.pending = <<>>]) /\ Emit(waiting)

Text ==
    \E l \in NextLines :
        /\ l.k = "text" /\ Reading(l)
        /\ IF Active THEN Accumulate(l.toks)
           ELSE frames' = Advanced(Top) /\ UNCHANGED output
        /\ UNCHANGED <<text, forced, tables, status>>

(* Conditional directives are obeyed at once, also while text waits.  The  *)
(* condition of an #if in text that is skipped is not evaluated, and false.*)
Condition(l) == IF l.k = "else" THEN TRUE ELSE (macros[l.m] # Absent) = (l.k # "ifndef")
Chain(l) ==
    CASE Opens(l)     -> PushIf(Top.conditionals, Active /\ Condition(l))
      [] l.k = "elif" -> HandleElif(Top.conditionals, Condition(l))
      [] l.k = "else" -> HandleElse(Top.conditionals)
      [] l.k = "endif" -> HandleEndif(Top.conditionals)
Groups(l) ==
    IF Opens(l) THEN Append(Top.groups, <<Condition(l)>>)
    ELSE IF Top.groups = <<>> THEN <<>>
    ELSE IF l.k = "endif" THEN Front(Top.groups)
    ELSE Append(Front(Top.groups), Append(Last(Top.groups), Condition(l)))

Conditional ==
    \E l \in NextLines :
        /\ l.k \in {"ifdef", "ifndef", "elif", "else", "endif"} /\ Reading(l)
        /\ frames' = Advanced([Top EXCEPT !.conditionals = Chain(l), !.groups = Groups(l)])
        /\ UNCHANGED <<text, forced, tables, output, status>>

(* Before #define, #undef and #include the main file gives out the text    *)
(* that waits, even where the directive is skipped; an included file does  *)
(* not.                                                                    *)
Flushing(toks) == IF InMain THEN Emit(toks) ELSE UNCHANGED output
Unpended(f) == IF InMain THEN [f EXCEPT !.pending = <<>>] ELSE f

Define ==
    \E l \in NextLines :
        /\ l.k \in {"define", "undef"} /\ Reading(l) /\ Flushing(Top.pending)
        /\ macros' = IF ~Active THEN macros
                     ELSE [macros EXCEPT ![l.m] = IF l.k = "define" THEN l.body ELSE Absent]
        /\ frames' = Advanced(Unpended(Top))
        /\ UNCHANGED <<text, forced, saves, once, guards, status>>

(* In an included file the other directives are text while text waits.     *)
TakenForText(l) ==
    /\ ~InMain /\ Top.pending # <<>>
    /\ IF Active THEN Accumulate(<<l.k>>) ELSE frames' = Advanced(Top) /\ UNCHANGED output
    /\ UNCHANGED <<macros, saves, once>>
Obeyed == InMain \/ Top.pending = <<>>

Pragma ==
    \E l \in NextLines :
        /\ l.k \in {"once", "push", "pop"} /\ Reading(l)
        /\ \/ TakenForText(l)
           \/ /\ Obeyed /\ frames' = Advanced(Top) /\ UNCHANGED output
              /\ once' = IF Active /\ l.k = "once" THEN once \union {Top.file} ELSE once
              /\ IF Active /\ l.k = "push"
                 THEN saves' = [saves EXCEPT ![l.m] = Append(@, macros[l.m])] /\ UNCHANGED macros
                 ELSE IF Active /\ l.k = "pop" /\ saves[l.m] # <<>>
                 THEN /\ saves' = [saves EXCEPT ![l.m] = Front(@)]
                      /\ macros' = [macros EXCEPT ![l.m] = Last(saves[l.m])]
                 ELSE UNCHANGED <<macros, saves>>
        /\ UNCHANGED <<text, forced, guards, status>>

(* handle_include.  A file is not read again when it said #pragma once,    *)
(* when the guard found in it is defined, and when it is being read as     *)
(* often as the limit allows.                                              *)
Guarded(f) == guards[f] # Absent /\ macros[guards[f]] # Absent
Depth(f) == Cardinality({i \in DOMAIN frames : frames[i].file = f})
(* Mutant: the depth is not looked at.                                     *)
SkippedAtAnyDepth(f) == f \in once \/ Guarded(f)
Skipped(f) == f \in once \/ Guarded(f) \/ Depth(f) >= MaxDepth

Include ==
    \E l \in NextLines :
        /\ l.k = "include" /\ Reading(l)
        /\ \/ TakenForText(l)
           \/ /\ Obeyed /\ Flushing(Top.pending)
              /\ frames' = Advanced(Unpended(Top))
                           \o (IF ~Active \/ Skipped(l.file) THEN <<>>
                               ELSE <<Frame(l.file, "include")>>)
              /\ UNCHANGED <<macros, saves, once>>
        /\ UNCHANGED <<text, forced, guards, status>>

(* The end of an included file: what waits is given out, the includer's    *)
(* chains are in force again, and the guard is remembered.                 *)
EndOfFile ==
    /\ status = "run" /\ ~InMain /\ Top.at = Len(text[Top.file])
    /\ Emit(Top.pending)
    /\ frames' = Front(frames)
    /\ guards' = IF Top.how = "include" /\ DetectedGuard(text[Top.file]) # Absent
                 THEN [guards EXCEPT ![Top.file] = DetectedGuard(text[Top.file])]
                 ELSE guards
    /\ UNCHANGED <<main, text, forced, macros, saves, once, status>>

(* Of the main file a chain that is left open is an error.                 *)
EndOfMain ==
    /\ status = "run" /\ InMain
    /\ Emit(Top.pending)
    /\ status' = IF Top.conditionals = <<>> THEN "done" ELSE "error"
    /\ frames' = <<>>
    /\ UNCHANGED <<main, text, forced, tables>>

-----------------------------------------------------------------------------

Init ==
    /\ main = <<>> /\ text \in Texts /\ forced \in DOMAIN text \union {Absent}
    /\ frames = <<>> /\ macros = [m \in Names \union {Fun} |-> Absent]
    /\ saves = [m \in DOMAIN macros |-> <<>>] /\ once = {} /\ guards = [f \in DOMAIN text |-> Absent]
    /\ output = <<>> /\ status = "start"

(* The file of -include is read first (preprocess_force_include).          *)
Start ==
    /\ status = "start" /\ status' = "run"
    /\ frames' = <<Frame(Main, "main")>>
                 \o (IF forced = Absent THEN <<>> ELSE <<Frame(forced, "force")>>)
    /\ UNCHANGED <<main, text, forced, tables, output>>

Done == status \in {"done", "error"} /\ UNCHANGED vars

Next ==
    \/ Start \/ Text \/ Conditional \/ Define \/ Pragma \/ Include
    \/ EndOfFile \/ EndOfMain \/ Done

Spec == Init /\ [][Next]_vars

-----------------------------------------------------------------------------
(* Invariants *)

Reads(f) == f = Main \/ f \in DOMAIN text
Body(b) == b \in Bodies \union {Absent}

(* The types of the variables, and the depth of inclusion.                 *)
TypeOK ==
    /\ status \in {"start", "run", "done", "error"}
    /\ Len(main) <= MaxMain
    /\ Len(frames) <= 1 + MaxDepth * Cardinality(DOMAIN text)
    /\ \A i \in DOMAIN frames :
        /\ frames[i].file = Main <=> i = 1
        /\ Reads(frames[i].file)
        /\ Len(frames[i].groups) = Len(frames[i].conditionals)
    /\ \A m \in Names \union {Fun} : Body(macros[m]) /\ \A j \in DOMAIN saves[m] : Body(saves[m][j])
    /\ \A f \in DOMAIN text : guards[f] \in Names \union {Absent}
    /\ \A f \in once : Reads(f)

(* Text is kept in the groups of an #if chain C keeps: of every open chain *)
(* the first whose condition holds.                                        *)
FirstTrue(group) == Last(group) /\ \A i \in 1..(Len(group) - 1) : ~group[i]
Kept(groups) == \A j \in DOMAIN groups : FirstTrue(groups[j])

FirstGroupKept ==
    \A i \in DOMAIN frames : IsActive(frames[i].conditionals) = Kept(frames[i].groups)

=============================================================================
