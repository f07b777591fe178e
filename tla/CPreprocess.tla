----------------------------- MODULE CPreprocess ----------------------------
(***************************************************************************)
(* What preprocessing a file means (C11 6.10), line after line: text is    *)
(* replaced as the macros stand where it is, of every chain of             *)
(* conditionals the first group whose condition holds is kept, #include    *)
(* is the other file's text, every time.  And Preprocess against it.       *)
(***************************************************************************)
EXTENDS Preprocess

(* The meaning so far.  name says whether the text ends with the name of   *)
(* the function-like macro ("no", "yes", or "torn" with a directive after  *)
(* it); open counts the open parentheses, and depth the open files.        *)
Nothing ==
    [macros |-> [m \in Names \union {Fun} |-> Absent],
     saves |-> [m \in Names \union {Fun} |-> <<>>], once |-> {}, out |-> <<>>,
     groups |-> <<>>, name |-> "no", open |-> 0, depth |-> [f \in DOMAIN text |-> 0],
     odd |-> FALSE, held |-> FALSE, deep |-> FALSE]

ReadText(st, toks) ==
    LET expanded == Expand(toks, st.macros)
        call == st.name = "yes" /\ toks[1] = "("
        opened == st.open + Count(toks, {"(", "g("})
        closed == Count(toks, {")"})
    IN  [st EXCEPT
            !.out = (IF call THEN Append(Front(@), "call") ELSE @) \o expanded,
            !.name = IF EndsWithFun(expanded, st.macros) THEN "yes" ELSE "no",
            !.odd = @ \/ (st.name = "torn" /\ toks[1] = "("),
            !.open = IF opened > closed THEN opened - closed ELSE 0]

ReadCondition(st, l) ==
    LET c == l.k = "else" \/ (st.macros[l.m] # Absent) = (l.k # "ifndef")
        open == st.groups
    IN  [st EXCEPT !.groups =
            CASE Opens(l) -> Append(open, <<c>>)
              [] l.k = "endif" -> Front(open)
              [] l.k \in {"elif", "else"} -> Append(Front(open), Append(Last(open), c))]

Torn(st) == [st EXCEPT !.name = IF @ = "yes" THEN "torn" ELSE @]

RECURSIVE ReadFile(_, _), ReadLines(_, _, _, _)

(* A file begins without open chains and parentheses and leaves its        *)
(* includer's as they were.                                                *)
ReadFile(st, f) ==
    IF f \in st.once THEN st
    ELSE IF st.depth[f] > MaxDepth THEN [st EXCEPT !.deep = TRUE]
    ELSE LET in == [st EXCEPT !.groups = <<>>, !.open = 0, !.depth[f] = @ + 1]
             out == ReadLines(in, f, text[f], Len(text[f]))
         IN  Torn([out EXCEPT !.groups = st.groups, !.open = st.open, !.depth = st.depth])

(* held: a directive inside of the parentheses of a call, or after a name  *)
(* that waits for its own.                                                 *)
ReadLines(st, f, lines, n) ==
    IF n = 0 THEN st
    ELSE LET l == lines[n]
             before == ReadLines(st, f, lines, n - 1)
             inside == before.open > 0 \/ before.name # "no"
             now == IF l.k = "text" THEN before
                    ELSE [Torn(before) EXCEPT !.held =
                        @ \/ (/\ Kept(before.groups) /\ inside
                              /\ \/ l.k = "pop"
                                 \/ f # Main /\ l.k \in {"define", "undef", "include", "once", "push"})]
         IN  IF l.k \in {"ifdef", "ifndef", "elif", "else", "endif"} THEN ReadCondition(now, l)
             ELSE IF ~Kept(now.groups) THEN now
             ELSE CASE l.k = "text" -> ReadText(now, l.toks)
                    [] l.k = "define" -> [now EXCEPT !.macros[l.m] = l.body]
                    [] l.k = "undef" -> [now EXCEPT !.macros[l.m] = Absent]
                    [] l.k = "once" -> [now EXCEPT !.once = @ \union {f}]
                    [] l.k = "push" -> [now EXCEPT !.saves[l.m] = Append(@, now.macros[l.m])]
                    [] l.k = "pop" ->
                        IF now.saves[l.m] = <<>> THEN now
                        ELSE [now EXCEPT !.macros[l.m] = Last(now.saves[l.m]),
                                         !.saves[l.m] = Front(@)]
                    [] l.k = "include" -> ReadFile(now, l.file)

(* The file of -include is read as if it were included at the beginning,   *)
(* but its text is left out.                                               *)
Meaning ==
    LET start == IF forced = Absent THEN Nothing
                 ELSE [ReadFile(Nothing, forced) EXCEPT !.out = <<>>]
    IN  ReadLines(start, Main, main, Len(main))

-----------------------------------------------------------------------------
(* Properties *)

(* The output and the macros are those of the meaning, whatever was        *)
(* skipped on the strength of a guard and however long text waited for its *)
(* parentheses to close.  Left open by C: directives between a macro's     *)
(* name and its arguments (odd), files that include themselves without end *)
(* (deep).  Known to differ (held): a directive between the parentheses of *)
(* a call in an included file, which the code takes for text, or any other *)
(* such directive that the code only obeys once the call has ended.        *)
(* Nothing is said of the text of the -include file itself, on which the   *)
(* code and its doc differ (pipeline.rs:731 and 758): the output may begin *)
(* with any, but ends as the main file means.                              *)
SameOutput ==
    status = "done" =>
        LET meaning == Meaning IN
        \/ meaning.odd \/ meaning.deep \/ meaning.held
        \/ /\ macros = meaning.macros
           /\ IsSuffix(meaning.out, output)
           /\ forced = Absent => output = meaning.out

(* A file that is skipped for its guard would have contributed nothing.    *)
SkipsOnlyNothing ==
    \A f \in DOMAIN text : Guarded(f) =>
        LET before == [Nothing EXCEPT !.macros = macros]
            after == ReadFile(before, f)
        IN  after = before

=============================================================================
