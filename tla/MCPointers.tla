----------------------------- MODULE MCPointers -----------------------------
(***************************************************************************)
(* Small MIR bodies for PointsTo and what is built on it: int x, y;        *)
(* int *p, *q; int **pp; and a temporary t for call results, over a        *)
(* diamond, a loop and dead code.                                          *)
(***************************************************************************)
EXTENDS PointerMoves, PointsPaths

x == 1  y == 2  p == 3  q == 4  pp == 5  t == 6
MCPointers == {p, q, pp, t}

At(v, shape) == [local |-> v, shape |-> shape]
Whole(v) == At(v, "plain")
Copy(pl) == [place |-> pl, move |-> FALSE]

Set(dst, kind, pl) == [dst |-> dst, kind |-> kind, from |-> <<Copy(pl)>>]
AddressOf(v, w)    == Set(Whole(v), "ref", Whole(w))             \* v = &w
CopyOf(v, w)       == Set(Whole(v), "use", Whole(w))             \* v = w
Store(v)           == [dst |-> At(v, "deref"), kind |-> "use", from |-> << >>]  \* *v = 1
Load(v, w)         == Set(Whole(v), "use", At(w, "deref"))       \* v = *w
Inside(v, w)       == Set(Whole(v), "ref", At(w, "deref"))       \* v = &w->f

Goto == [kind |-> "goto", from |-> << >>, dsts |-> << >>]
Pass(v) == [kind |-> "call", from |-> <<Copy(Whole(v))>>, dsts |-> <<Whole(t)>>]
Ret == [kind |-> "return", from |-> << >>, dsts |-> << >>]

(* `return x` after the choices of the inner blocks.                       *)
Readers(graphs, menu, ends) ==
  { [args |-> {}, needsDrop |-> {},
     code |-> [b \in Blocks |-> IF b = 0 THEN first
                                ELSE IF g[b + 1] = << >> THEN <<inner[b], CopyOf(0, x)>>
                                ELSE <<inner[b]>>],
     term |-> [b \in Blocks |-> IF b = 0 THEN Goto
                                ELSE IF g[b + 1] = << >> THEN Ret ELSE end[b]],
     succ |-> [b \in Blocks |-> g[b + 1]]]
    : g \in graphs, inner \in [Blocks \ {0} -> menu], end \in [{1, 2} -> ends],
      first \in { <<AddressOf(p, x)>>, <<AddressOf(p, x), AddressOf(pp, p)>> } }

Diamond == << <<1, 2>>, <<3>>, <<3>>, << >> >>
Loop    == << <<1>>, <<2, 3>>, <<1>>, << >> >>
Dead    == << <<2>>, <<2>>, <<3, 2>>, << >> >>   \* block 1 is code after a goto

MCMenu == { AddressOf(p, y), CopyOf(q, p), CopyOf(p, t), Load(q, pp),
            Inside(q, p), Store(q), Store(pp) }

(* Arrays and vectors y: drop-needing, passed in, moved and refilled.      *)
MoveOf(v, w) == [dst |-> Whole(v), kind |-> "use", from |-> <<[place |-> Whole(w), move |-> TRUE]>>]
Drop(v) == [kind |-> "call", from |-> <<[place |-> Whole(v), move |-> TRUE]>>, dsts |-> <<Whole(t)>>]

Owners(graphs, menu, ends) ==
  { [args |-> {y}, needsDrop |-> {x, y},
     code |-> [b \in Blocks |-> IF b = 0 THEN <<AddressOf(p, target)>>
                                ELSE IF g[b + 1] = << >> THEN <<inner[b], CopyOf(0, q)>>
                                ELSE <<inner[b]>>],
     term |-> [b \in Blocks |-> IF b = 0 THEN Goto
                                ELSE IF g[b + 1] = << >> THEN Ret ELSE end[b]],
     succ |-> [b \in Blocks |-> g[b + 1]]]
    : g \in graphs, inner \in [Blocks \ {0} -> menu], end \in [{1, 2} -> ends],
      target \in {x, y} }

OwningMenu == { AddressOf(p, y), MoveOf(x, y), MoveOf(y, x), Store(p), CopyOf(q, p) }

AllPrograms == Readers({Diamond, Loop, Dead}, MCMenu, {Goto, Pass(p)})
               \cup Owners({Diamond, Loop}, OwningMenu, {Goto, Pass(p), Drop(x)})
=============================================================================
