------------------------------- MODULE MCMoves -------------------------------
(***************************************************************************)
(* Small instances of MoveRun.  OneVariable has every way to fill the      *)
(* blocks with events of local 1, TwoVariables two locals one of which may *)
(* be moved into the other, over control-flow graphs that exercise joins,  *)
(* loops and dead blocks.                                                  *)
(***************************************************************************)
EXTENDS MoveRun

(* The events MIR generation gives local p at one point.                   *)
Ev(a, b, m, w, s) == [accessed |-> a, borrowed |-> b, moved |-> m, written |-> w, assigned |-> s]
Nothing     == Ev({}, {}, {}, {}, {})
Read(p)     == Ev({p}, {}, {}, {}, {})
Borrow(p)   == Ev({}, {p}, {}, {}, {})
Move(p)     == Ev({p}, {}, {p}, {}, {})
Write(p)    == Ev({}, {}, {}, {p}, {})
Assign(p)   == Ev({}, {}, {}, {}, {p})
Pass(p, q)  == Ev({p}, {}, {p}, {}, {q})   \* q = move p; p = f(p) when they are one
CallWith(p) == Ev({p}, {}, {p}, {p}, {})   \* f(move p): p escapes and is moved

(* The terminator of a return block reads the return place.                *)
Ret == Ev({0}, {}, {}, {}, {})
PutReturn(ev) == [ev EXCEPT !.assigned = @ \cup {0}]

(* Control-flow graphs: successors of each block, return blocks.           *)
(* 0 -> 1, 2 -> 3, the branches in either order.                           *)
Diamond  == << << <<1, 2>>, <<3>>, <<3>>, << >> >>, {3} >>
Diamond2 == << << <<2, 1>>, <<3>>, <<3>>, << >> >>, {3} >>
(* A while loop with a body and an exit, and one whose body may return.    *)
Loop     == << << <<1>>, <<2, 3>>, <<1>>, << >> >>, {3} >>
LoopExit == << << <<1>>, <<2, 3>>, <<1, 3>>, << >> >>, {3} >>
SelfLoop == << << <<1>>, <<1, 2>>, <<3>>, << >> >>, {3} >>
TwoExits == << << <<1, 2>>, << >>, <<2, 3>>, << >> >>, {1, 3} >>
(* Code after an infinite loop, and after a call that never returns.       *)
DeadEnd  == << << <<1>>, <<1>>, <<3>>, << >> >>, {3} >>
Diverge  == << << <<1, 2>>, << >>, << >>, << >> >>, {2, 3} >>

Menu1 == {Nothing, Read(1), Borrow(1), Move(1), Write(1), Assign(1), Pass(1, 1)}
Shape1(shapes) ==
  { [args |-> a, needsDrop |-> {1},
     points |-> [b \in Blocks |->
                   IF b \in s[2] THEN <<PutReturn(evs[b]), Ret>>
                                 ELSE <<evs[b]>>],
     succ |-> [b \in Blocks |-> s[1][b + 1]], returns |-> s[2]]
    : a \in {{}, {1}}, s \in shapes,
      evs \in { e \in [Blocks -> Menu1] : e[0] \in {Nothing, Assign(1)} } }

Menu2 == {Nothing, Read(1), Borrow(1), Assign(1), Write(2), Read(2), CallWith(2)}
         \cup { Pass(p, q) : p \in {1, 2}, q \in {1, 2} }
Shape2(shapes) ==
  { [args |-> {1}, needsDrop |-> {1, 2},
     points |-> [b \in Blocks |-> IF b \in s[2] THEN <<evs[b], Assign(0), Ret>> ELSE <<evs[b]>>],
     succ |-> [b \in Blocks |-> s[1][b + 1]], returns |-> s[2]]
    : s \in shapes,
      evs \in { e \in [Blocks -> Menu2] : e[0] \in {Nothing, Assign(2), Pass(1, 2)} } }

LiveBodies == Shape1({Diamond, Diamond2, Loop, LoopExit, SelfLoop, TwoExits})
              \cup Shape2({Diamond, Loop, TwoExits})
DeadBodies == Shape1({DeadEnd, Diverge})
=============================================================================
