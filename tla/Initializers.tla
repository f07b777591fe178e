---------------------------- MODULE Initializers ----------------------------
(***************************************************************************)
(* Brace initialisers: HirCtx::try_lower_to_initializer_tree of co2_hir    *)
(* walks an initialiser with a cursor that says which part of the object   *)
(* the next value goes to, and fills a tree of values.                     *)
(*                                                                         *)
(* The function is recursive; `calls` is its stack, and a step is taken    *)
(* per rule that rewrites the initialiser and per item of a list.  A type  *)
(* is a name with a kind and its members (fields, or as many copies of the *)
(* element as the array is long).  A tree is a function from the paths of  *)
(* its leaves to what was put there: an expression or a character of a     *)
(* string literal, named by its address in the initialiser, and the type   *)
(* it was converted to.                                                    *)
(***************************************************************************)
EXTENDS Naturals, Sequences, FiniteSets, SequencesExt, FiniteSetsExt

CONSTANTS
    Types,          \* names of types
    KindOf,         \* their kind: "char", "int", "ptr", "struct", "union", "array"
    Members,        \* their members' types, in order
    FieldNames,     \* the names of the fields of a struct or union
    Inits,          \* the initialisers a program is made of
    Items,          \* the items a declaration of each type may begin with,
    Rest,           \* those it may go on with,
    MaxFirst,       \* how many of the former a declaration has,
    MaxItems        \* and how many of both

VARIABLES
    input,          \* the declaration: its type and the list that follows
    calls,          \* calls in progress, outermost first
    result,         \* the tree the call that has just returned made
    astray,         \* history: the value of a range went on to a part of
                    \* the element
    status          \* "write" while the declaration is being written, "run",
                    \* "done", "error" (diagnosed) or "panic"

vars == <<input, calls, result, astray, status>>

-----------------------------------------------------------------------------
(* Types *)

IsArray(t) == KindOf[t] = "array"
IsAdt(t) == KindOf[t] \in {"struct", "union"}
IsAggregate(t) == IsAdt(t) \/ IsArray(t)
IsPrimitive(t) == KindOf[t] \in {"char", "int"}
Element(t) == Members[t][1]

(* A struct without members is left out, go_through has a todo!() there    *)
(* (initializer_tree.rs:158), and so is an array without elements; the     *)
(* elements of an array have one type.                                     *)
ASSUME TypesAssumption ==
    /\ KindOf \in [Types -> {"char", "int", "ptr", "struct", "union", "array"}]
    /\ Members \in [Types -> Seq(Types)]
    /\ \A t \in Types : IsAdt(t) => DOMAIN FieldNames[t] = DOMAIN Members[t]
    /\ \A t \in Types : IsAggregate(t) => Members[t] # <<>>
    /\ \A t \in Types : IsArray(t) => \A i \in DOMAIN Members[t] : Members[t][i] = Element(t)

(* coerce_expr_to_type: numbers and pointers convert to each other, a      *)
(* struct or union only to itself.                                         *)
Coerces(v, t) == IF v.k = "value" THEN v.of = t ELSE ~IsAggregate(t)

-----------------------------------------------------------------------------
(* Initialisers: [k |-> "list", items], [k |-> "str", n] for n characters   *)
(* with the final NUL, [k |-> "int"], [k |-> "value", of].  Items: the      *)
(* designators des and the initialiser init; a designator is a field, a    *)
(* subscript or, as the last one, a range from n to to.                    *)

(* The one item of a list of one without designators.                      *)
Solo(init) == init.k = "list" /\ Len(init.items) = 1 /\ init.items[1].des = <<>>
Only(init) == init.items[1].init

HasFieldDesignator(init) ==
    \E i \in DOMAIN init.items : \E j \in DOMAIN init.items[i].des :
        init.items[i].des[j].k = "field"

AnInteger == [k |-> "int"]
Characters(n) == [i \in 1..n |-> [des |-> <<>>, init |-> AnInteger]]

Designator ==
    [k : {"field"}, n : UNION {ToSet(FieldNames[t]) : t \in Types}]
        \union [k : {"sub"}, n : Nat \ {0}]
        \union [k : {"range"}, n : Nat \ {0}, to : Nat \ {0}]
ListItem == [des : Seq(Designator), init : Inits]
IsInitialiser(init) ==
    /\ init.k \in {"list", "str", "int", "value"}
    /\ init.k = "list" => init.items \in Seq(ListItem)
    /\ init.k = "str" => init.n \in Nat

ASSUME ItemsAssumption ==
    /\ AnInteger \in Inits /\ \A init \in Inits : IsInitialiser(init)
    /\ DOMAIN Items \subseteq Types /\ Rest \subseteq ListItem
    /\ \A t \in DOMAIN Items : Items[t] \subseteq ListItem

-----------------------------------------------------------------------------
(* Cursors: the stack of (index, type) below a base type. *)

Entry(i, t) == [i |-> i, ty |-> t]
Path(cursor) == [j \in DOMAIN cursor |-> cursor[j].i]
TypeAt(base, cursor) == IF cursor = <<>> THEN base ELSE Last(cursor).ty
ParentAt(base, cursor, j) == IF j = 1 THEN base ELSE cursor[j - 1].ty

Into(base, cursor) ==
    Append(cursor, Entry(1, Members[TypeAt(base, cursor)][1]))

(* go_next: the innermost part that has a successor in its parent gives    *)
(* way to it; a union has no second part.                                  *)
MayGoOn(base, cursor, j) == cursor[j].i < Len(Members[ParentAt(base, cursor, j)])
HasNext(base, cursor, j) ==
    /\ KindOf[ParentAt(base, cursor, j)] # "union"
    /\ MayGoOn(base, cursor, j)

(* Mutant: the type is kept.                                               *)
SameTypeNext(base, cursor, j) == Entry(cursor[j].i + 1, cursor[j].ty)
Successor(base, cursor, j) ==
    Entry(cursor[j].i + 1, Members[ParentAt(base, cursor, j)][cursor[j].i + 1])

GoNext(base, cursor) ==
    LET more == {j \in DOMAIN cursor : HasNext(base, cursor, j)}
        j == Max(more)
    IN  IF more = {} THEN <<>>
        ELSE Append(SubSeq(cursor, 1, j - 1), Successor(base, cursor, j))

(* The cursor a list starts with.                                          *)
FirstCursor(t) ==
    LET one == Into(t, <<>>) IN
    IF KindOf[t] = "union" /\ IsAdt(Last(one).ty) THEN Into(t, one) ELSE one

(* from_designators: where a designator leads inside type t, 0 if it fits  *)
(* no member; a subscript may be past the end.                             *)
Designates(t, d) ==
    IF d.k = "field"
    THEN IF IsAdt(t) /\ d.n \in ToSet(FieldNames[t])
         THEN CHOOSE i \in DOMAIN FieldNames[t] : FieldNames[t][i] = d.n ELSE 0
    ELSE IF IsArray(t) THEN d.n ELSE 0

Designated(base, des) ==
    LET cursor[j \in 0..Len(des)] ==
            IF j = 0 THEN [ok |-> TRUE, at |-> <<>>]
            ELSE LET before == cursor[j - 1]
                     t == TypeAt(base, before.at)
                     i == Designates(t, des[j])
                 IN  IF ~before.ok \/ i = 0 THEN [before EXCEPT !.ok = FALSE]
                     ELSE [before EXCEPT !.at = Append(@, Entry(i,
                              IF IsArray(t) THEN Element(t) ELSE Members[t][i]))]
    IN  cursor[Len(des)]

-----------------------------------------------------------------------------
(* Trees *)

Under(p, q) == IsPrefix(p, q)
Leaf(v) == [p \in {<<>>} |-> v]
Coerced(at, t) == [at |-> at, ty |-> t]

(* The tree with node at each of the paths ps, which are equally long, in  *)
(* place of what was there.                                                *)
Graft(tree, ps, node) ==
    LET kept == {q \in DOMAIN tree : \A p \in ps : ~Under(p, q)}
        new(p) == {p \o r : r \in DOMAIN node}
    IN  [q \in kept \union UNION {new(p) : p \in ps} |->
            IF q \in kept THEN tree[q]
            ELSE LET p == CHOOSE p \in ps : Under(p, q)
                 IN  node[SubSeq(q, Len(p) + 1, Len(q))]]

(* insert_to_tree drops a value past the end of an array, and does not     *)
(* look inside a value that stands for a whole struct.                     *)
(* Mutant: off by one.                                                     *)
PastTheEndByMore(base, cursor) ==
    \E j \in DOMAIN cursor :
        LET parent == ParentAt(base, cursor, j) IN
        IsArray(parent) /\ cursor[j].i > Len(Members[parent]) + 1
PastTheEnd(base, cursor) ==
    \E j \in DOMAIN cursor :
        LET parent == ParentAt(base, cursor, j) IN
        IsArray(parent) /\ cursor[j].i > Len(Members[parent])
InsideALeaf(tree, p) == \E q \in DOMAIN tree : Under(q, p) /\ q # p

-----------------------------------------------------------------------------
(* Calls *)

(* stage: "enter" until the rules below have decided what the call does;   *)
(* "item" between two items of a list, "place" with the cursor at an item, *)
(* "wait" while a nested list is lowered.  For an item with a range, slots *)
(* are the cursors of the elements its value is copied to, otherwise there *)
(* are none and the value goes to the cursor.                              *)
Call(t, init, at) ==
    [ty |-> t, init |-> init, at |-> at, stage |-> "enter",
     cursor |-> <<>>, slots |-> <<>>, tree |-> <<>>, done |-> 0]

Top == Last(calls)
SetTop(c) == calls' = Append(Front(calls), c)
Item == Top.init.items[Top.done + 1]

Entering == status = "run" /\ calls # <<>> /\ Top.stage = "enter"

(* Returning from the innermost call.                                      *)
Return(tree) ==
    /\ calls' = Front(calls)
    /\ result' = tree
    /\ status' = IF Len(calls) = 1 THEN "done" ELSE "run"
    /\ UNCHANGED <<input, astray>>

Fail(how) == status' = how /\ UNCHANGED <<input, calls, result, astray>>

Continue(c) == SetTop(c) /\ UNCHANGED <<input, result, astray, status>>
Rewrite(init, at) == Continue([Top EXCEPT !.init = init, !.at = at])

(* `{ { ... } }` is `{ ... }`, except that in an array inner field         *)
(* designators show that the inner braces are those of the first element.  *)
Unwraps == Solo(Top.init) /\ Only(Top.init).k = "list"
           /\ ~(IsArray(Top.ty) /\ HasFieldDesignator(Only(Top.init)))

Unwrap == Entering /\ Unwraps /\ Rewrite(Only(Top.init), Append(Top.at, 1))

(* `{ "string" }` is `"string"`.                                           *)
UnwrapString ==
    /\ Entering
    /\ IsArray(Top.ty) /\ Solo(Top.init) /\ Only(Top.init).k = "str"
    /\ Rewrite(Only(Top.init), Append(Top.at, 1))

(* A string literal for an array is a list of characters; the trailing NUL *)
(* and what does not fit are cut off.                                      *)
Spell ==
    /\ Entering /\ Top.init.k = "str" /\ IsArray(Top.ty)
    /\ Rewrite([k |-> "list", items |->
                    Characters(Min({Top.init.n, Len(Members[Top.ty])}))], Top.at)

LeafCall ==
    /\ Entering /\ Top.init.k # "list"
    /\ ~(Top.init.k = "str" /\ IsArray(Top.ty))
    /\ IF Coerces(Top.init, Top.ty) THEN Return(Leaf(Coerced(Top.at, Top.ty))) ELSE Fail("error")

BracedScalar ==
    /\ Entering /\ Top.init.k = "list" /\ ~Unwraps /\ ~IsAggregate(Top.ty)
    /\ IF Top.init.items = <<>> \/ Top.init.items[1].des # <<>>
       THEN Fail("error")
       ELSE Rewrite(Only(Top.init), Append(Top.at, 1))

StartList ==
    /\ Entering /\ Top.init.k = "list" /\ ~Unwraps /\ IsAggregate(Top.ty)
    /\ ~(IsArray(Top.ty) /\ Solo(Top.init) /\ Only(Top.init).k = "str")
    /\ Continue([Top EXCEPT !.stage = "item", !.cursor = FirstCursor(Top.ty)])

AtItem == status = "run" /\ calls # <<>> /\ Top.stage = "item" /\ Top.done < Len(Top.init.items)

Skip == Continue([Top EXCEPT !.done = @ + 1])
Ranged(des) == des # <<>> /\ Last(des).k = "range"

(* The cursor moves to where the designators lead, or stays; without a     *)
(* part left the item is skipped.                                          *)
Seek ==
    /\ AtItem /\ ~Ranged(Item.des)
    /\ LET to == Designated(Top.ty, Item.des)
           cursor == IF Item.des = <<>> THEN Top.cursor ELSE to.at
       IN  IF ~to.ok THEN Fail("error")
           ELSE IF cursor = <<>> THEN Skip
           ELSE Continue([Top EXCEPT !.cursor = cursor, !.slots = <<>>, !.stage = "place"])

(* The value of a range is made once, for its first element.               *)
SeekRange ==
    /\ AtItem /\ Ranged(Item.des)
    /\ LET to == Designated(Top.ty, Front(Item.des))
           t == TypeAt(Top.ty, to.at)
           lo == Last(Item.des).n
           hi == Last(Item.des).to
           slot == [j \in 1..(hi + 1 - lo) |-> Append(to.at, Entry(lo + j - 1, Element(t)))]
       IN  IF ~to.ok \/ hi < lo \/ ~IsArray(t) THEN Fail("error")
           ELSE Continue([Top EXCEPT !.cursor = slot[1], !.slots = slot, !.stage = "place"])

Placing == status = "run" /\ calls # <<>> /\ Top.stage = "place"
Here == TypeAt(Top.ty, Top.cursor)

Accepts(v, t) ==
    IF v.k = "str" THEN ~IsAdt(t) /\ (IsArray(t) => IsPrimitive(Element(t)))
    ELSE Coerces(v, t)

(* Brace elision: an expression goes to the first part that takes it.  The *)
(* slots of a range stay with the elements.                                *)
Descend ==
    /\ Placing /\ Item.init.k # "list" /\ ~Accepts(Item.init, Here)
    /\ IF IsAggregate(Here)
       THEN /\ SetTop([Top EXCEPT !.cursor = Into(Top.ty, @)])
            /\ astray' = (astray \/ Top.slots # <<>>)
            /\ UNCHANGED <<input, result, status>>
       ELSE Fail("error")

(* The value goes in at the cursor, or into every slot, and the cursor     *)
(* moves on from there.                                                    *)
Insert(node) ==
    LET slots == IF Top.slots = <<>> THEN <<Top.cursor>> ELSE Top.slots
        inside == {i \in DOMAIN slots : ~PastTheEnd(Top.ty, slots[i])}
    IN  IF \E i \in inside : InsideALeaf(Top.tree, Path(slots[i])) THEN Fail("panic")
        ELSE Continue([Top EXCEPT !.stage = "item", !.done = @ + 1,
                            !.cursor = GoNext(Top.ty, Last(slots)),
                            !.tree = Graft(@, {Path(slots[i]) : i \in inside}, node)])

Place ==
    /\ Placing /\ Item.init.k \in {"int", "value"} /\ Accepts(Item.init, Here)
    /\ Insert(Leaf(Coerced(Append(Top.at, Top.done + 1), Here)))

(* A nested list, or a string for an array, is a call of its own.          *)
Recurse ==
    /\ Placing
    /\ Item.init.k = "list" \/ (Item.init.k = "str" /\ Accepts(Item.init, Here))
    /\ calls' = Append(Front(calls), [Top EXCEPT !.stage = "wait"])
                \o <<Call(Here, Item.init, Append(Top.at, Top.done + 1))>>
    /\ UNCHANGED <<input, result, astray, status>>

(* ... whose tree is inserted when it returns.                             *)
Resume ==
    /\ status = "run" /\ calls # <<>> /\ Top.stage = "wait"
    /\ Insert(result)

EndList ==
    /\ status = "run" /\ calls # <<>> /\ Top.stage = "item"
    /\ Top.done = Len(Top.init.items)
    /\ Return(Top.tree)

Init ==
    /\ input \in {[ty |-> t, init |-> [k |-> "list", items |-> <<>>]] : t \in DOMAIN Items}
    /\ calls = <<>> /\ result = <<>> /\ astray = FALSE /\ status = "write"

(* The environment writes the declaration.                                 *)
Write ==
    /\ status = "write" /\ Len(input.init.items) < MaxItems
    /\ \E item \in IF Len(input.init.items) < MaxFirst THEN Items[input.ty] ELSE Rest :
            input' = [input EXCEPT !.init.items = Append(@, item)]
    /\ UNCHANGED <<calls, result, astray, status>>

Begin ==
    /\ status = "write" /\ input.init.items # <<>>
    /\ calls' = <<Call(input.ty, input.init, <<>>)>>
    /\ status' = "run"
    /\ UNCHANGED <<input, result, astray>>

Finished == status \in {"done", "error", "panic"}
Ended == Finished /\ UNCHANGED vars

Next ==
    \/ Write \/ Begin \/ Ended
    \/ Unwrap \/ UnwrapString \/ Spell \/ LeafCall \/ BracedScalar \/ StartList
    \/ Seek \/ SeekRange \/ Descend \/ Place \/ Recurse \/ Resume \/ EndList

Spec == Init /\ [][Next]_vars

-----------------------------------------------------------------------------
(* The aggregate that is built from the tree (initializer_tree_to_expr).   *)

TypeOf(t, p) ==
    LET ty[j \in 0..Len(p)] == IF j = 0 THEN t
                               ELSE IF IsArray(ty[j - 1]) THEN Element(ty[j - 1])
                               ELSE Members[ty[j - 1]][p[j]]
    IN  ty[Len(p)]

(* Of a union, the first member that was given anything.                   *)
Built(t, tree) ==
    LET passedOver(p, j) ==
            /\ KindOf[TypeOf(t, SubSeq(p, 1, j - 1))] = "union"
            /\ \E q \in DOMAIN tree : IsPrefix(SubSeq(p, 1, j - 1), q) /\ q[j] < p[j]
        kept == {p \in DOMAIN tree : \A j \in DOMAIN p : ~passedOver(p, j)}
    IN  [p \in kept |-> tree[p].at]

-----------------------------------------------------------------------------
(* Invariants *)

(* The types a cursor carries are those of the parts it stands at: what an *)
(* expression is coerced to is the type of the place it is stored in, also *)
(* after the cursor has moved on through arrays, structs and unions.       *)
WellTyped(base, cursor) ==
    \A j \in DOMAIN cursor :
        LET parent == ParentAt(base, cursor, j) IN
        /\ Members[parent] # <<>>
        /\ cursor[j].ty = IF IsArray(parent) THEN Element(parent)
                          ELSE Members[parent][cursor[j].i]
        /\ IsArray(parent) \/ cursor[j].i \in DOMAIN Members[parent]

CursorsTyped ==
    \A j \in DOMAIN calls :
        /\ WellTyped(calls[j].ty, calls[j].cursor)
        /\ \A i \in DOMAIN calls[j].slots : WellTyped(calls[j].ty, calls[j].slots[i])

(* A tree has values only for parts that the type has, none past the end   *)
(* of an array (insert_to_tree: growing "would produce broken MIR"),       *)
(* and each was converted to the type of the part it is put at, by however *)
(* many calls, braces and designators it came there.  Known to differ: the *)
(* value of a range that was meant for a part of the elements.             *)
IsPart(t, p) ==
    \A j \in DOMAIN p : p[j] \in DOMAIN Members[TypeOf(t, SubSeq(p, 1, j - 1))]

ValuesOfParts(t, tree) ==
    \A p \in DOMAIN tree : IsPart(t, p) /\ tree[p].ty = TypeOf(t, p)

ValuesFit ==
    ~astray =>
        /\ \A j \in DOMAIN calls : ValuesOfParts(calls[j].ty, calls[j].tree)
        /\ status = "done" => ValuesOfParts(input.ty, result)

=============================================================================
