--------------------------- MODULE CInitializers ----------------------------
(***************************************************************************)
(* What the C standard says an initialiser means (C11 6.7.9), and          *)
(* Initializers measured against it.                                       *)
(***************************************************************************)
EXTENDS Initializers

Invalid == [ok |-> FALSE, tree |-> <<>>, last |-> <<>>]
Valid(tree, last) == [ok |-> TRUE, tree |-> tree, last |-> last]

(* The parts of an object of type t, by the path that leads to them, in    *)
(* the order of the path: a part comes after the ones it is inside of.     *)
RECURSIVE Parts(_)
Parts(t) == {<<>>} \union
    UNION {{<<i>> \o p : p \in Parts(Members[t][i])} : i \in DOMAIN Members[t]}

Before(p, q) ==
    \/ Len(p) < Len(q) /\ SubSeq(q, 1, Len(p)) = p
    \/ \E j \in DOMAIN p \intersect DOMAIN q :
            p[j] < q[j] /\ SubSeq(p, 1, j - 1) = SubSeq(q, 1, j - 1)

(* The scalars initialised without designators after part p (or from the   *)
(* start, p = <<>>): of a union, the first member or the one p is in.      *)
Following(t, p) ==
    {q \in Parts(t) :
        /\ ~IsAggregate(TypeOf(t, q)) /\ q # p
        /\ p # <<>> => Before(p, q) /\ ~Under(p, q)
        /\ \A j \in DOMAIN q :
               KindOf[TypeOf(t, SubSeq(q, 1, j - 1))] = "union" =>
                   q[j] = 1 \/ (j <= Len(p) /\ SubSeq(q, 1, j) = SubSeq(p, 1, j))}

(* The parts that begin with scalar s, largest first, up to those that     *)
(* contain p already.                                                      *)
BeginningWith(t, s, p) ==
    {q \in Parts(t) : Under(q, s) /\ q # <<>> /\ ~Under(q, p)
                      /\ \A j \in (Len(q) + 1)..Len(s) : s[j] = 1}

Assignable(v, t) ==
    CASE v.k = "value" -> v.of = t
      [] v.k = "str" -> KindOf[t] = "ptr"
      [] v.k = "int" -> IsPrimitive(t)

Takes(v, t) ==
    CASE v.k = "list" -> TRUE
      [] v.k = "str" /\ IsArray(t) -> KindOf[Element(t)] = "char"
      [] OTHER -> Assignable(v, t)

(* Where value v goes, p being the part initialised last; none, {}, for a  *)
(* value too many.                                                         *)
Elided(t, candidates, v) ==
    LET taking == {q \in candidates : Takes(v, TypeOf(t, q))} IN
    {q \in taking : \A r \in taking : Len(q) <= Len(r)}

Undesignated(t, p, v) ==
    LET next == Following(t, p) IN
    IF next = {} THEN {}
    ELSE LET s == CHOOSE q \in next : \A r \in next : q = r \/ Before(q, r)
         IN  Elided(t, BeginningWith(t, s, p), v)

(* A designated part takes the value itself or hands it to its first part. *)
FirstParts(t, p) ==
    {q \in Parts(t) : Under(p, q) /\ \A j \in (Len(p) + 1)..Len(q) : q[j] = 1}

(* One part per element of a range.                                        *)
Targets(t, p, item) ==
    IF item.des = <<>> THEN Undesignated(t, p, item.init)
    ELSE LET ranged == Ranged(item.des)
             to == Designated(t, IF ranged THEN Front(item.des) ELSE item.des)
             d == Last(item.des)
             heads == IF ranged THEN {Append(Path(to.at), n) : n \in d.n..d.to} ELSE {Path(to.at)}
         IN  IF ~to.ok \/ ~(heads \subseteq Parts(t)) THEN {}
             ELSE UNION {Elided(t, FirstParts(t, h), item.init) : h \in heads}

(* The members of a union give way to the one initialised last.            *)
Ousted(t, p, q) ==
    \E j \in DOMAIN p \intersect DOMAIN q :
        /\ SubSeq(p, 1, j - 1) = SubSeq(q, 1, j - 1) /\ p[j] # q[j]
        /\ KindOf[TypeOf(t, SubSeq(p, 1, j - 1))] = "union"

Replace(t, tree, p, node) ==
    LET kept == {q \in DOMAIN tree : ~Ousted(t, p, q)}
    IN  Graft([q \in kept |-> tree[q]], {p}, node)

RECURSIVE Meaning(_, _, _), ListMeaning(_, _, _, _)

(* A list for an aggregate, item by item.                                  *)
ListMeaning(t, items, at, n) ==
    IF n = 0 THEN Valid(<<>>, <<>>)
    ELSE LET before == ListMeaning(t, items, at, n - 1)
             targets == Targets(t, before.last, items[n])
             p == CHOOSE q \in targets : \A r \in targets : q = r \/ Before(r, q)
             node == Meaning(TypeOf(t, p), items[n].init, Append(at, n))
         IN  IF ~before.ok \/ targets = {} THEN Invalid
             ELSE IF ~node.ok THEN Invalid
             ELSE Valid(FoldSet(LAMBDA q, tree : Replace(t, tree, q, node.tree),
                                before.tree, targets), p)

Meaning(t, init, at) ==
    IF init.k = "str" /\ IsArray(t)
    THEN IF KindOf[Element(t)] # "char" \/ init.n - 1 > Len(Members[t]) THEN Invalid
         ELSE Valid([q \in {<<i>> : i \in 1..Min({init.n, Len(Members[t])})} |-> at \o q], <<>>)
    ELSE IF init.k # "list"
    THEN IF Assignable(init, t) THEN Valid(Leaf(at), <<>>) ELSE Invalid
    ELSE IF Solo(init) /\ Only(init).k = "str" /\ IsArray(t) /\ KindOf[Element(t)] = "char"
    THEN Meaning(t, Only(init), Append(at, 1))
    ELSE IF ~IsAggregate(t)
    THEN IF Solo(init) /\ Only(init).k # "list" THEN Meaning(t, Only(init), Append(at, 1))
         ELSE Invalid
    ELSE ListMeaning(t, init.items, at, Len(init.items))

-----------------------------------------------------------------------------
(* Properties *)

(* A declaration C accepts is built as C says: every part of the object    *)
(* gets the value the standard gives it, whatever braces are left out and  *)
(* wherever designators send the cursor.                                   *)
BuiltAsC ==
    LET meaning == Meaning(input.ty, input.init, <<>>) IN
    (Finished /\ meaning.ok) =>
        status = "done" /\ Built(input.ty, result) = meaning.tree

(* The declarations of which the code knowingly or not makes something     *)
(* else.  A list in two braces loses the outer ones, although a designator *)
(* in it is meant for the first member; only for an array, if a field is   *)
(* designated, the code keeps them.                                        *)
DesignatedInTwoBraces ==
    /\ Solo(input.init) /\ Only(input.init).k = "list"
    /\ ~(IsArray(input.ty) /\ HasFieldDesignator(Only(input.init)))
    /\ \E i \in DOMAIN Only(input.init).items : Only(input.init).items[i].des # <<>>

(* The list of a union whose first member is a struct starts inside of     *)
(* that member, even with a value or a list for the whole of it.           *)
ValueForUnion ==
    /\ KindOf[input.ty] = "union" /\ IsAdt(Members[input.ty][1])
    /\ input.init.items[1].des = <<>>
    /\ \/ input.init.items[1].init.k = "value"
       \/ input.init.items[1].init.k = "list" /\ ~Solo(input.init)

(* The value of a range goes to the elements, not to their first parts.    *)
RangeOfParts ==
    \E i \in DOMAIN input.init.items :
        LET item == input.init.items[i] IN
        /\ Ranged(item.des)
        /\ LET to == Designated(input.ty, Front(item.des)) IN
            to.ok => ~Takes(item.init, Element(TypeAt(input.ty, to.at)))

(* A part of a struct that was given as a whole is overridden: a panic.    *)
PartOfValue ==
    LET given == DOMAIN Meaning(input.ty, input.init, <<>>).tree IN
    \E q \in given, r \in given : q # r /\ Under(q, r)

(* Two members of a union are given values, and the last should win.       *)
TwoMembers ==
    LET upTo(n) == ListMeaning(input.ty, input.init.items, <<>>, n) IN
    \E n \in DOMAIN input.init.items : \E q \in DOMAIN upTo(n - 1).tree :
        Ousted(input.ty, upTo(n).last, q)

(* A lone string in braces is spelled out whatever the array holds.        *)
LoneString ==
    LET lone(init) == Solo(init) /\ Only(init).k = "str" IN
    /\ IsArray(input.ty) /\ KindOf[Element(input.ty)] # "char"
    /\ lone(input.init) \/ (Solo(input.init) /\ lone(Only(input.init)))

(* Outside of those, every declaration C accepts is built as C says.       *)
SameObject ==
    Finished =>
    \/ DesignatedInTwoBraces \/ ValueForUnion \/ RangeOfParts
    \/ PartOfValue \/ TwoMembers \/ LoneString \/ BuiltAsC

(* `{ "string" }` is the string only for an array of characters (the       *)
(* comment at initializer_tree.rs:456 says char arr[]): an array of        *)
(* anything else takes the string for its first element.                   *)
LoneStringAsC == Finished /\ LoneString => BuiltAsC

=============================================================================
