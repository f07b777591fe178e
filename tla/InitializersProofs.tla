------------------------- MODULE InitializersProofs -------------------------
(***************************************************************************)
(* Proofs about the lowering of brace initialisers, for any types and any  *)
(* initialisers: where the cursor is, and what the trees hold.             *)
(***************************************************************************)
EXTENDS Initializers, SequenceTheorems, Inductions, TLAPS

-----------------------------------------------------------------------------
(***************************************************************************)
(* Paths.                                                                  *)
(***************************************************************************)
Paths == Seq(Nat)

LEMMA PathLen == ASSUME NEW p \in Paths PROVE Len(p) \in Nat /\ DOMAIN p = 1 .. Len(p)
BY DEF Paths

LEMMA UnderIs ==
  ASSUME NEW p \in Paths, NEW q \in Paths
  PROVE  Under(p, q) <=> Len(p) <= Len(q) /\ \A i \in 1 .. Len(p) : p[i] = q[i]
<1> PICK m, n : m = Len(p) /\ n = Len(q)
  OBVIOUS
<1>1. m \in Nat /\ n \in Nat
  BY PathLen
<1>2. SubSeq(p, 1, m) = p
  BY SubSeqFull DEF Paths
<1>3. ASSUME m <= n
      PROVE  /\ SubSeq(q, 1, m) \in Paths /\ Len(SubSeq(q, 1, m)) = m
             /\ \A i \in 1 .. m : SubSeq(q, 1, m)[i] = q[i]
  <2>1. \A i \in 1 .. m : q[i] \in Nat
    BY <1>1, <1>3, ElementOfSeq DEF Paths
  <2>2. /\ SubSeq(q, 1, m) \in Paths
        /\ Len(SubSeq(q, 1, m)) = IF 1 <= m THEN m - 1 + 1 ELSE 0
        /\ \A i \in 1 .. m - 1 + 1 : SubSeq(q, 1, m)[i] = q[1 + i - 1]
    BY <1>1, <2>1, SubSeqProperties DEF Paths
  <2>3. m - 1 + 1 = m /\ (~(1 <= m) => m = 0) /\ \A i \in 1 .. m : 1 + i - 1 = i
    BY <1>1
  <2> QED BY <2>2, <2>3
<1>4. ASSUME m <= n, \A i \in 1 .. m : p[i] = q[i] PROVE SubSeq(q, 1, m) = p
  <2>1. \A i \in 1 .. m : p[i] = SubSeq(q, 1, m)[i]
    BY <1>3, <1>4
  <2> QED BY <1>3, <1>4, <2>1, SeqEqual DEF Paths
<1> QED BY <1>2, <1>3, <1>4 DEF Under, IsPrefix

LEMMA Antisymmetric ==
  ASSUME NEW p \in Paths, NEW q \in Paths, Under(p, q), Len(p) = Len(q) PROVE p = q
BY UnderIs, SeqEqual DEF Paths

LEMMA BelowBoth ==
  ASSUME NEW p \in Paths, NEW q \in Paths, NEW r \in Paths, Under(p, r), Under(q, r), Len(p) <= Len(q)
  PROVE  Under(p, q)
<1>1. \A i \in 1 .. Len(p) : i \in 1 .. Len(q)
  BY PathLen
<1> QED BY <1>1, UnderIs

LEMMA Extension ==
  ASSUME NEW p \in Paths, NEW r \in Paths
  PROVE  p \o r \in Paths /\ Under(p, p \o r) /\ Len(p \o r) = Len(p) + Len(r)
<1>1. /\ p \o r \in Paths /\ Len(p \o r) = Len(p) + Len(r)
      /\ \A i \in 1 .. Len(p) + Len(r) : (p \o r)[i] = IF i <= Len(p) THEN p[i] ELSE r[i - Len(p)]
  BY ConcatProperties DEF Paths
<1>2. Len(p) <= Len(p) + Len(r) /\ \A i \in 1 .. Len(p) : i \in 1 .. Len(p) + Len(r) /\ i <= Len(p)
  BY PathLen
<1> QED BY <1>1, <1>2, UnderIs

-----------------------------------------------------------------------------
(***************************************************************************)
(* Cursors.                                                                *)
(***************************************************************************)
Entries == [i : Nat \ {0}, ty : Types]
Cursors == Seq(Entries)

Fits(base, cursor) == cursor \in Cursors /\ WellTyped(base, cursor)

LEMMA CursorEntry ==
  ASSUME NEW cursor \in Cursors
  PROVE  /\ Len(cursor) \in Nat /\ DOMAIN cursor = 1 .. Len(cursor)
         /\ \A j \in 1 .. Len(cursor) :
              cursor[j] \in Entries /\ cursor[j].i \in Nat \ {0} /\ cursor[j].ty \in Types
<1>1. Len(cursor) \in Nat /\ DOMAIN cursor = 1 .. Len(cursor)
  BY DEF Cursors
<1>2. \A j \in 1 .. Len(cursor) : cursor[j] \in Entries
  BY DEF Cursors
<1> QED BY <1>1, <1>2 DEF Entries

LEMMA TypeFacts ==
  ASSUME NEW t \in Types
  PROVE  /\ Members[t] \in Seq(Types) /\ DOMAIN Members[t] = 1 .. Len(Members[t])
         /\ Len(Members[t]) \in Nat
         /\ \A i \in 1 .. Len(Members[t]) : Members[t][i] \in Types
         /\ IsAdt(t) => DOMAIN FieldNames[t] = 1 .. Len(Members[t])
         /\ IsAggregate(t) => Len(Members[t]) > 0
         /\ IsArray(t) => \A i \in 1 .. Len(Members[t]) : Members[t][i] = Element(t)
         /\ IsArray(t) => ~IsAdt(t) /\ Element(t) \in Types
         /\ IsArray(t) \/ IsAdt(t) => IsAggregate(t)
<1>1. Members[t] \in Seq(Types) /\ Members[t] \in [1 .. Len(Members[t]) -> Types] /\ Len(Members[t]) \in Nat
  BY TypesAssumption
<1>2. DOMAIN Members[t] = 1 .. Len(Members[t]) /\ \A i \in 1 .. Len(Members[t]) : Members[t][i] \in Types
  BY <1>1
<1>3. IsAggregate(t) => Len(Members[t]) > 0
  BY <1>1, TypesAssumption
<1>4. IsArray(t) => IsAggregate(t) /\ ~IsAdt(t)
  BY DEF IsArray, IsAggregate, IsAdt
<1>5. IsArray(t) => Element(t) \in Types
  <2> SUFFICES ASSUME IsArray(t) PROVE Members[t][1] \in Types
    BY DEF Element
  <2>1. 1 \in 1 .. Len(Members[t])
    BY <1>1, <1>3, <1>4
  <2> QED BY <1>2, <2>1
<1>6. IsArray(t) => \A i \in 1 .. Len(Members[t]) : Members[t][i] = Element(t)
  BY <1>2, TypesAssumption
<1>7. IsAdt(t) => DOMAIN FieldNames[t] = 1 .. Len(Members[t])
  BY <1>2, TypesAssumption
<1>8. IsAdt(t) => IsAggregate(t)
  BY DEF IsAggregate
<1> QED BY <1>1, <1>2, <1>3, <1>4, <1>5, <1>6, <1>7, <1>8

LEMMA ParentType ==
  ASSUME NEW base \in Types, NEW cursor \in Cursors
  PROVE  /\ TypeAt(base, cursor) \in Types
         /\ \A j \in 1 .. Len(cursor) : ParentAt(base, cursor, j) \in Types
<1>1. TypeAt(base, cursor) \in Types
  <2>1. CASE cursor = <<>>
    BY <2>1 DEF TypeAt
  <2>2. CASE cursor # <<>>
    <3>1. Len(cursor) \in 1 .. Len(cursor)
      BY <2>2 DEF Cursors
    <3> QED BY <2>2, <3>1, CursorEntry DEF TypeAt, Last
  <2> QED BY <2>1, <2>2
<1>2. ASSUME NEW j \in 1 .. Len(cursor) PROVE ParentAt(base, cursor, j) \in Types
  <2>1. CASE j = 1
    BY <2>1 DEF ParentAt
  <2>2. CASE j # 1
    <3>1. j - 1 \in 1 .. Len(cursor)
      BY <2>2, CursorEntry
    <3> QED BY <2>2, <3>1, CursorEntry DEF ParentAt
  <2> QED BY <2>1, <2>2
<1> QED BY <1>1, <1>2

LEMMA EmptyFits == ASSUME NEW base PROVE Fits(base, <<>>)
BY DEF Fits, WellTyped, Cursors

(* One level further in, to a member of what the cursor is at.             *)
Leads(t, e) ==
  /\ e \in Entries /\ Members[t] # <<>>
  /\ e.ty = IF IsArray(t) THEN Element(t) ELSE Members[t][e.i]
  /\ IsArray(t) \/ e.i \in DOMAIN Members[t]

LEMMA FurtherIn ==
  ASSUME NEW base \in Types, NEW cursor, Fits(base, cursor), NEW e, Leads(TypeAt(base, cursor), e)
  PROVE  Fits(base, Append(cursor, e)) /\ TypeAt(base, Append(cursor, e)) = e.ty
         /\ Len(Append(cursor, e)) = Len(cursor) + 1
<1> PICK n : n = Len(cursor)
  OBVIOUS
<1> PICK new : new = Append(cursor, e)
  OBVIOUS
<1>1. cursor \in Cursors /\ n \in Nat /\ DOMAIN cursor = 1 .. n
  BY CursorEntry DEF Fits
<1>2. /\ new \in Cursors /\ Len(new) = n + 1 /\ new[n + 1] = e
      /\ \A j \in 1 .. n : new[j] = cursor[j]
  BY <1>1 DEF Cursors, Leads
<1>3. new # <<>> /\ DOMAIN new = 1 .. n + 1
  BY <1>1, <1>2, CursorEntry
<1>4. TypeAt(base, new) = e.ty
  BY <1>2, <1>3 DEF TypeAt, Last
<1>5. ASSUME NEW j \in 1 .. n PROVE ParentAt(base, new, j) = ParentAt(base, cursor, j)
  <2>1. j # 1 => j - 1 \in 1 .. n
    BY <1>1
  <2> QED BY <1>2, <2>1 DEF ParentAt
<1>6. ParentAt(base, new, n + 1) = TypeAt(base, cursor)
  <2>1. CASE n = 0
    BY <1>1, <2>1 DEF ParentAt, TypeAt, Cursors
  <2>2. CASE n # 0
    <3>1. n + 1 # 1 /\ (n + 1) - 1 = n /\ n \in 1 .. n /\ cursor # <<>>
      BY <1>1, <2>2
    <3> QED BY <1>2, <3>1 DEF ParentAt, TypeAt, Last
  <2> QED BY <2>1, <2>2
<1>7. ASSUME NEW j \in 1 .. n + 1
      PROVE  Leads(ParentAt(base, new, j), new[j])
  <2>1. CASE j = n + 1
    BY <1>2, <1>6, <2>1
  <2>2. CASE j \in 1 .. n
    <3>1. cursor[j] \in Entries
      BY <1>1, <2>2, CursorEntry
    <3> QED BY <1>1, <1>2, <1>5, <2>2, <3>1 DEF Fits, WellTyped, Leads
  <2> QED BY <1>1, <2>1, <2>2
<1> QED BY <1>2, <1>3, <1>4, <1>7 DEF Fits, WellTyped, Leads

LEMMA IntoFits ==
  ASSUME NEW base \in Types, NEW cursor, Fits(base, cursor), IsAggregate(TypeAt(base, cursor))
  PROVE  Fits(base, Into(base, cursor)) /\ Into(base, cursor) # <<>>
<1> PICK t, e : t = TypeAt(base, cursor) /\ e = Entry(1, Members[t][1])
  OBVIOUS
<1>1. t \in Types
  BY ParentType DEF Fits
<1>2. 1 \in 1 .. Len(Members[t])
  BY <1>1, TypeFacts
<1>3. Leads(t, e)
  <2>1. e.i = 1 /\ e.ty = Members[t][1] /\ e \in Entries
    BY <1>1, <1>2, TypeFacts DEF Entry, Entries
  <2> QED BY <1>1, <1>2, <2>1, TypeFacts DEF Leads, Element
<1>4. Fits(base, Append(cursor, e)) /\ Len(Append(cursor, e)) = Len(cursor) + 1
  BY <1>3, FurtherIn
<1>5. Len(cursor) \in Nat
  BY CursorEntry DEF Fits
<1> QED BY <1>4, <1>5 DEF Into

LEMMA FirstFits ==
  ASSUME NEW t \in Types, IsAggregate(t) PROVE Fits(t, FirstCursor(t))
<1> PICK one : one = Into(t, <<>>)
  OBVIOUS
<1>1. Fits(t, one) /\ one # <<>>
  <2>1. TypeAt(t, <<>>) = t
    BY DEF TypeAt
  <2> QED BY <2>1, EmptyFits, IntoFits
<1>2. TypeAt(t, one) = Last(one).ty
  BY <1>1 DEF TypeAt
<1>3. IsAdt(Last(one).ty) => IsAggregate(TypeAt(t, one))
  BY <1>2 DEF IsAggregate
<1>4. IsAdt(Last(one).ty) => Fits(t, Into(t, one))
  BY <1>1, <1>3, IntoFits
<1> QED BY <1>1, <1>4 DEF FirstCursor

(* The outer part of a cursor.                                             *)
LEMMA OuterFits ==
  ASSUME NEW base \in Types, NEW cursor, Fits(base, cursor), NEW j \in 1 .. Len(cursor)
  PROVE  /\ Fits(base, SubSeq(cursor, 1, j - 1))
         /\ TypeAt(base, SubSeq(cursor, 1, j - 1)) = ParentAt(base, cursor, j)
<1> PICK n : n = Len(cursor)
  OBVIOUS
<1> PICK new : new = SubSeq(cursor, 1, j - 1)
  OBVIOUS
<1>1. cursor \in Cursors /\ n \in Nat /\ DOMAIN cursor = 1 .. n /\ j \in Nat /\ j - 1 \in Nat /\ j - 1 <= n
  BY CursorEntry DEF Fits
<1>2. new \in Cursors /\ Len(new) = j - 1 /\ \A k \in 1 .. j - 1 : new[k] = cursor[k]
  <2>1. \A k \in 1 .. j - 1 : cursor[k] \in Entries
    BY <1>1, CursorEntry
  <2>2. /\ new \in Cursors
        /\ Len(new) = IF 1 <= j - 1 THEN (j - 1) - 1 + 1 ELSE 0
        /\ \A k \in 1 .. (j - 1) - 1 + 1 : new[k] = cursor[1 + k - 1]
    BY <1>1, <2>1, SubSeqProperties DEF Cursors
  <2>3. (j - 1) - 1 + 1 = j - 1 /\ (~(1 <= j - 1) => j - 1 = 0) /\ \A k \in 1 .. j - 1 : 1 + k - 1 = k
    BY <1>1
  <2> QED BY <2>2, <2>3
<1>3. DOMAIN new = 1 .. j - 1
  BY <1>2, CursorEntry
<1>4. TypeAt(base, new) = ParentAt(base, cursor, j)
  <2>1. CASE j = 1
    <3>1. new = <<>>
      BY <1>2, <2>1 DEF Cursors
    <3> QED BY <2>1, <3>1 DEF TypeAt, ParentAt
  <2>2. CASE j # 1
    <3>1. new # <<>> /\ j - 1 \in 1 .. j - 1
      BY <1>1, <1>2, <2>2
    <3> QED BY <1>2, <2>2, <3>1 DEF TypeAt, ParentAt, Last
  <2> QED BY <2>1, <2>2
<1>5. ASSUME NEW k \in 1 .. j - 1
      PROVE  new[k] = cursor[k] /\ ParentAt(base, new, k) = ParentAt(base, cursor, k) /\ k \in 1 .. n
  <2>1. k \in 1 .. n /\ (k # 1 => k - 1 \in 1 .. j - 1)
    BY <1>1
  <2> QED BY <1>2, <2>1 DEF ParentAt
<1>6. WellTyped(base, new)
  BY <1>1, <1>3, <1>5 DEF Fits, WellTyped
<1> QED BY <1>2, <1>4, <1>6 DEF Fits

LEMMA Greatest ==
  ASSUME NEW n \in Nat, NEW T \in SUBSET (1 .. n), T # {} PROVE Max(T) \in T
<1> DEFINE R == {n - k : k \in T}
<1>0. \A k \in T : k \in Nat /\ n - k \in Nat
  OBVIOUS
<1>1. R \in SUBSET Nat /\ R # {}
  BY <1>0
<1> HIDE DEF R
<1>2. PICK m \in R : \A k \in R : m <= k
  BY <1>1, Least
<1>3. PICK j \in T : m = n - j
  BY DEF R
<1>4. \A k \in T : n - k \in R
  BY DEF R
<1>5. \A k \in T : j >= k
  BY <1>2, <1>3, <1>4
<1> QED BY <1>5 DEF Max

LEMMA GoNextFits ==
  ASSUME NEW base \in Types, NEW cursor, Fits(base, cursor) PROVE Fits(base, GoNext(base, cursor))
<1> PICK more : more = {j \in DOMAIN cursor : HasNext(base, cursor, j)}
  OBVIOUS
<1> PICK j : j = Max(more)
  OBVIOUS
<1>1. CASE more = {}
  BY <1>1, EmptyFits DEF GoNext
<1>2. CASE more # {}
  <2>1. j \in 1 .. Len(cursor) /\ HasNext(base, cursor, j)
    <3>1. Len(cursor) \in Nat /\ DOMAIN cursor = 1 .. Len(cursor)
      BY CursorEntry DEF Fits
    <3>2. more \in SUBSET (1 .. Len(cursor))
      BY <3>1
    <3>3. j \in more
      BY <1>2, <3>1, <3>2, Greatest
    <3> QED BY <3>1, <3>3
  <2> PICK t, i, e : t = ParentAt(base, cursor, j) /\ i = cursor[j].i + 1 /\ e = Entry(i, Members[t][i])
    OBVIOUS
  <2>2. t \in Types /\ cursor[j].i \in Nat \ {0}
    BY <2>1, ParentType, CursorEntry DEF Fits
  <2>3. i \in 1 .. Len(Members[t])
    <3>1. cursor[j].i < Len(Members[t])
      BY <2>1 DEF HasNext, MayGoOn
    <3>2. Len(Members[t]) \in Nat
      BY <2>2, TypeFacts
    <3> QED BY <2>2, <3>1, <3>2
  <2>4. Leads(t, e)
    <3>1. e.i = i /\ e.ty = Members[t][i] /\ e \in Entries
      BY <2>2, <2>3, TypeFacts DEF Entry, Entries
    <3>2. Members[t] # <<>> /\ i \in DOMAIN Members[t]
      BY <2>2, <2>3, TypeFacts
    <3> QED BY <2>2, <2>3, <3>1, <3>2, TypeFacts DEF Leads
  <2>5. Fits(base, Append(SubSeq(cursor, 1, j - 1), e))
    BY <2>1, <2>4, OuterFits, FurtherIn
  <2>6. GoNext(base, cursor) = Append(SubSeq(cursor, 1, j - 1), e)
    BY <1>2 DEF GoNext, Successor
  <2> QED BY <2>5, <2>6
<1> QED BY <1>1, <1>2

-----------------------------------------------------------------------------
(* Designators lead along the members of the type.                         *)
Routes(base) == {r \in [ok : BOOLEAN, at : Cursors] : WellTyped(base, r.at)}

Further(base, before, d) ==
  LET t == TypeAt(base, before.at)
      i == Designates(t, d)
  IN  IF ~before.ok \/ i = 0 THEN [before EXCEPT !.ok = FALSE]
      ELSE [before EXCEPT !.at = Append(@, Entry(i, IF IsArray(t) THEN Element(t) ELSE Members[t][i]))]

LEMMA DesignatesType ==
  ASSUME NEW t \in Types, NEW d \in Designator, Designates(t, d) # 0
  PROVE  Leads(t, Entry(Designates(t, d), IF IsArray(t) THEN Element(t) ELSE Members[t][Designates(t, d)]))
<1> PICK i, e : i = Designates(t, d) /\ e = Entry(i, IF IsArray(t) THEN Element(t) ELSE Members[t][i])
  OBVIOUS
<1>1. CASE IsArray(t)
  <2>1. d.k # "field"
    BY <1>1, TypeFacts DEF Designates
  <2>2. i = d.n /\ d.n \in Nat \ {0}
    BY <1>1, <2>1 DEF Designates, Designator
  <2>3. Element(t) \in Types /\ Members[t] # <<>>
    BY <1>1, TypeFacts
  <2> QED BY <1>1, <2>2, <2>3 DEF Leads, Entry, Entries
<1>2. CASE ~IsArray(t)
  <2>1. d.k = "field" /\ IsAdt(t) /\ d.n \in ToSet(FieldNames[t])
    BY <1>2 DEF Designates
  <2>2. \E j \in DOMAIN FieldNames[t] : FieldNames[t][j] = d.n
    BY <2>1 DEF ToSet
  <2>3. i \in DOMAIN FieldNames[t]
    BY <2>1, <2>2 DEF Designates
  <2>4. i \in 1 .. Len(Members[t]) /\ Len(Members[t]) \in Nat
    BY <2>1, <2>3, TypeFacts
  <2>5. Members[t][i] \in Types /\ i \in Nat \ {0}
    BY <2>4, TypeFacts
  <2>6. Members[t] # <<>> /\ i \in DOMAIN Members[t]
    BY <2>1, <2>4, TypeFacts
  <2> QED BY <1>2, <2>5, <2>6 DEF Leads, Entry, Entries
<1> QED BY <1>1, <1>2

LEMMA FurtherType ==
  ASSUME NEW base \in Types, NEW r \in Routes(base), NEW d \in Designator
  PROVE  Further(base, r, d) \in Routes(base)
<1> PICK t, i, e : t = TypeAt(base, r.at) /\ i = Designates(t, d)
                   /\ e = Entry(i, IF IsArray(t) THEN Element(t) ELSE Members[t][i])
  OBVIOUS
<1>1. r \in [ok : BOOLEAN, at : Cursors] /\ Fits(base, r.at) /\ t \in Types
  BY ParentType DEF Routes, Fits
<1>2. CASE ~r.ok \/ i = 0
  <2>1. Further(base, r, d) = [r EXCEPT !.ok = FALSE]
    BY <1>2 DEF Further
  <2> QED BY <1>1, <2>1 DEF Routes, Fits
<1>3. CASE ~(~r.ok \/ i = 0)
  <2>1. Further(base, r, d) = [r EXCEPT !.at = Append(r.at, e)]
    BY <1>1, <1>3 DEF Further
  <2>2. Fits(base, Append(r.at, e))
    BY <1>1, <1>3, DesignatesType, FurtherIn
  <2> QED BY <1>1, <2>1, <2>2 DEF Routes, Fits
<1> QED BY <1>2, <1>3

LEMMA DesignatedFits ==
  ASSUME NEW base \in Types, NEW des \in Seq(Designator)
  PROVE  Designated(base, des) \in Routes(base)
<1> DEFINE n == Len(des)
           D == Routes(base)
           start == [ok |-> TRUE, at |-> <<>>]
           Is(g) == g = [j \in 0 .. n |-> IF j = 0 THEN start ELSE Further(base, g[j - 1], des[j])]
           step == [x \in (0 .. n - 1) \X D |-> Further(base, x[2], des[x[1] + 1])]
<1>1. n \in Nat /\ \A j \in 1 .. n : des[j] \in Designator
  OBVIOUS
<1>2. start \in D
  BY EmptyFits DEF Routes, Fits
<1>3. step \in [(0 .. n - 1) \X D -> D]
  <2> SUFFICES ASSUME NEW x \in (0 .. n - 1) \X D PROVE Further(base, x[2], des[x[1] + 1]) \in D
    OBVIOUS
  <2>1. x[2] \in D /\ x[1] + 1 \in 1 .. n
    BY <1>1
  <2> QED BY <1>1, <2>1, FurtherType
<1>4. \A k \in 0 .. n - 1 : \A r \in D : step[<<k, r>>] = Further(base, r, des[k + 1])
  OBVIOUS
<1> HIDE DEF start, step, D, n
<1>5. PICK g : Unfolds(g, n, D, start, step)
  BY <1>1, <1>2, <1>3, Unfolding
<1>6. g \in [0 .. n -> D] /\ g[0] = start
  BY <1>5 DEF Unfolds
<1>7. \A k \in 0 .. n - 1 : g[k + 1] = Further(base, g[k], des[k + 1])
  <2> SUFFICES ASSUME NEW k \in 0 .. n - 1 PROVE g[k + 1] = Further(base, g[k], des[k + 1])
    OBVIOUS
  <2>1. g[k] \in D
    BY <1>1, <1>6
  <2>2. g[k + 1] = step[<<k, g[k]>>]
    BY <1>5 DEF Unfolds
  <2> QED BY <1>4, <2>1, <2>2
<1>8. Is(g)
  <2>1. ASSUME NEW j \in 0 .. n
        PROVE  g[j] = IF j = 0 THEN start ELSE Further(base, g[j - 1], des[j])
    <3>1. CASE j = 0
      BY <1>6, <3>1
    <3>2. CASE j # 0
      <4>1. j - 1 \in 0 .. n - 1 /\ (j - 1) + 1 = j
        BY <1>1, <3>2
      <4> QED BY <1>7, <3>2, <4>1
    <3> QED BY <3>1, <3>2
  <2> QED BY <1>6, <2>1
<1> DEFINE way == CHOOSE h : Is(h)
<1>9. Is(way)
  <2> HIDE DEF Is
  <2> QED BY <1>8
<1>10. Designated(base, des) = way[n]
  BY DEF Designated, Further, start, n
<1> HIDE DEF way
<1>11. way[0] = start /\ \A k \in 0 .. n - 1 : way[k + 1] = Further(base, way[k], des[k + 1])
  <2>1. 0 \in 0 .. n /\ \A k \in 0 .. n - 1 : k + 1 \in 0 .. n /\ k + 1 # 0 /\ (k + 1) - 1 = k
    BY <1>1
  <2> QED BY <1>9, <2>1
<1> DEFINE T == {k \in 0 .. n : way[k] \in D}
<1>12. 0 \in T
  BY <1>1, <1>2, <1>11
<1>13. \A k \in 0 .. n - 1 : k \in T => k + 1 \in T
  <2> SUFFICES ASSUME NEW k \in 0 .. n - 1, way[k] \in D PROVE k + 1 \in 0 .. n /\ way[k + 1] \in D
    OBVIOUS
  <2>1. k + 1 \in 0 .. n /\ k + 1 \in 1 .. n
    BY <1>1
  <2> QED BY <1>1, <1>11, <2>1, FurtherType DEF D
<1> HIDE DEF T
<1>14. 0 .. n \subseteq T
  BY <1>1, <1>12, <1>13, UpTo
<1>15. n \in T
  BY <1>1, <1>14
<1> QED BY <1>10, <1>15 DEF T, D

-----------------------------------------------------------------------------
(***************************************************************************)
(* The calls in progress.                                                  *)
(***************************************************************************)
IsCall(c) ==
  DOMAIN c = {"ty", "init", "at", "stage", "cursor", "slots", "tree", "done"}

(* A list is being gone through, and the item it has come to.              *)
Progress(c) ==
  /\ c.done \in Nat
  /\ c.stage # "enter" => c.init.k = "list"
  /\ c.stage \in {"place", "wait"} => c.done + 1 \in 1 .. Len(c.init.items)

SlotsFit(t, slots) ==
  /\ slots \in Seq(Cursors)
  /\ \A i \in 1 .. Len(slots) : WellTyped(t, slots[i])
  /\ \A i, j \in 1 .. Len(slots) : Len(slots[i]) = Len(slots[j])

CallOK(c) ==
  /\ IsCall(c) /\ c.ty \in Types /\ IsInitialiser(c.init)
  /\ c.stage \in {"enter", "item", "place", "wait"} /\ Progress(c)
  /\ Fits(c.ty, c.cursor) /\ SlotsFit(c.ty, c.slots)

IsSeq(s) == \E S : s \in Seq(S)

AllOK(s) == IsSeq(s) /\ \A j \in 1 .. Len(s) : CallOK(s[j])

Inv ==
  /\ input \in [ty : DOMAIN Items, init : [k : {"list"}, items : Seq(ListItem)]]
  /\ AllOK(calls)

LEMMA NewCall ==
  ASSUME NEW t \in Types, NEW init, IsInitialiser(init), NEW at PROVE CallOK(Call(t, init, at))
<1> PICK c : c = Call(t, init, at)
  OBVIOUS
<1>1. /\ IsCall(c) /\ c.ty = t /\ c.init = init /\ c.stage = "enter" /\ c.cursor = <<>>
      /\ c.slots = <<>> /\ c.done = 0
  BY DEF Call, IsCall
<1>2. SlotsFit(c.ty, c.slots)
  BY <1>1 DEF SlotsFit
<1>3. Progress(c)
  BY <1>1 DEF Progress
<1> QED BY <1>1, <1>2, <1>3, EmptyFits DEF CallOK

LEMMA ItemFacts ==
  ASSUME NEW c, CallOK(c), c.init.k = "list", c.done + 1 \in 1 .. Len(c.init.items)
  PROVE  /\ c.init.items[c.done + 1] \in ListItem
         /\ c.init.items[c.done + 1].des \in Seq(Designator)
         /\ IsInitialiser(c.init.items[c.done + 1].init)
<1>1. c.init.items \in Seq(ListItem)
  BY DEF CallOK, IsInitialiser
<1>2. c.init.items[c.done + 1] \in ListItem
  BY <1>1
<1> QED BY <1>2, ItemsAssumption DEF ListItem

LEMMA EmptySeqOK == IsSeq(<<>>) /\ Len(<<>>) = 0
<1>1. <<>> \in Seq({})
  OBVIOUS
<1> QED BY <1>1 DEF IsSeq

(* The stack without its innermost call, and with another one for it.      *)
LEMMA OuterCalls ==
  ASSUME NEW s, IsSeq(s), s # <<>>
  PROVE  /\ Len(s) \in Nat \ {0} /\ Last(s) = s[Len(s)]
         /\ IsSeq(Front(s)) /\ Len(Front(s)) = Len(s) - 1
         /\ \A i \in 1 .. Len(s) - 1 : Front(s)[i] = s[i]
<1>1. PICK S : s \in Seq(S)
  BY DEF IsSeq
<1> PICK n, f : n = Len(s) /\ f = SubSeq(s, 1, Len(s) - 1)
  OBVIOUS
<1>2. n \in Nat /\ n # 0 /\ n - 1 \in Nat /\ n - 1 <= n
  BY <1>1
<1>3. /\ f \in Seq(S)
      /\ Len(f) = IF 1 <= n - 1 THEN (n - 1) - 1 + 1 ELSE 0
      /\ \A k \in 1 .. (n - 1) - 1 + 1 : f[k] = s[1 + k - 1]
  <2>1. \A k \in 1 .. n - 1 : s[k] \in S
    BY <1>1, <1>2
  <2> QED BY <1>2, <2>1, SubSeqProperties
<1>4. (n - 1) - 1 + 1 = n - 1 /\ (~(1 <= n - 1) => n - 1 = 0) /\ \A k \in 1 .. n - 1 : 1 + k - 1 = k
  BY <1>2
<1> QED BY <1>2, <1>3, <1>4 DEF IsSeq, Front, Last

LEMMA MoreCalls ==
  ASSUME NEW s, IsSeq(s), NEW e
  PROVE  /\ IsSeq(Append(s, e)) /\ Len(Append(s, e)) = Len(s) + 1 /\ Len(s) \in Nat
         /\ Append(s, e)[Len(s) + 1] = e /\ \A i \in 1 .. Len(s) : Append(s, e)[i] = s[i]
<1>1. PICK S : s \in Seq(S)
  BY DEF IsSeq
<1> DEFINE T == S \union {e}
<1>2. s \in Seq(T) /\ e \in T
  BY <1>1
<1> HIDE DEF T
<1>3. Append(s, e) \in Seq(T)
  BY <1>2
<1> QED BY <1>2, <1>3 DEF IsSeq

LEMMA TopOK == ASSUME AllOK(calls), calls # <<>> PROVE CallOK(Top) /\ AllOK(Front(calls))
<1>1. /\ Len(calls) \in Nat \ {0} /\ Top = calls[Len(calls)]
      /\ IsSeq(Front(calls)) /\ Len(Front(calls)) = Len(calls) - 1
      /\ \A i \in 1 .. Len(calls) - 1 : Front(calls)[i] = calls[i]
  BY OuterCalls DEF AllOK, Top
<1>2. Len(calls) \in 1 .. Len(calls) /\ \A i \in 1 .. Len(calls) - 1 : i \in 1 .. Len(calls)
  BY <1>1
<1> QED BY <1>1, <1>2 DEF AllOK

LEMMA PushedOK == ASSUME NEW s, AllOK(s), NEW c, CallOK(c) PROVE AllOK(Append(s, c))
<1>1. /\ IsSeq(Append(s, c)) /\ Len(Append(s, c)) = Len(s) + 1 /\ Len(s) \in Nat
      /\ Append(s, c)[Len(s) + 1] = c /\ \A i \in 1 .. Len(s) : Append(s, c)[i] = s[i]
  BY MoreCalls DEF AllOK
<1>2. \A j \in 1 .. Len(s) + 1 : j \in 1 .. Len(s) \/ j = Len(s) + 1
  BY <1>1
<1> QED BY <1>1, <1>2 DEF AllOK

-----------------------------------------------------------------------------
(***************************************************************************)
(* What a step does to the innermost call.                                 *)
(***************************************************************************)
LEMMA SetTopOK ==
  ASSUME Inv, calls # <<>>, NEW c, CallOK(c), SetTop(c), UNCHANGED input PROVE Inv'
<1>1. AllOK(Append(Front(calls), c))
  BY TopOK, PushedOK DEF Inv
<1> QED BY <1>1 DEF Inv, AllOK, SetTop

LEMMA ContinueOK ==
  ASSUME Inv, calls # <<>>, NEW c, CallOK(c), Continue(c) PROVE Inv'
BY SetTopOK DEF Continue

LEMMA ReturnOK ==
  ASSUME Inv, calls # <<>>, NEW tree, Return(tree) PROVE Inv'
<1>1. AllOK(Front(calls)) /\ calls' = Front(calls) /\ input' = input
  BY TopOK DEF Inv, Return
<1> QED BY <1>1 DEF Inv, AllOK

LEMMA FailOK == ASSUME Inv, NEW how, Fail(how) PROVE Inv'
BY DEF Inv, Fail, AllOK

LEMMA RewriteOK ==
  ASSUME Inv, calls # <<>>, Top.stage = "enter", NEW init, IsInitialiser(init), NEW at, Rewrite(init, at)
  PROVE  Inv'
<1> PICK c, d : c = Top /\ d = [Top EXCEPT !.init = init, !.at = at]
  OBVIOUS
<1>1. CallOK(c) /\ c.stage = "enter"
  BY TopOK DEF Inv
<1>2. /\ IsCall(d) /\ d.ty = c.ty /\ d.init = init /\ d.stage = c.stage /\ d.cursor = c.cursor
      /\ d.slots = c.slots /\ d.done = c.done
  BY <1>1 DEF CallOK, IsCall
<1>3. SlotsFit(d.ty, d.slots) /\ Progress(d)
  BY <1>1, <1>2 DEF CallOK, Progress
<1>4. CallOK(d)
  BY <1>1, <1>2, <1>3 DEF CallOK
<1>5. Continue(d)
  BY DEF Rewrite
<1> QED BY <1>4, <1>5, ContinueOK

LEMMA OnlyItem ==
  ASSUME NEW init, IsInitialiser(init), init.k = "list", Len(init.items) = 1
  PROVE  IsInitialiser(Only(init)) /\ init.items[1] \in ListItem
<1>1. init.items \in Seq(ListItem) /\ 1 \in 1 .. Len(init.items)
  BY DEF IsInitialiser
<1>2. init.items[1] \in ListItem
  BY <1>1
<1> QED BY <1>2, ItemsAssumption DEF Only, ListItem

LEMMA TopEntering ==
  ASSUME Inv, Entering PROVE calls # <<>> /\ Top.stage = "enter" /\ CallOK(Top) /\ IsInitialiser(Top.init)
BY TopOK DEF Inv, Entering, CallOK

LEMMA UnwrapOK == ASSUME Inv, Unwrap PROVE Inv'
<1>1. Entering /\ Solo(Top.init) /\ Rewrite(Only(Top.init), Append(Top.at, 1))
  BY DEF Unwrap, Unwraps
<1> QED BY <1>1, TopEntering, OnlyItem, RewriteOK DEF Solo

LEMMA UnwrapStringOK == ASSUME Inv, UnwrapString PROVE Inv'
<1>1. Entering /\ Solo(Top.init) /\ Rewrite(Only(Top.init), Append(Top.at, 1))
  BY DEF UnwrapString
<1> QED BY <1>1, TopEntering, OnlyItem, RewriteOK DEF Solo

LEMMA SpellOK == ASSUME Inv, Spell PROVE Inv'
<1> PICK m, n : m = Top.init.n /\ n = Len(Members[Top.ty])
  OBVIOUS
<1> PICK init : init = [k |-> "list", items |-> Characters(Min({m, n}))]
  OBVIOUS
<1>1. Entering /\ Top.init.k = "str" /\ Rewrite(init, Top.at)
  BY DEF Spell
<1>2. calls # <<>> /\ Top.stage = "enter" /\ CallOK(Top) /\ IsInitialiser(Top.init)
  BY <1>1, TopEntering
<1>3. m \in Nat /\ n \in Nat
  BY <1>1, <1>2, TypeFacts DEF CallOK, IsInitialiser
<1>4. Min({m, n}) \in Nat
  BY <1>3 DEF Min
<1>5. \A k \in Nat : Characters(k) \in Seq(ListItem)
  <2> SUFFICES ASSUME NEW k \in Nat PROVE Characters(k) \in Seq(ListItem)
    OBVIOUS
  <2>1. [des |-> <<>>, init |-> AnInteger] \in ListItem
    BY ItemsAssumption DEF ListItem
  <2> QED BY <2>1 DEF Characters
<1>6. IsInitialiser(init)
  BY <1>4, <1>5 DEF IsInitialiser
<1> QED BY <1>1, <1>2, <1>6, RewriteOK

LEMMA LeafCallOK == ASSUME Inv, LeafCall PROVE Inv'
<1>1. Entering /\ (Return(Leaf(Coerced(Top.at, Top.ty))) \/ Fail("error"))
  BY DEF LeafCall
<1> QED BY <1>1, TopEntering, ReturnOK, FailOK

LEMMA BracedScalarOK == ASSUME Inv, BracedScalar PROVE Inv'
<1>1. Entering /\ Top.init.k = "list"
  BY DEF BracedScalar
<1>2. calls # <<>> /\ Top.stage = "enter" /\ CallOK(Top) /\ IsInitialiser(Top.init)
  BY <1>1, TopEntering
<1>3. CASE Fail("error")
  BY <1>3, FailOK
<1>4. CASE Top.init.items # <<>> /\ Rewrite(Only(Top.init), Append(Top.at, 1))
  <2>1. Top.init.items \in Seq(ListItem)
    BY <1>1, <1>2 DEF IsInitialiser
  <2>2. Top.init.items[1] \in ListItem
    BY <1>4, <2>1
  <2>3. IsInitialiser(Only(Top.init))
    BY <2>2, ItemsAssumption DEF Only, ListItem
  <2> QED BY <1>2, <1>4, <2>3, RewriteOK
<1> QED BY <1>3, <1>4 DEF BracedScalar

LEMMA StartListOK == ASSUME Inv, StartList PROVE Inv'
<1> PICK c, d : c = Top /\ d = [Top EXCEPT !.stage = "item", !.cursor = FirstCursor(Top.ty)]
  OBVIOUS
<1>1. Entering /\ c.init.k = "list" /\ IsAggregate(c.ty) /\ Continue(d)
  BY DEF StartList
<1>2. calls # <<>> /\ CallOK(c)
  BY <1>1, TopEntering
<1>3. /\ IsCall(d) /\ d.ty = c.ty /\ d.init = c.init /\ d.stage = "item" /\ d.cursor = FirstCursor(c.ty)
      /\ d.slots = c.slots /\ d.done = c.done
  BY <1>2 DEF CallOK, IsCall
<1>4. SlotsFit(d.ty, d.slots)
  BY <1>2, <1>3 DEF CallOK
<1>5. Progress(d)
  BY <1>1, <1>2, <1>3 DEF CallOK, Progress
<1>6. CallOK(d)
  BY <1>1, <1>2, <1>3, <1>4, <1>5, FirstFits DEF CallOK
<1> QED BY <1>1, <1>2, <1>6, ContinueOK

(* An item that has a place: the cursor, or a slot for each element.       *)
LEMMA PlacingOK ==
  ASSUME NEW c, CallOK(c), c.init.k = "list", c.done + 1 \in 1 .. Len(c.init.items),
         NEW cursor, Fits(c.ty, cursor), NEW slots, SlotsFit(c.ty, slots)
  PROVE  CallOK([c EXCEPT !.cursor = cursor, !.slots = slots, !.stage = "place"])
<1> PICK d : d = [c EXCEPT !.cursor = cursor, !.slots = slots, !.stage = "place"]
  OBVIOUS
<1>1. /\ IsCall(d) /\ d.ty = c.ty /\ d.init = c.init /\ d.stage = "place" /\ d.cursor = cursor
      /\ d.slots = slots /\ d.done = c.done
  BY DEF CallOK, IsCall
<1>2. Progress(d)
  BY <1>1 DEF CallOK, Progress
<1> QED BY <1>1, <1>2 DEF CallOK

LEMMA NoSlots == ASSUME NEW t PROVE SlotsFit(t, <<>>)
BY DEF SlotsFit

LEMMA TopAtItem ==
  ASSUME Inv, AtItem
  PROVE  /\ calls # <<>> /\ CallOK(Top) /\ Top.stage = "item" /\ Top.init.k = "list"
         /\ Top.done + 1 \in 1 .. Len(Top.init.items) /\ Top.done \in Nat
         /\ Item.des \in Seq(Designator) /\ IsInitialiser(Item.init)
<1>1. calls # <<>> /\ CallOK(Top) /\ Top.stage = "item" /\ Top.done < Len(Top.init.items)
  BY TopOK DEF Inv, AtItem
<1>2. Top.init.k = "list" /\ Top.done \in Nat
  BY <1>1 DEF CallOK, Progress
<1>3. Len(Top.init.items) \in Nat
  BY <1>1, <1>2 DEF CallOK, IsInitialiser
<1>4. Top.done + 1 \in 1 .. Len(Top.init.items)
  BY <1>1, <1>2, <1>3
<1> QED BY <1>1, <1>2, <1>4, ItemFacts DEF Item

LEMMA SkipOK == ASSUME Inv, AtItem, Skip PROVE Inv'
<1> PICK c, d : c = Top /\ d = [Top EXCEPT !.done = @ + 1]
  OBVIOUS
<1>1. calls # <<>> /\ CallOK(c) /\ c.stage = "item" /\ Continue(d)
  BY TopAtItem DEF Skip
<1>2. /\ IsCall(d) /\ d.ty = c.ty /\ d.init = c.init /\ d.stage = c.stage /\ d.cursor = c.cursor
      /\ d.slots = c.slots /\ d.done = c.done + 1
  BY <1>1 DEF CallOK, IsCall
<1>3. Progress(d)
  BY <1>1, <1>2 DEF CallOK, Progress
<1>4. CallOK(d)
  BY <1>1, <1>2, <1>3 DEF CallOK
<1> QED BY <1>1, <1>4, ContinueOK

LEMMA SeekOK == ASSUME Inv, Seek PROVE Inv'
<1> PICK to, cursor : to = Designated(Top.ty, Item.des)
                      /\ cursor = IF Item.des = <<>> THEN Top.cursor ELSE to.at
  OBVIOUS
<1>1. /\ AtItem
      /\ \/ Fail("error") \/ Skip
         \/ Continue([Top EXCEPT !.cursor = cursor, !.slots = <<>>, !.stage = "place"])
  BY DEF Seek
<1>2. /\ calls # <<>> /\ CallOK(Top) /\ Top.init.k = "list"
      /\ Top.done + 1 \in 1 .. Len(Top.init.items) /\ Item.des \in Seq(Designator)
  BY <1>1, TopAtItem
<1>3. Fits(Top.ty, to.at)
  BY <1>2, DesignatedFits DEF CallOK, Routes, Fits
<1>4. Fits(Top.ty, cursor)
  BY <1>2, <1>3 DEF CallOK
<1>5. CallOK([Top EXCEPT !.cursor = cursor, !.slots = <<>>, !.stage = "place"])
  BY <1>2, <1>4, NoSlots, PlacingOK
<1> QED BY <1>1, <1>2, <1>5, FailOK, SkipOK, ContinueOK

LEMMA LeadsIntoArray ==
  ASSUME NEW t \in Types, IsArray(t), NEW i \in Nat \ {0} PROVE Leads(t, Entry(i, Element(t)))
BY TypeFacts DEF Leads, Entry, Entries

LEMMA RangeFacts ==
  ASSUME NEW base \in Types, NEW des \in Seq(Designator), Ranged(des)
  PROVE  /\ Last(des).n \in Nat \ {0} /\ Last(des).to \in Nat \ {0}
         /\ Fits(base, Designated(base, Front(des)).at)
<1> PICK n : n = Len(des)
  OBVIOUS
<1>1. n \in Nat \ {0} /\ Last(des) \in Designator /\ Last(des).k = "range"
  BY DEF Ranged, Last
<1>2. Front(des) \in Seq(Designator)
  <2>1. \A i \in 1 .. n - 1 : des[i] \in Designator
    BY <1>1
  <2> QED BY <1>1, <2>1, SubSeqProperties DEF Front
<1> QED BY <1>1, <1>2, DesignatedFits DEF Designator, Routes, Fits

LEMMA SeekRangeOK == ASSUME Inv, SeekRange PROVE Inv'
<1> PICK to, t, lo, hi : /\ to = Designated(Top.ty, Front(Item.des)) /\ t = TypeAt(Top.ty, to.at)
                         /\ lo = Last(Item.des).n /\ hi = Last(Item.des).to
  OBVIOUS
<1> DEFINE slot == [j \in 1..(hi + 1 - lo) |-> Append(to.at, Entry(lo + j - 1, Element(t)))]
<1>1. /\ AtItem /\ Ranged(Item.des)
      /\ \/ Fail("error")
         \/ /\ ~(hi < lo) /\ IsArray(t)
            /\ Continue([Top EXCEPT !.cursor = slot[1], !.slots = slot, !.stage = "place"])
  BY DEF SeekRange
<1>2. /\ calls # <<>> /\ CallOK(Top) /\ Top.init.k = "list" /\ Top.ty \in Types
      /\ Top.done + 1 \in 1 .. Len(Top.init.items) /\ Item.des \in Seq(Designator)
  BY <1>1, TopAtItem DEF CallOK
<1>4. lo \in Nat \ {0} /\ hi \in Nat \ {0} /\ Fits(Top.ty, to.at)
  BY <1>1, <1>2, RangeFacts
<1>6. t \in Types
  BY <1>2, <1>4, ParentType DEF Fits
<1>7. CASE Fail("error")
  BY <1>7, FailOK
<1>8. CASE /\ ~(hi < lo) /\ IsArray(t)
           /\ Continue([Top EXCEPT !.cursor = slot[1], !.slots = slot, !.stage = "place"])
  <2> PICK m, base : m = hi + 1 - lo /\ base = Top.ty
    OBVIOUS
  <2>1. m \in Nat \ {0} /\ 1 \in 1 .. m /\ \A j \in 1 .. m : lo + j - 1 \in Nat \ {0}
    BY <1>4, <1>8
  <2>2. ASSUME NEW j \in 1 .. m PROVE Fits(base, slot[j]) /\ Len(slot[j]) = Len(to.at) + 1
    <3>1. Leads(t, Entry(lo + j - 1, Element(t)))
      BY <1>6, <1>8, <2>1, LeadsIntoArray
    <3>2. slot[j] = Append(to.at, Entry(lo + j - 1, Element(t)))
      OBVIOUS
    <3> QED BY <1>2, <1>4, <1>6, <3>1, <3>2, FurtherIn
  <2>3. slot \in [1 .. m -> Cursors]
    BY <2>2 DEF Fits
  <2> PICK slots : slots = slot
    OBVIOUS
  <2> HIDE DEF slot
  <2>4. slots \in Seq(Cursors) /\ Len(slots) = m
    <3>1. slots \in [1 .. m -> Cursors]
      BY <2>3
    <3> QED BY ONLY <2>1, <3>1
  <2>5. SlotsFit(base, slots) /\ Fits(base, slots[1])
    BY <2>1, <2>2, <2>4 DEF SlotsFit, Fits
  <2>6. CallOK([Top EXCEPT !.cursor = slots[1], !.slots = slots, !.stage = "place"])
    BY <1>2, <2>5, PlacingOK
  <2> QED BY <1>2, <1>8, <2>6, ContinueOK
<1> QED BY <1>1, <1>7, <1>8

LEMMA TopPlacing ==
  ASSUME Inv, calls # <<>>, Top.stage \in {"place", "wait"}
  PROVE  /\ CallOK(Top) /\ Top.init.k = "list" /\ Top.done \in Nat
         /\ Top.done + 1 \in 1 .. Len(Top.init.items)
         /\ IsInitialiser(Item.init) /\ Here \in Types
<1>1. CallOK(Top)
  BY TopOK DEF Inv
<1>2. Top.init.k = "list" /\ Top.done \in Nat /\ Top.done + 1 \in 1 .. Len(Top.init.items)
  BY <1>1 DEF CallOK, Progress
<1>3. Here \in Types
  BY <1>1, ParentType DEF Here, CallOK, Fits
<1> QED BY <1>1, <1>2, <1>3, ItemFacts DEF Item

LEMMA DescendOK == ASSUME Inv, Descend PROVE Inv'
<1> PICK c, d : c = Top /\ d = [Top EXCEPT !.cursor = Into(Top.ty, Top.cursor)]
  OBVIOUS
<1>1. /\ calls # <<>> /\ Top.stage = "place"
      /\ (IsAggregate(TypeAt(c.ty, c.cursor)) /\ SetTop(d) /\ UNCHANGED input) \/ Fail("error")
  BY DEF Descend, Placing, Here
<1>2. CallOK(c)
  BY <1>1, TopPlacing
<1>3. CASE Fail("error")
  BY <1>3, FailOK
<1>4. CASE IsAggregate(TypeAt(c.ty, c.cursor)) /\ SetTop(d) /\ UNCHANGED input
  <2>1. /\ IsCall(d) /\ d.ty = c.ty /\ d.init = c.init /\ d.stage = c.stage
        /\ d.cursor = Into(c.ty, c.cursor) /\ d.slots = c.slots /\ d.done = c.done
    BY <1>2 DEF CallOK, IsCall
  <2>2. SlotsFit(d.ty, d.slots) /\ Progress(d)
    BY <1>2, <2>1 DEF CallOK, Progress
  <2>3. Fits(d.ty, d.cursor)
    BY <1>2, <1>4, <2>1, IntoFits DEF CallOK
  <2>4. CallOK(d)
    BY <1>2, <2>1, <2>2, <2>3 DEF CallOK
  <2> QED BY <1>1, <1>4, <2>4, SetTopOK
<1> QED BY <1>1, <1>3, <1>4

LEMMA OneLong == ASSUME NEW S, NEW x \in S PROVE <<x>> \in Seq(S) /\ Len(<<x>>) = 1 /\ <<x>>[1] = x
OBVIOUS

(* Where the value goes: the cursor, or every slot; where the next one     *)
(* goes: on from the last of them.                                         *)
LEMMA SlotsOrCursor ==
  ASSUME NEW c, CallOK(c), NEW slots, slots = IF c.slots = <<>> THEN <<c.cursor>> ELSE c.slots
  PROVE  SlotsFit(c.ty, slots) /\ Fits(c.ty, Last(slots))
<1>1. Fits(c.ty, c.cursor) /\ SlotsFit(c.ty, c.slots)
  BY DEF CallOK
<1>2. SlotsFit(c.ty, slots)
  <2>1. CASE c.slots # <<>>
    BY <1>1, <2>1
  <2>2. CASE c.slots = <<>>
    <3>1. slots = <<c.cursor>> /\ c.cursor \in Cursors /\ WellTyped(c.ty, c.cursor)
      BY <1>1, <2>2 DEF Fits
    <3>2. slots \in Seq(Cursors) /\ Len(slots) = 1 /\ slots[1] = c.cursor
      BY <3>1, OneLong
    <3>3. \A i \in 1 .. 1 : slots[i] = c.cursor
      BY <3>2
    <3> QED BY <3>1, <3>2, <3>3 DEF SlotsFit
  <2> QED BY <2>1, <2>2
<1>3. slots # <<>>
  BY DEF SlotsFit
<1>4. Len(slots) \in Nat \ {0} /\ Last(slots) = slots[Len(slots)]
  BY <1>2, <1>3 DEF SlotsFit, Last
<1>5. Len(slots) \in 1 .. Len(slots)
  BY <1>4
<1> QED BY <1>2, <1>4, <1>5 DEF SlotsFit, Fits

LEMMA InsertOK ==
  ASSUME Inv, calls # <<>>, Top.stage \in {"place", "wait"}, NEW node, Insert(node)
  PROVE  Inv'
<1> PICK c, slots : c = Top /\ slots = IF Top.slots = <<>> THEN <<Top.cursor>> ELSE Top.slots
  OBVIOUS
<1>1. CallOK(c) /\ c.init.k = "list" /\ c.done \in Nat
  BY TopPlacing
<1>2. Fits(c.ty, Last(slots))
  BY <1>1, SlotsOrCursor
<1>3. PICK tree : \/ Fail("panic")
                  \/ Continue([c EXCEPT !.stage = "item", !.done = @ + 1,
                                        !.cursor = GoNext(c.ty, Last(slots)), !.tree = tree])
  BY DEF Insert
<1>4. CASE Fail("panic")
  BY <1>4, FailOK
<1> PICK d : d = [c EXCEPT !.stage = "item", !.done = @ + 1, !.cursor = GoNext(c.ty, Last(slots)), !.tree = tree]
  OBVIOUS
<1>5. CASE Continue(d)
  <2>1. /\ IsCall(d) /\ d.ty = c.ty /\ d.init = c.init /\ d.stage = "item" /\ d.done = c.done + 1
        /\ d.cursor = GoNext(c.ty, Last(slots)) /\ d.slots = c.slots
    BY <1>1 DEF CallOK, IsCall
  <2>2. SlotsFit(d.ty, d.slots) /\ Progress(d)
    BY <1>1, <2>1 DEF CallOK, Progress
  <2>3. Fits(d.ty, d.cursor)
    BY <1>1, <1>2, <2>1, GoNextFits DEF CallOK
  <2>4. CallOK(d)
    BY <1>1, <2>1, <2>2, <2>3 DEF CallOK
  <2> QED BY <1>5, <2>4, ContinueOK
<1> QED BY <1>3, <1>4, <1>5

LEMMA PlaceOK == ASSUME Inv, Place PROVE Inv'
<1>1. calls # <<>> /\ Top.stage = "place" /\ \E node : Insert(node)
  BY DEF Place, Placing
<1> QED BY <1>1, InsertOK

LEMMA ResumeOK == ASSUME Inv, Resume PROVE Inv'
<1>1. calls # <<>> /\ Top.stage = "wait" /\ Insert(result)
  BY DEF Resume
<1> QED BY <1>1, InsertOK

LEMMA RecurseOK == ASSUME Inv, Recurse PROVE Inv'
<1> PICK c, d, new : /\ c = Top /\ d = [Top EXCEPT !.stage = "wait"]
                     /\ new = Call(Here, Item.init, Append(Top.at, Top.done + 1))
  OBVIOUS
<1>1. /\ calls # <<>> /\ c.stage = "place" /\ UNCHANGED input
      /\ calls' = Append(Front(calls), d) \o <<new>>
  BY DEF Recurse, Placing
<1>2. /\ CallOK(c) /\ c.init.k = "list" /\ c.done \in Nat /\ c.done + 1 \in 1 .. Len(c.init.items)
      /\ IsInitialiser(Item.init) /\ Here \in Types
  BY <1>1, TopPlacing
<1>3. /\ IsCall(d) /\ d.ty = c.ty /\ d.init = c.init /\ d.stage = "wait" /\ d.cursor = c.cursor
      /\ d.slots = c.slots /\ d.done = c.done
  BY <1>2 DEF CallOK, IsCall
<1>4. SlotsFit(d.ty, d.slots) /\ Progress(d)
  BY <1>2, <1>3 DEF CallOK, Progress
<1>5. CallOK(d)
  BY <1>2, <1>3, <1>4 DEF CallOK
<1>6. CallOK(new)
  BY <1>2, NewCall
<1>7. AllOK(Append(Front(calls), d))
  BY <1>1, <1>5, TopOK, PushedOK DEF Inv
<1>8. Append(Front(calls), d) \o <<new>> = Append(Append(Front(calls), d), new)
  BY <1>7, AppendIsConcat DEF AllOK, IsSeq
<1>9. AllOK(Append(Append(Front(calls), d), new))
  BY <1>6, <1>7, PushedOK
<1> QED BY <1>1, <1>8, <1>9 DEF Inv, AllOK

LEMMA EndListOK == ASSUME Inv, EndList PROVE Inv'
<1>1. calls # <<>> /\ Return(Top.tree)
  BY DEF EndList
<1> QED BY <1>1, ReturnOK

LEMMA WriteOK == ASSUME Inv, Write PROVE Inv'
<1> PICK items, ty : items = input.init.items /\ ty = input.ty
  OBVIOUS
<1>1. /\ input \in [ty : DOMAIN Items, init : [k : {"list"}, items : Seq(ListItem)]]
      /\ items \in Seq(ListItem) /\ ty \in DOMAIN Items
  BY DEF Inv
<1>2. PICK item : item \in Items[ty] \union Rest /\ input' = [input EXCEPT !.init.items = Append(items, item)]
  BY DEF Write
<1>3. item \in ListItem
  BY <1>1, <1>2, ItemsAssumption
<1>4. Append(items, item) \in Seq(ListItem)
  BY <1>1, <1>3
<1>5. input' \in [ty : DOMAIN Items, init : [k : {"list"}, items : Seq(ListItem)]]
  BY <1>1, <1>2, <1>4
<1> QED BY <1>5 DEF Inv, Write, AllOK

LEMMA BeginOK == ASSUME Inv, Begin PROVE Inv'
<1> PICK c : c = Call(input.ty, input.init, <<>>)
  OBVIOUS
<1>1. calls' = <<c>> /\ UNCHANGED input
  BY DEF Begin
<1>2. CallOK(c)
  <2>1. input.ty \in Types /\ IsInitialiser(input.init)
    BY ItemsAssumption DEF Inv, IsInitialiser
  <2> QED BY <2>1, NewCall
<1>3. AllOK(<<c>>)
  <2>1. AllOK(<<>>)
    BY EmptySeqOK DEF AllOK
  <2>2. <<c>> = Append(<<>>, c)
    OBVIOUS
  <2> QED BY <1>2, <2>1, <2>2, PushedOK
<1> QED BY <1>1, <1>3 DEF Inv, AllOK

LEMMA InitOK == ASSUME Init PROVE Inv
<1>1. input \in [ty : DOMAIN Items, init : [k : {"list"}, items : Seq(ListItem)]]
  <2>1. PICK t \in DOMAIN Items : input = [ty |-> t, init |-> [k |-> "list", items |-> <<>>]]
    BY DEF Init
  <2>2. <<>> \in Seq(ListItem)
    OBVIOUS
  <2>3. [k |-> "list", items |-> <<>>] \in [k : {"list"}, items : Seq(ListItem)]
    BY <2>2
  <2> QED BY <2>1, <2>3
<1>2. AllOK(calls)
  BY EmptySeqOK DEF AllOK, Init
<1> QED BY <1>1, <1>2 DEF Inv

LEMMA NextOK == ASSUME Inv, [Next]_vars PROVE Inv'
<1>1. CASE UNCHANGED vars
  BY <1>1 DEF Inv, AllOK, vars
<1>2. CASE Ended
  BY <1>2 DEF Ended, Inv, AllOK, vars
<1>3. CASE Next /\ ~Ended
  BY <1>3, WriteOK, BeginOK, UnwrapOK, UnwrapStringOK, SpellOK, LeafCallOK, BracedScalarOK, StartListOK,
     SeekOK, SeekRangeOK, DescendOK, PlaceOK, RecurseOK, ResumeOK, EndListOK DEF Next
<1> QED BY <1>1, <1>2, <1>3

LEMMA EachCall == ASSUME Inv, NEW j \in DOMAIN calls PROVE CallOK(calls[j]) /\ j \in 1 .. Len(calls)
<1>1. PICK S : calls \in Seq(S)
  BY DEF Inv, AllOK, IsSeq
<1>2. j \in 1 .. Len(calls)
  BY <1>1
<1> QED BY <1>2 DEF Inv, AllOK

LEMMA InvImplies == ASSUME Inv PROVE CursorsTyped
<1>1. ASSUME NEW j \in DOMAIN calls, NEW i \in DOMAIN calls[j].slots
      PROVE  WellTyped(calls[j].ty, calls[j].slots[i])
  <2>1. SlotsFit(calls[j].ty, calls[j].slots)
    BY EachCall DEF CallOK
  <2> QED BY <2>1 DEF SlotsFit
<1> QED BY <1>1, EachCall DEF CallOK, Fits, CursorsTyped

-----------------------------------------------------------------------------
(***************************************************************************)
(* The parts of a type: the types met on the way along a path, down to     *)
(* type u at its end.                                                      *)
(***************************************************************************)
Chain(t, p, ts) ==
  /\ ts \in [0 .. Len(p) -> Types] /\ ts[0] = t
  /\ \A j \in 1 .. Len(p) :
       p[j] \in 1 .. Len(Members[ts[j - 1]]) /\ ts[j] = Members[ts[j - 1]][p[j]]

StandsAt(t, p, u) == \E ts : Chain(t, p, ts) /\ ts[Len(p)] = u

TreeFits(t, tree) ==
  DOMAIN tree \subseteq Paths /\ \A p \in DOMAIN tree : StandsAt(t, p, tree[p].ty)

LEMMA ChainTypes ==
  ASSUME NEW t, NEW p \in Paths, NEW ts, Chain(t, p, ts) PROVE TypeOf(t, p) = ts[Len(p)]
<1> DEFINE n == Len(p)
           Is(g) == g = [j \in 0 .. n |-> IF j = 0 THEN t
                                          ELSE IF IsArray(g[j - 1]) THEN Element(g[j - 1])
                                          ELSE Members[g[j - 1]][p[j]]]
           way == CHOOSE g : Is(g)
<1>1. n \in Nat /\ ts \in [0 .. n -> Types] /\ ts[0] = t
  BY PathLen DEF Chain
<1>2. ASSUME NEW j \in 1 .. n
      PROVE  ts[j] = IF IsArray(ts[j - 1]) THEN Element(ts[j - 1]) ELSE Members[ts[j - 1]][p[j]]
  <2>1. j - 1 \in 0 .. n /\ ts[j - 1] \in Types
    BY <1>1
  <2> QED BY <2>1, TypeFacts DEF Chain
<1> HIDE DEF n
<1>3. Is(ts)
  <2>1. \A j \in 0 .. n : j # 0 => j \in 1 .. n
    BY <1>1
  <2> QED BY <1>1, <1>2, <2>1
<1>4. Is(way)
  <2> HIDE DEF Is
  <2> QED BY <1>3
<1>5. TypeOf(t, p) = way[n]
  BY DEF TypeOf, n
<1> HIDE DEF way
<1>6. /\ way[0] = t
      /\ \A k \in 0 .. n - 1 :
           way[k + 1] = IF IsArray(way[k]) THEN Element(way[k]) ELSE Members[way[k]][p[k + 1]]
  <2>1. 0 \in 0 .. n /\ \A k \in 0 .. n - 1 : k + 1 \in 0 .. n /\ k + 1 # 0 /\ (k + 1) - 1 = k
    BY <1>1
  <2> QED BY <1>4, <2>1
<1> HIDE DEF Is
<1> DEFINE T == {k \in 0 .. n : way[k] = ts[k]}
<1>7. 0 \in T
  BY <1>1, <1>6
<1>8. \A k \in 0 .. n - 1 : k \in T => k + 1 \in T
  <2> SUFFICES ASSUME NEW k \in 0 .. n - 1, way[k] = ts[k] PROVE k + 1 \in 0 .. n /\ way[k + 1] = ts[k + 1]
    OBVIOUS
  <2>1. k + 1 \in 1 .. n /\ (k + 1) - 1 = k
    BY <1>1
  <2> QED BY <1>1, <1>2, <1>6, <2>1
<1> HIDE DEF T
<1>9. n \in T
  BY <1>1, <1>7, <1>8, UpTo
<1> QED BY <1>5, <1>9 DEF T, n

LEMMA ChainStart ==
  ASSUME NEW t, NEW p \in Paths, NEW ts, Chain(t, p, ts), NEW k \in 0 .. Len(p)
  PROVE  SubSeq(p, 1, k) \in Paths /\ TypeOf(t, SubSeq(p, 1, k)) = ts[k]
<1> PICK n, q : n = Len(p) /\ q = SubSeq(p, 1, k)
  OBVIOUS
<1>1. n \in Nat /\ k \in Nat /\ k <= n
  BY PathLen
<1>2. q \in Paths /\ Len(q) = k /\ \A i \in 1 .. k : q[i] = p[i]
  <2>1. \A i \in 1 .. k : p[i] \in Nat
    BY <1>1 DEF Paths
  <2>2. /\ q \in Paths
        /\ Len(q) = IF 1 <= k THEN k - 1 + 1 ELSE 0
        /\ \A i \in 1 .. k - 1 + 1 : q[i] = p[1 + i - 1]
    BY <1>1, <2>1, SubSeqProperties DEF Paths
  <2>3. k - 1 + 1 = k /\ (~(1 <= k) => k = 0) /\ \A i \in 1 .. k : 1 + i - 1 = i
    BY <1>1
  <2> QED BY <2>2, <2>3
<1> DEFINE us == [j \in 0 .. k |-> ts[j]]
<1>3. Chain(t, q, us)
  <2>1. 0 \in 0 .. k /\ \A j \in 0 .. k : j \in 0 .. n
    BY <1>1
  <2>2. us \in [0 .. k -> Types] /\ us[0] = t
    <3>1. ts \in [0 .. n -> Types] /\ ts[0] = t
      BY DEF Chain
    <3> QED BY <2>1, <3>1
  <2>3. ASSUME NEW j \in 1 .. k
        PROVE  q[j] \in 1 .. Len(Members[us[j - 1]]) /\ us[j] = Members[us[j - 1]][q[j]]
    <3>1. j \in 1 .. n /\ j \in 0 .. k /\ j - 1 \in 0 .. k
      BY <1>1
    <3> QED BY <1>2, <3>1 DEF Chain
  <2> HIDE DEF us
  <2> QED BY <1>2, <2>2, <2>3 DEF Chain
<1>4. us[k] = ts[k]
  BY <1>1
<1> HIDE DEF us
<1> QED BY <1>2, <1>3, <1>4, ChainTypes

LEMMA FitsIsOfParts == ASSUME NEW t, NEW tree, TreeFits(t, tree) PROVE ValuesOfParts(t, tree)
<1> SUFFICES ASSUME NEW p \in DOMAIN tree PROVE IsPart(t, p) /\ tree[p].ty = TypeOf(t, p)
  BY DEF ValuesOfParts
<1>1. p \in Paths /\ StandsAt(t, p, tree[p].ty)
  BY DEF TreeFits
<1>2. PICK ts : Chain(t, p, ts) /\ ts[Len(p)] = tree[p].ty
  BY <1>1 DEF StandsAt
<1>3. ASSUME NEW j \in DOMAIN p PROVE p[j] \in DOMAIN Members[TypeOf(t, SubSeq(p, 1, j - 1))]
  <2>1. j \in 1 .. Len(p) /\ j - 1 \in 0 .. Len(p)
    BY <1>1, PathLen
  <2>2. TypeOf(t, SubSeq(p, 1, j - 1)) = ts[j - 1] /\ ts[j - 1] \in Types
    BY <1>1, <1>2, <2>1, ChainStart DEF Chain
  <2>3. p[j] \in 1 .. Len(Members[ts[j - 1]])
    BY <1>2, <2>1 DEF Chain
  <2> QED BY <2>2, <2>3, TypeFacts
<1> QED BY <1>1, <1>2, <1>3, ChainTypes DEF IsPart

(* A cursor that is not past the end of an array stands at a part.         *)
LEMMA PathOf ==
  ASSUME NEW cursor \in Cursors
  PROVE  /\ Path(cursor) \in Paths /\ Len(Path(cursor)) = Len(cursor)
         /\ \A j \in 1 .. Len(cursor) : Path(cursor)[j] = cursor[j].i
<1> PICK n, p : n = Len(cursor) /\ p = Path(cursor)
  OBVIOUS
<1>1. n \in Nat /\ DOMAIN cursor = 1 .. n /\ \A j \in 1 .. n : cursor[j].i \in Nat
  BY CursorEntry
<1>2. p \in [1 .. n -> Nat] /\ \A j \in 1 .. n : p[j] = cursor[j].i
  BY <1>1 DEF Path
<1>3. p \in Seq(Nat) /\ Len(p) = n
  BY ONLY <1>1, <1>2
<1> QED BY <1>2, <1>3 DEF Paths

LEMMA CursorStands ==
  ASSUME NEW base \in Types, NEW cursor, Fits(base, cursor), ~PastTheEnd(base, cursor)
  PROVE  StandsAt(base, Path(cursor), TypeAt(base, cursor))
<1> PICK n, p : n = Len(cursor) /\ p = Path(cursor)
  OBVIOUS
<1> DEFINE ts == [j \in 0 .. n |-> IF j = 0 THEN base ELSE cursor[j].ty]
<1>1. /\ cursor \in Cursors /\ n \in Nat /\ DOMAIN cursor = 1 .. n
      /\ Len(p) = n /\ \A j \in 1 .. n : p[j] = cursor[j].i
  BY CursorEntry, PathOf DEF Fits
<1>2. ts \in [0 .. n -> Types] /\ ts[0] = base /\ \A j \in 1 .. n : ts[j] = cursor[j].ty
  <2>1. \A j \in 0 .. n : j # 0 => j \in 1 .. n
    BY <1>1
  <2> QED BY <1>1, <2>1, CursorEntry
<1> HIDE DEF ts
<1>3. ASSUME NEW j \in 1 .. n
      PROVE  p[j] \in 1 .. Len(Members[ts[j - 1]]) /\ ts[j] = Members[ts[j - 1]][p[j]]
  <2> PICK u, i : u = ParentAt(base, cursor, j) /\ i = cursor[j].i
    OBVIOUS
  <2>1. ts[j - 1] = u
    <3>1. CASE j = 1
      BY <1>2, <3>1 DEF ParentAt
    <3>2. CASE j # 1
      <4>1. j - 1 \in 1 .. n
        BY <1>1, <3>2
      <4> QED BY <1>2, <3>2, <4>1 DEF ParentAt
    <3> QED BY <3>1, <3>2
  <2>2. u \in Types /\ i \in Nat \ {0}
    BY <1>1, ParentType, CursorEntry
  <2>3. /\ cursor[j].ty = IF IsArray(u) THEN Element(u) ELSE Members[u][i]
        /\ IsArray(u) \/ i \in DOMAIN Members[u]
    BY <1>1 DEF Fits, WellTyped
  <2>4. IsArray(u) => ~(i > Len(Members[u]))
    BY <1>1 DEF PastTheEnd
  <2>5. i \in 1 .. Len(Members[u])
    BY <2>2, <2>3, <2>4, TypeFacts
  <2> QED BY <1>1, <1>2, <2>1, <2>2, <2>3, <2>5, TypeFacts
<1>4. Chain(base, p, ts)
  BY <1>1, <1>2, <1>3 DEF Chain
<1>5. ts[n] = TypeAt(base, cursor)
  <2>1. CASE cursor = <<>>
    BY <1>2, <2>1 DEF TypeAt
  <2>2. CASE cursor # <<>>
    <3>1. n \in 1 .. n
      BY <1>1, <2>2 DEF Cursors
    <3> QED BY <1>2, <2>2, <3>1 DEF TypeAt, Last
  <2> QED BY <2>1, <2>2
<1> QED BY <1>1, <1>4, <1>5 DEF StandsAt

(* A part of a part is a part.                                             *)
LEMMA PartOfPart ==
  ASSUME NEW t, NEW u, NEW w, NEW p \in Paths, NEW r \in Paths, StandsAt(t, p, u), StandsAt(u, r, w)
  PROVE  StandsAt(t, p \o r, w)
<1> PICK l, m, q : l = Len(p) /\ m = Len(r) /\ q = p \o r
  OBVIOUS
<1>1. PICK a : Chain(t, p, a) /\ a[l] = u
  BY DEF StandsAt
<1>2. PICK b : Chain(u, r, b) /\ b[m] = w
  BY DEF StandsAt
<1>3. /\ l \in Nat /\ m \in Nat /\ q \in Paths /\ Len(q) = l + m
      /\ \A i \in 1 .. l + m : q[i] = IF i <= l THEN p[i] ELSE r[i - l]
  BY PathLen, ConcatProperties DEF Paths
<1>4. a \in [0 .. l -> Types] /\ a[0] = t /\ b \in [0 .. m -> Types] /\ b[0] = u
  BY <1>1, <1>2 DEF Chain
<1> DEFINE ts == [j \in 0 .. l + m |-> IF j <= l THEN a[j] ELSE b[j - l]]
<1>5. /\ ts \in [0 .. l + m -> Types]
      /\ \A j \in 0 .. l : ts[j] = a[j]
      /\ \A j \in 0 .. m : ts[l + j] = b[j]
  <2>1. ASSUME NEW j \in 0 .. l + m PROVE ts[j] \in Types
    <3>1. ~(j <= l) => j - l \in 0 .. m
      BY <1>3
    <3>2. j <= l => j \in 0 .. l
      BY <1>3
    <3> QED BY <1>4, <3>1, <3>2
  <2>2. \A j \in 0 .. l : j \in 0 .. l + m /\ j <= l
    BY <1>3
  <2>3. ASSUME NEW j \in 0 .. m PROVE ts[l + j] = b[j]
    <3>1. l + j \in 0 .. l + m
      BY <1>3
    <3>2. CASE j = 0
      <4>1. l + j = l /\ l <= l /\ l \in 0 .. l + m
        BY <1>3, <3>2
      <4> QED BY <1>1, <1>4, <3>2, <4>1
    <3>3. CASE j # 0
      <4>1. ~(l + j <= l) /\ (l + j) - l = j
        BY <1>3, <3>3
      <4> QED BY <3>1, <4>1
    <3> QED BY <3>2, <3>3
  <2> QED BY <2>1, <2>2, <2>3
<1> HIDE DEF ts
<1>6. ASSUME NEW j \in 1 .. l + m
      PROVE  q[j] \in 1 .. Len(Members[ts[j - 1]]) /\ ts[j] = Members[ts[j - 1]][q[j]]
  <2>1. CASE j <= l
    <3>1. j \in 1 .. l /\ j \in 0 .. l /\ j - 1 \in 0 .. l
      BY <1>3, <2>1
    <3> QED BY <1>1, <1>3, <1>5, <2>1, <3>1 DEF Chain
  <2>2. CASE ~(j <= l)
    <3> PICK i : i = j - l
      OBVIOUS
    <3>1. i \in 1 .. m /\ i \in 0 .. m /\ i - 1 \in 0 .. m /\ l + i = j /\ l + (i - 1) = j - 1
      BY <1>3, <2>2
    <3>2. ts[j] = b[i] /\ ts[j - 1] = b[i - 1] /\ q[j] = r[i]
      BY <1>3, <1>5, <2>2, <3>1
    <3> QED BY <1>2, <3>1, <3>2 DEF Chain
  <2> QED BY <2>1, <2>2
<1>7. ts[0] = t /\ ts[l + m] = w
  <2>1. 0 \in 0 .. l /\ m \in 0 .. m
    BY <1>3
  <2> QED BY <1>2, <1>4, <1>5, <2>1
<1>8. Chain(t, q, ts)
  BY <1>3, <1>5, <1>6, <1>7 DEF Chain
<1> QED BY <1>3, <1>7, <1>8 DEF StandsAt

-----------------------------------------------------------------------------
(***************************************************************************)
(* Trees.  What a graft holds is what the tree held elsewhere, and the     *)
(* node at each of the paths.                                              *)
(***************************************************************************)
Kept(tree, ps) == {q \in DOMAIN tree : \A p \in ps : ~Under(p, q)}
Placed(ps, node) == UNION {{p \o r : r \in DOMAIN node} : p \in ps}

LEMMA GraftKeeps ==
  ASSUME NEW tree, NEW ps, NEW node
  PROVE  /\ DOMAIN Graft(tree, ps, node) = Kept(tree, ps) \union Placed(ps, node)
         /\ \A q \in Kept(tree, ps) : q \in DOMAIN tree /\ Graft(tree, ps, node)[q] = tree[q]
BY DEF Graft, Kept, Placed

LEMMA GraftPlaces ==
  ASSUME NEW tree, NEW ps, NEW node, NEW q \in Placed(ps, node), q \notin Kept(tree, ps),
         \E p \in ps : Under(p, q)
  PROVE  \E p \in ps : Under(p, q) /\ Graft(tree, ps, node)[q] = node[SubSeq(q, Len(p) + 1, Len(q))]
<1> DEFINE p == CHOOSE p \in ps : Under(p, q)
<1>1. p \in ps /\ Under(p, q)
  OBVIOUS
<1>2. Graft(tree, ps, node)[q] = node[SubSeq(q, Len(p) + 1, Len(q))]
  BY DEF Graft, Kept, Placed
<1> QED BY <1>1, <1>2

LEMMA EmptyFitsAll == ASSUME NEW t PROVE TreeFits(t, <<>>)
BY DEF TreeFits

LEMMA LeafFits == ASSUME NEW t \in Types, NEW at PROVE TreeFits(t, Leaf(Coerced(at, t)))
<1> PICK tree, p : tree = Leaf(Coerced(at, t)) /\ p = <<>>
  OBVIOUS
<1>1. DOMAIN tree = {p} /\ tree[p].ty = t
  BY DEF Leaf, Coerced
<1>2. p \in Paths /\ Len(p) = 0
  BY DEF Paths
<1> DEFINE ts == [j \in 0 .. 0 |-> t]
<1>3. ts \in [0 .. 0 -> Types] /\ ts[0] = t
  OBVIOUS
<1> HIDE DEF ts
<1>4. Chain(t, p, ts)
  BY <1>2, <1>3 DEF Chain
<1>5. StandsAt(t, p, t)
  BY <1>2, <1>3, <1>4 DEF StandsAt
<1> QED BY <1>1, <1>2, <1>5 DEF TreeFits

LEMMA Below ==
  ASSUME NEW p \in Paths, NEW r \in Paths
  PROVE  SubSeq(p \o r, Len(p) + 1, Len(p \o r)) = r
<1> PICK l, m, q, s : /\ l = Len(p) /\ m = Len(r) /\ q = p \o r
                      /\ s = SubSeq(q, l + 1, l + m)
  OBVIOUS
<1>1. /\ l \in Nat /\ m \in Nat /\ q \in Paths /\ Len(q) = l + m
      /\ \A i \in 1 .. l + m : q[i] = IF i <= l THEN p[i] ELSE r[i - l]
  BY PathLen, ConcatProperties DEF Paths
<1>2. /\ s \in Paths
      /\ Len(s) = IF l + 1 <= l + m THEN (l + m) - (l + 1) + 1 ELSE 0
      /\ \A i \in 1 .. (l + m) - (l + 1) + 1 : s[i] = q[(l + 1) + i - 1]
  <2>1. \A i \in l + 1 .. l + m : q[i] \in Nat
    <3> SUFFICES ASSUME NEW i \in l + 1 .. l + m PROVE q[i] \in Nat
      OBVIOUS
    <3>1. i \in 1 .. Len(q)
      BY <1>1
    <3> QED BY <1>1, <3>1 DEF Paths
  <2> QED BY <1>1, <2>1, SubSeqProperties DEF Paths
<1>3. Len(s) = m
  BY <1>1, <1>2
<1>4. ASSUME NEW i \in 1 .. m PROVE s[i] = r[i]
  <2>1. /\ i \in 1 .. (l + m) - (l + 1) + 1 /\ (l + 1) + i - 1 = l + i
        /\ l + i \in 1 .. l + m /\ ~(l + i <= l) /\ (l + i) - l = i
    BY <1>1
  <2> QED BY <1>1, <1>2, <2>1
<1>5. s = r
  BY <1>2, <1>3, <1>4, SeqEqual DEF Paths
<1> QED BY <1>1, <1>5

LEMMA GraftFits ==
  ASSUME NEW t, NEW tree, TreeFits(t, tree), NEW u, NEW node, TreeFits(u, node),
         NEW ps \in SUBSET Paths, \A p, q \in ps : Len(p) = Len(q),
         \A p \in ps : StandsAt(t, p, u)
  PROVE  TreeFits(t, Graft(tree, ps, node))
<1> PICK new : new = Graft(tree, ps, node)
  OBVIOUS
<1>1. DOMAIN new = Kept(tree, ps) \union Placed(ps, node)
  BY GraftKeeps
<1>2. ASSUME NEW q \in DOMAIN new, q \in Kept(tree, ps)
      PROVE  q \in Paths /\ StandsAt(t, q, new[q].ty)
  <2>1. q \in DOMAIN tree /\ new[q] = tree[q]
    BY <1>2, GraftKeeps
  <2> QED BY <2>1 DEF TreeFits
<1>3. ASSUME NEW q \in DOMAIN new, q \notin Kept(tree, ps)
      PROVE  q \in Paths /\ StandsAt(t, q, new[q].ty)
  <2>1. q \in Placed(ps, node)
    BY <1>1, <1>3
  <2>2. PICK p \in ps, r \in DOMAIN node : q = p \o r
    BY <2>1 DEF Placed
  <2>3. p \in Paths /\ r \in Paths /\ q \in Paths /\ Under(p, q)
    BY <2>2, Extension DEF TreeFits
  <2>4. PICK p2 \in ps : Under(p2, q) /\ new[q] = node[SubSeq(q, Len(p2) + 1, Len(q))]
    <3>1. \E p2 \in ps : Under(p2, q)
      BY <2>2, <2>3
    <3> QED BY ONLY <1>3, <2>1, <3>1, GraftPlaces, new = Graft(tree, ps, node)
  <2>5. p2 = p
    <3>1. Len(p2) = Len(p) /\ Len(p2) <= Len(p)
      BY <2>2, <2>4, PathLen
    <3> QED BY <2>3, <2>4, <3>1, BelowBoth, Antisymmetric
  <2>6. new[q] = node[r]
    BY <2>2, <2>3, <2>4, <2>5, Below
  <2>7. StandsAt(u, r, node[r].ty)
    BY DEF TreeFits
  <2> QED BY <2>2, <2>3, <2>6, <2>7, PartOfPart
<1> QED BY <1>2, <1>3 DEF TreeFits

-----------------------------------------------------------------------------
(***************************************************************************)
(* The trees of the calls in progress: each is for the part that the call  *)
(* around it is at, and the value of a range is for all of its slots.      *)
(***************************************************************************)
CallFits(c) ==
  /\ TreeFits(c.ty, c.tree)
  /\ c.stage \in {"place", "wait"} =>
       \A i \in 1 .. Len(c.slots) : TypeAt(c.ty, c.slots[i]) = TypeAt(c.ty, c.cursor)

Target(base, s, j) == IF j = 1 THEN base ELSE TypeAt(s[j - 1].ty, s[j - 1].cursor)

AllFit(base, s) == \A j \in 1 .. Len(s) : CallFits(s[j]) /\ s[j].ty = Target(base, s, j)

TreesFit ==
  /\ AllFit(input.ty, calls)
  /\ calls # <<>> /\ Top.stage = "wait" => TreeFits(Here, result)
  /\ status = "done" => TreeFits(input.ty, result)

LEMMA TopFits ==
  ASSUME Inv, calls # <<>>, AllFit(input.ty, calls)
  PROVE  /\ CallFits(Top) /\ AllFit(input.ty, Front(calls))
         /\ Top.ty = Target(input.ty, Front(calls), Len(Front(calls)) + 1)
<1> PICK n, f : n = Len(calls) /\ f = Front(calls)
  OBVIOUS
<1>1. /\ n \in Nat \ {0} /\ Top = calls[n] /\ Len(f) = n - 1
      /\ \A i \in 1 .. n - 1 : f[i] = calls[i]
  BY OuterCalls DEF Inv, AllOK, Top
<1>2. ASSUME NEW j \in 1 .. n PROVE Target(input.ty, f, j) = Target(input.ty, calls, j)
  <2>1. j # 1 => j - 1 \in 1 .. n - 1
    BY <1>1
  <2> QED BY <1>1, <2>1 DEF Target
<1>3. n \in 1 .. n /\ (n - 1) + 1 = n /\ \A j \in 1 .. n - 1 : j \in 1 .. n
  BY <1>1
<1> QED BY <1>1, <1>2, <1>3 DEF AllFit

LEMMA PushedFits ==
  ASSUME NEW base, NEW s, IsSeq(s), AllFit(base, s), NEW c, CallFits(c),
         c.ty = Target(base, s, Len(s) + 1)
  PROVE  AllFit(base, Append(s, c))
<1> PICK n, new : n = Len(s) /\ new = Append(s, c)
  OBVIOUS
<1>1. Len(new) = n + 1 /\ n \in Nat /\ new[n + 1] = c /\ \A i \in 1 .. n : new[i] = s[i]
  BY MoreCalls
<1>2. ASSUME NEW j \in 1 .. n + 1 PROVE Target(base, new, j) = Target(base, s, j)
  <2>1. j # 1 => j - 1 \in 1 .. n
    BY <1>1
  <2> QED BY <1>1, <2>1 DEF Target
<1>3. \A j \in 1 .. n + 1 : j \in 1 .. n \/ j = n + 1
  BY <1>1
<1> QED BY <1>1, <1>2, <1>3 DEF AllFit

LEMMA LastOfPushed ==
  ASSUME NEW s, IsSeq(s), NEW c PROVE Last(Append(s, c)) = c /\ Append(s, c) # <<>>
<1>1. Len(Append(s, c)) = Len(s) + 1 /\ Len(s) \in Nat /\ Append(s, c)[Len(s) + 1] = c
  BY MoreCalls
<1>2. Len(Append(s, c)) # 0
  BY <1>1
<1> QED BY <1>1, <1>2 DEF Last

(* The innermost call gives way to another one for the same part.          *)
LEMMA SetTopFits ==
  ASSUME Inv, calls # <<>>, TreesFit, NEW c, c.ty = Top.ty, CallFits(c), c.stage # "wait",
         SetTop(c), UNCHANGED <<input, result, status>>
  PROVE  TreesFit'
<1>1. AllFit(input.ty, Front(calls)) /\ c.ty = Target(input.ty, Front(calls), Len(Front(calls)) + 1)
  BY TopFits DEF TreesFit
<1>2. IsSeq(Front(calls))
  BY OuterCalls DEF Inv, AllOK
<1>3. AllFit(input.ty, Append(Front(calls), c)) /\ Last(Append(Front(calls), c)) = c
  BY <1>1, <1>2, PushedFits, LastOfPushed
<1>4. Top' = c
  BY <1>3 DEF SetTop, Top
<1> QED BY <1>3, <1>4 DEF TreesFit, SetTop, AllFit

LEMMA ContinueFits ==
  ASSUME Inv, calls # <<>>, TreesFit, NEW c, c.ty = Top.ty, CallFits(c), c.stage # "wait", Continue(c)
  PROVE  TreesFit'
BY SetTopFits DEF Continue

LEMMA FailFits == ASSUME TreesFit, NEW how, how # "done", Fail(how) PROVE TreesFit'
BY DEF TreesFit, Fail, AllFit, Top, Here

LEMMA ReturnFits ==
  ASSUME Inv, calls # <<>>, TreesFit, NEW tree, TreeFits(Top.ty, tree), Return(tree)
  PROVE  TreesFit'
<1> PICK n, f : n = Len(calls) /\ f = Front(calls)
  OBVIOUS
<1>1. /\ n \in Nat \ {0} /\ IsSeq(f) /\ Len(f) = n - 1
  BY OuterCalls DEF Inv, AllOK
<1>2. AllFit(input.ty, f) /\ Top.ty = Target(input.ty, f, n)
  BY <1>1, TopFits DEF TreesFit
<1>3. calls' = f /\ result' = tree /\ input' = input /\ (status' = "done" => n = 1)
  BY DEF Return
<1>4. status' = "done" => TreeFits(input.ty, tree)
  BY <1>2, <1>3 DEF Target
<1>5. ASSUME f # <<>> PROVE TreeFits(TypeAt(Last(f).ty, Last(f).cursor), tree)
  <2>1. Len(f) \in Nat \ {0} /\ Last(f) = f[Len(f)]
    BY <1>1, <1>5, OuterCalls
  <2>2. n # 1 /\ Len(f) = n - 1
    BY <1>1, <2>1
  <2> QED BY <1>2, <2>1, <2>2 DEF Target
<1> QED BY <1>2, <1>3, <1>4, <1>5 DEF TreesFit, AllFit, Top, Here

(* A call that goes on with the same tree, in a stage without slots.       *)
LEMMA MovesOn ==
  ASSUME Inv, calls # <<>>, TreesFit, NEW c, c.ty = Top.ty, c.tree = Top.tree,
         c.stage \in {"enter", "item"}, Continue(c)
  PROVE  TreesFit'
<1>1. CallFits(c)
  BY TopFits DEF TreesFit, CallFits
<1> QED BY <1>1, ContinueFits

LEMMA RewriteFits ==
  ASSUME Inv, TreesFit, Entering, NEW init, NEW at, Rewrite(init, at) PROVE TreesFit'
<1> PICK c : c = [Top EXCEPT !.init = init, !.at = at]
  OBVIOUS
<1>1. calls # <<>> /\ CallOK(Top) /\ Top.stage = "enter" /\ Continue(c)
  BY TopEntering DEF Rewrite
<1>2. c.ty = Top.ty /\ c.tree = Top.tree /\ c.stage = "enter"
  BY <1>1 DEF CallOK, IsCall
<1> QED BY <1>1, <1>2, MovesOn

LEMMA LeafCallFits == ASSUME Inv, TreesFit, LeafCall PROVE TreesFit'
<1>1. Entering /\ (Return(Leaf(Coerced(Top.at, Top.ty))) \/ Fail("error"))
  BY DEF LeafCall
<1>2. calls # <<>> /\ Top.ty \in Types
  BY <1>1, TopEntering DEF CallOK
<1> QED BY <1>1, <1>2, LeafFits, ReturnFits, FailFits

LEMMA BracedScalarFits == ASSUME Inv, TreesFit, BracedScalar PROVE TreesFit'
<1>1. Entering /\ (Fail("error") \/ Rewrite(Only(Top.init), Append(Top.at, 1)))
  BY DEF BracedScalar
<1> QED BY <1>1, RewriteFits, FailFits

LEMMA StartListFits == ASSUME Inv, TreesFit, StartList PROVE TreesFit'
<1> PICK c : c = [Top EXCEPT !.stage = "item", !.cursor = FirstCursor(Top.ty)]
  OBVIOUS
<1>1. Entering /\ Continue(c)
  BY DEF StartList
<1>2. calls # <<>> /\ CallOK(Top)
  BY <1>1, TopEntering
<1>3. c.ty = Top.ty /\ c.tree = Top.tree /\ c.stage = "item"
  BY <1>2 DEF CallOK, IsCall
<1> QED BY <1>1, <1>2, <1>3, MovesOn

LEMMA SkipFits == ASSUME Inv, TreesFit, AtItem, Skip PROVE TreesFit'
<1> PICK c : c = [Top EXCEPT !.done = @ + 1]
  OBVIOUS
<1>1. calls # <<>> /\ CallOK(Top) /\ Top.stage = "item" /\ Continue(c)
  BY TopAtItem DEF Skip
<1>2. c.ty = Top.ty /\ c.tree = Top.tree /\ c.stage = "item"
  BY <1>1 DEF CallOK, IsCall
<1> QED BY <1>1, <1>2, MovesOn

LEMMA SeekFits == ASSUME Inv, TreesFit, Seek PROVE TreesFit'
<1>1. AtItem
  BY DEF Seek
<1>2. calls # <<>> /\ CallOK(Top) /\ CallFits(Top)
  BY <1>1, TopAtItem, TopFits DEF TreesFit
<1>3. ASSUME NEW cursor, Continue([Top EXCEPT !.cursor = cursor, !.slots = <<>>, !.stage = "place"])
      PROVE  TreesFit'
  <2> PICK c : c = [Top EXCEPT !.cursor = cursor, !.slots = <<>>, !.stage = "place"]
    OBVIOUS
  <2>1. c.ty = Top.ty /\ c.tree = Top.tree /\ c.stage = "place" /\ c.slots = <<>>
    BY <1>2 DEF CallOK, IsCall
  <2>2. CallFits(c)
    BY <1>2, <2>1 DEF CallFits
  <2> QED BY <1>2, <1>3, <2>1, <2>2, ContinueFits
<1>4. \/ Fail("error") \/ Skip
      \/ \E cursor : Continue([Top EXCEPT !.cursor = cursor, !.slots = <<>>, !.stage = "place"])
  BY DEF Seek
<1> QED BY <1>1, <1>3, <1>4, SkipFits, FailFits

LEMMA SeekRangeFits == ASSUME Inv, TreesFit, SeekRange PROVE TreesFit'
<1> PICK to, t, lo, hi : /\ to = Designated(Top.ty, Front(Item.des)) /\ t = TypeAt(Top.ty, to.at)
                         /\ lo = Last(Item.des).n /\ hi = Last(Item.des).to
  OBVIOUS
<1> DEFINE m == hi + 1 - lo
           slot == [j \in 1 .. m |-> Append(to.at, Entry(lo + j - 1, Element(t)))]
           c == [Top EXCEPT !.cursor = slot[1], !.slots = slot, !.stage = "place"]
<1>1. AtItem /\ Ranged(Item.des) /\ (Fail("error") \/ (~(hi < lo) /\ IsArray(t) /\ Continue(c)))
  BY DEF SeekRange
<1>2. /\ calls # <<>> /\ CallOK(Top) /\ Item.des \in Seq(Designator) /\ CallFits(Top) /\ Top.ty \in Types
  BY <1>1, TopAtItem, TopFits DEF TreesFit, CallOK
<1>3. lo \in Nat \ {0} /\ hi \in Nat \ {0} /\ Fits(Top.ty, to.at) /\ t \in Types
  BY <1>1, <1>2, RangeFacts, ParentType DEF Fits
<1>4. CASE ~(hi < lo) /\ IsArray(t) /\ Continue(c)
  <2>1. m \in Nat \ {0} /\ 1 \in 1 .. m /\ \A j \in 1 .. m : lo + j - 1 \in Nat \ {0}
    BY <1>3, <1>4
  <2>2. ASSUME NEW j \in 1 .. m PROVE TypeAt(Top.ty, slot[j]) = Element(t)
    <3>1. Leads(t, Entry(lo + j - 1, Element(t)))
      BY <1>3, <1>4, <2>1, LeadsIntoArray
    <3>2. slot[j] = Append(to.at, Entry(lo + j - 1, Element(t)))
      OBVIOUS
    <3> QED BY <1>2, <1>3, <3>1, <3>2, FurtherIn DEF Entry
  <2>3. Len(slot) = m
    BY <2>1
  <2>4. c.ty = Top.ty /\ c.tree = Top.tree /\ c.stage = "place" /\ c.slots = slot /\ c.cursor = slot[1]
    BY <1>2 DEF CallOK, IsCall
  <2> HIDE DEF c, slot, m
  <2>5. CallFits(c)
    BY <1>2, <2>1, <2>2, <2>3, <2>4 DEF CallFits
  <2> QED BY <1>2, <1>4, <2>4, <2>5, ContinueFits
<1> QED BY <1>1, <1>4, FailFits

(* Unless the value of a range goes astray.                                *)
LEMMA DescendFits == ASSUME Inv, TreesFit, Descend, ~astray' PROVE TreesFit'
<1> PICK c : c = [Top EXCEPT !.cursor = Into(Top.ty, @)]
  OBVIOUS
<1>1. /\ calls # <<>> /\ Top.stage = "place"
      /\ Fail("error") \/ (SetTop(c) /\ Top.slots = <<>> /\ UNCHANGED <<input, result, status>>)
  BY DEF Descend, Placing
<1>2. CallOK(Top) /\ CallFits(Top)
  BY <1>1, TopPlacing, TopFits DEF TreesFit
<1>3. c.ty = Top.ty /\ c.tree = Top.tree /\ c.stage = "place" /\ c.slots = Top.slots
  BY <1>1, <1>2 DEF CallOK, IsCall
<1>4. CASE SetTop(c) /\ Top.slots = <<>> /\ UNCHANGED <<input, result, status>>
  <2>1. CallFits(c)
    BY <1>2, <1>3, <1>4 DEF CallFits
  <2> QED BY <1>1, <1>3, <1>4, <2>1, SetTopFits
<1> QED BY <1>1, <1>4, FailFits

LEMMA InsertFits ==
  ASSUME Inv, TreesFit, calls # <<>>, Top.stage \in {"place", "wait"},
         NEW node, TreeFits(Here, node), Insert(node)
  PROVE  TreesFit'
<1> PICK c, slots : c = Top /\ slots = IF Top.slots = <<>> THEN <<Top.cursor>> ELSE Top.slots
  OBVIOUS
<1> PICK inside : inside = {i \in DOMAIN slots : ~PastTheEnd(Top.ty, slots[i])}
  OBVIOUS
<1> PICK ps : ps = {Path(slots[i]) : i \in inside}
  OBVIOUS
<1> PICK d : d = [Top EXCEPT !.stage = "item", !.done = @ + 1,
                       !.cursor = GoNext(Top.ty, Last(slots)), !.tree = Graft(@, ps, node)]
  OBVIOUS
<1>1. CallOK(c) /\ CallFits(c) /\ c.ty \in Types
  BY TopPlacing, TopFits DEF TreesFit, CallOK
<1>2. SlotsFit(c.ty, slots)
  BY <1>1, SlotsOrCursor
<1>3. \A i \in 1 .. Len(slots) : TypeAt(c.ty, slots[i]) = Here
  <2>1. CASE c.slots = <<>>
    BY <2>1 DEF Here
  <2>2. CASE c.slots # <<>>
    BY <1>1, <2>2 DEF CallFits, Here
  <2> QED BY <2>1, <2>2
<1>4. ASSUME NEW i \in inside
      PROVE  i \in 1 .. Len(slots) /\ Fits(c.ty, slots[i]) /\ ~PastTheEnd(c.ty, slots[i])
  BY <1>2 DEF SlotsFit, Fits
<1>5. ps \in SUBSET Paths
  BY <1>4, PathOf DEF Fits
<1>6. \A p, q \in ps : Len(p) = Len(q)
  <2> SUFFICES ASSUME NEW i \in inside, NEW j \in inside PROVE Len(Path(slots[i])) = Len(Path(slots[j]))
    OBVIOUS
  <2>1. Len(slots[i]) = Len(slots[j])
    BY <1>2, <1>4 DEF SlotsFit
  <2> QED BY <1>4, <2>1, PathOf DEF Fits
<1>7. \A p \in ps : StandsAt(c.ty, p, Here)
  <2> SUFFICES ASSUME NEW i \in inside PROVE StandsAt(c.ty, Path(slots[i]), Here)
    OBVIOUS
  <2> QED BY <1>1, <1>3, <1>4, CursorStands
<1>8. TreeFits(c.ty, Graft(c.tree, ps, node))
  BY <1>1, <1>5, <1>6, <1>7, GraftFits DEF CallFits
<1>9. d.ty = c.ty /\ d.tree = Graft(c.tree, ps, node) /\ d.stage = "item"
  BY <1>1 DEF CallOK, IsCall
<1>10. CallFits(d)
  BY <1>8, <1>9 DEF CallFits
<1>11. Fail("panic") \/ Continue(d)
  BY DEF Insert
<1> QED BY <1>9, <1>10, <1>11, ContinueFits, FailFits

LEMMA PlaceFits == ASSUME Inv, TreesFit, Place PROVE TreesFit'
<1>1. calls # <<>> /\ Top.stage = "place" /\ Insert(Leaf(Coerced(Append(Top.at, Top.done + 1), Here)))
  BY DEF Place, Placing
<1>2. Here \in Types
  BY <1>1, TopPlacing
<1> QED BY <1>1, <1>2, LeafFits, InsertFits

LEMMA ResumeFits == ASSUME Inv, TreesFit, Resume PROVE TreesFit'
<1>1. calls # <<>> /\ Top.stage = "wait" /\ Insert(result) /\ TreeFits(Here, result)
  BY DEF Resume, TreesFit
<1> QED BY <1>1, InsertFits

LEMMA EndListFits == ASSUME Inv, TreesFit, EndList PROVE TreesFit'
<1>1. calls # <<>> /\ Return(Top.tree)
  BY DEF EndList
<1>2. TreeFits(Top.ty, Top.tree)
  BY <1>1, TopFits DEF TreesFit, CallFits
<1> QED BY <1>1, <1>2, ReturnFits

(* A nested call is for the part its caller is at.                         *)
LEMMA RecurseFits == ASSUME Inv, TreesFit, Recurse PROVE TreesFit'
<1> PICK f, c, d, new : /\ f = Front(calls) /\ c = Top /\ d = [Top EXCEPT !.stage = "wait"]
                        /\ new = Call(Here, Item.init, Append(Top.at, Top.done + 1))
  OBVIOUS
<1>1. /\ calls # <<>> /\ c.stage = "place" /\ UNCHANGED <<input, result, status>>
      /\ calls' = Append(f, d) \o <<new>>
  BY DEF Recurse, Placing
<1>2. CallOK(c) /\ CallFits(c)
  BY <1>1, TopPlacing, TopFits DEF TreesFit
<1>3. d.ty = c.ty /\ d.tree = c.tree /\ d.slots = c.slots /\ d.cursor = c.cursor
  BY <1>2 DEF CallOK, IsCall
<1>4. CallFits(d)
  BY <1>1, <1>2, <1>3 DEF CallFits
<1>5. IsSeq(f) /\ AllFit(input.ty, f) /\ d.ty = Target(input.ty, f, Len(f) + 1)
  BY <1>1, <1>3, OuterCalls, TopFits DEF TreesFit, Inv, AllOK
<1> PICK s : s = Append(f, d)
  OBVIOUS
<1>6. IsSeq(s) /\ AllFit(input.ty, s) /\ Len(s) = Len(f) + 1 /\ Len(f) \in Nat /\ s[Len(f) + 1] = d
  <2>1. IsSeq(s) /\ Len(s) = Len(f) + 1 /\ Len(f) \in Nat /\ s[Len(f) + 1] = d
    BY <1>5, MoreCalls
  <2>2. AllFit(input.ty, s)
    BY <1>4, <1>5, PushedFits
  <2> QED BY <2>1, <2>2
<1>7. new.ty = Here /\ new.tree = <<>> /\ new.stage = "enter"
  BY DEF Call
<1>8. CallFits(new)
  BY <1>7, EmptyFitsAll DEF CallFits
<1>9. new.ty = Target(input.ty, s, Len(s) + 1)
  <2>1. Len(s) + 1 # 1 /\ (Len(s) + 1) - 1 = Len(f) + 1
    BY <1>6
  <2> QED BY <1>3, <1>6, <1>7, <2>1 DEF Target, Here
<1>10. AllFit(input.ty, Append(s, new)) /\ Last(Append(s, new)) = new
  BY <1>6, <1>8, <1>9, PushedFits, LastOfPushed
<1>11. calls' = Append(s, new)
  BY <1>1, <1>6, AppendIsConcat DEF IsSeq
<1>12. Top' = new
  BY <1>10, <1>11 DEF Top
<1> QED BY <1>1, <1>7, <1>10, <1>11, <1>12 DEF TreesFit, AllFit, Recurse, Placing

LEMMA WriteFits == ASSUME Inv, TreesFit, Write PROVE TreesFit'
<1>1. input'.ty = input.ty /\ UNCHANGED <<calls, result, status>>
  <2>1. input \in [ty : DOMAIN Items, init : [k : {"list"}, items : Seq(ListItem)]]
    BY DEF Inv
  <2> QED BY <2>1 DEF Write
<1> QED BY <1>1 DEF TreesFit, AllFit, Top, Here

LEMMA BeginFits == ASSUME Inv, TreesFit, Begin PROVE TreesFit'
<1> PICK c : c = Call(input.ty, input.init, <<>>)
  OBVIOUS
<1>1. calls' = <<c>> /\ input' = input /\ status' = "run"
  BY DEF Begin
<1>2. c.ty = input.ty /\ c.tree = <<>> /\ c.stage = "enter"
  BY DEF Call
<1>3. CallFits(c)
  BY <1>2, EmptyFitsAll DEF CallFits
<1>4. AllFit(input.ty, <<c>>)
  BY <1>2, <1>3 DEF AllFit, Target
<1>5. Last(<<c>>) = c
  BY DEF Last
<1> QED BY <1>1, <1>2, <1>4, <1>5 DEF TreesFit, AllFit, Top

LEMMA NextFits == ASSUME Inv, TreesFit, [Next]_vars, ~astray' PROVE TreesFit'
<1>1. CASE UNCHANGED vars
  BY <1>1 DEF TreesFit, AllFit, Top, Here, vars
<1>2. CASE Unwrap \/ UnwrapString \/ Spell
  BY <1>2, RewriteFits DEF Unwrap, UnwrapString, Spell
<1>3. CASE Next /\ ~(Unwrap \/ UnwrapString \/ Spell) /\ ~Ended
  BY <1>3, WriteFits, BeginFits, LeafCallFits, BracedScalarFits, StartListFits, SeekFits, SeekRangeFits,
     DescendFits, PlaceFits, RecurseFits, ResumeFits, EndListFits DEF Next
<1> QED BY <1>1, <1>2, <1>3 DEF Ended

LEMMA Strays == ASSUME [Next]_vars, ~astray' PROVE ~astray
BY DEF Next, vars, Ended, Finished, Write, Begin, Unwrap, UnwrapString, Spell, LeafCall, BracedScalar,
       StartList, Seek, SeekRange, Skip, Descend, Place, Recurse, Resume, EndList, Insert, Rewrite, Continue,
       Return, Fail

LEMMA InitFits == ASSUME Init PROVE TreesFit
BY DEF Init, TreesFit, AllFit

(* The types a cursor carries are those of the parts it stands at, through *)
(* designators, brace elision and going on to the next part: what          *)
(* try_lower_to_initializer_tree coerces a value to is the type of the     *)
(* place insert_to_tree puts it in, for all types and initialisers.        *)
THEOREM CursorsAlwaysTyped == Spec => []CursorsTyped
<1>1. Init => Inv
  BY InitOK
<1>2. Inv /\ [Next]_vars => Inv'
  BY NextOK
<1>3. Inv => CursorsTyped
  BY InvImplies
<1> QED BY <1>1, <1>2, <1>3, PTL DEF Spec

(* Every tree has values for parts of its type only, none past the end of  *)
(* an array, and each was converted to the type of the part it is at,      *)
(* whichever nested calls made it and whatever elements it was copied to:  *)
(* what insert_to_tree is to see to, for all types and initialisers, but   *)
(* for the values of ranges that went astray.                              *)
THEOREM ValuesAlwaysFit == Spec => []ValuesFit
<1> DEFINE Strong == Inv /\ (~astray => TreesFit)
<1>1. Init => Strong
  BY InitOK, InitFits
<1>2. Strong /\ [Next]_vars => Strong'
  BY NextOK, NextFits, Strays
<1>3. Strong => ValuesFit
  <2> SUFFICES ASSUME Inv, TreesFit
               PROVE  /\ \A j \in DOMAIN calls : ValuesOfParts(calls[j].ty, calls[j].tree)
                      /\ status = "done" => ValuesOfParts(input.ty, result)
    BY DEF ValuesFit
  <2>1. \A j \in DOMAIN calls : TreeFits(calls[j].ty, calls[j].tree)
    BY EachCall DEF TreesFit, AllFit, CallFits
  <2> QED BY <2>1, FitsIsOfParts DEF TreesFit
<1> QED BY <1>1, <1>2, <1>3, PTL DEF Spec

=============================================================================
