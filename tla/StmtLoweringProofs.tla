------------------------- MODULE StmtLoweringProofs -------------------------
(***************************************************************************)
(* Proofs about the lowering of statements, for programs of any size and   *)
(* nesting: the three stacks of HirCtx are, from bottom to top, the labels *)
(* of the enclosing loops, of the enclosing loops and switches, and the    *)
(* enclosing switches.                                                     *)
(***************************************************************************)
EXTENDS StmtLowering, SequenceTheorems, TLAPS

-----------------------------------------------------------------------------
(* Lemmas about sequences                                                  *)

LEMMA AppendFacts ==
  ASSUME NEW S, NEW s \in Seq(S), NEW e \in S
  PROVE  /\ Append(s, e) \in Seq(S) /\ Len(Append(s, e)) = Len(s) + 1
         /\ Append(s, e)[Len(s) + 1] = e
         /\ \A i \in 1 .. Len(s) : Append(s, e)[i] = s[i]
OBVIOUS

LEMMA FrontFacts ==
  ASSUME NEW S, NEW s \in Seq(S), Len(s) > 0
  PROVE  LET f == SubSeq(s, 1, Len(s) - 1)
         IN  f \in Seq(S) /\ Len(f) = Len(s) - 1 /\ \A i \in 1 .. Len(s) - 1 : f[i] = s[i]
<1> DEFINE f == SubSeq(s, 1, Len(s) - 1)
<1>1. Len(s) \in Nat /\ \A i \in 1 .. Len(s) - 1 : s[i] \in S OBVIOUS
<1>2. 1 \in Int /\ Len(s) - 1 \in Int BY <1>1
<1>3. /\ f \in Seq(S)
      /\ Len(f) = IF 1 <= Len(s) - 1 THEN (Len(s) - 1) - 1 + 1 ELSE 0
      /\ \A i \in 1 .. (Len(s) - 1) - 1 + 1 : f[i] = s[1 + i - 1]
  BY <1>1, <1>2, SubSeqProperties
<1> HIDE DEF f
<1>4. Len(s) - 1 \in Nat /\ (Len(s) - 1) - 1 + 1 = Len(s) - 1 BY <1>1
<1>5. Len(f) = Len(s) - 1
  <2> DEFINE m == Len(s) - 1
  <2>1. m \in Nat /\ Len(f) = IF 1 <= m THEN m - 1 + 1 ELSE 0 BY <1>3, <1>4
  <2> HIDE DEF m
  <2>2. Len(f) = m BY <2>1
  <2> QED BY <2>2 DEF m
<1>6. \A i \in 1 .. Len(s) - 1 : f[i] = s[i]
  <2>1. \A i \in 1 .. Len(s) - 1 : 1 + i - 1 = i BY <1>4
  <2> QED BY <1>3, <1>4, <2>1
<1> QED BY <1>3, <1>5, <1>6 DEF f

LEMMA FrontIsSeq ==
  ASSUME NEW S, NEW s \in Seq(S) PROVE SubSeq(s, 1, Len(s) - 1) \in Seq(S)
<1>1. Len(s) \in Nat /\ \A i \in 1 .. Len(s) - 1 : s[i] \in S OBVIOUS
<1>2. 1 \in Int /\ Len(s) - 1 \in Int BY <1>1
<1> QED BY <1>1, <1>2, SubSeqProperties

LEMMA NonEmpty == ASSUME NEW S, NEW s \in Seq(S) PROVE Len(s) > 0 <=> s # << >>
OBVIOUS

-----------------------------------------------------------------------------
(* A stack mirrors the frames of some kinds: pos says which frame each of  *)
(* its entries came from, val what that frame pushed.                      *)

Mirror(fs, kinds, val, st, pos) ==
    /\ Len(pos) = Len(st)
    /\ \A k \in 1 .. Len(st) :
            /\ pos[k] \in 1 .. Len(fs)
            /\ fs[pos[k]].kind \in kinds
            /\ st[k] = val[pos[k]]
    /\ \A k, l \in 1 .. Len(st) : k < l => pos[k] < pos[l]
    /\ \A i \in 1 .. Len(fs) : fs[i].kind \in kinds => \E k \in 1 .. Len(st) : pos[k] = i

Mirrors(fs, kinds, val, st) == \E pos \in Seq(Nat) : Mirror(fs, kinds, val, st, pos)

Ends(fs) == [i \in 1 .. Len(fs) |-> fs[i].end]
Conts(fs) == [i \in 1 .. Len(fs) |-> fs[i].cont]
Ats(fs) == [i \in 1 .. Len(fs) |-> fs[i].at]
Discrs(scopes) == [i \in 1 .. Len(scopes) |-> scopes[i].discr]

(* How the frames change, seen by a stack: fs2 is fs with a frame more.    *)
Extends(fs2, fs) ==
    /\ Len(fs2) = Len(fs) + 1
    /\ \A i \in 1 .. Len(fs) : fs2[i] = fs[i]

SameBelow(val2, val, n) == \A i \in 1 .. n : val2[i] = val[i]

(* A frame of another kind leaves the stack alone.                         *)
LEMMA PushOther ==
  ASSUME NEW F, NEW fs \in Seq(F), NEW fs2 \in Seq(F), Extends(fs2, fs), NEW kinds,
         NEW X, NEW st \in Seq(X), NEW val, NEW val2, SameBelow(val2, val, Len(fs)),
         fs2[Len(fs) + 1].kind \notin kinds, Mirrors(fs, kinds, val, st)
  PROVE  Mirrors(fs2, kinds, val2, st)
<1>1. PICK pos \in Seq(Nat) : Mirror(fs, kinds, val, st, pos) BY DEF Mirrors
<1>2. Mirror(fs2, kinds, val2, st, pos)
  <2>0. Len(fs) \in Nat /\ Len(fs2) = Len(fs) + 1 BY DEF Extends
  <2>1. /\ 1 .. Len(fs) \subseteq 1 .. Len(fs2)
        /\ \A i \in 1 .. Len(fs2) : i \in 1 .. Len(fs) \/ i = Len(fs) + 1
    BY <2>0
  <2>2. \A k \in 1 .. Len(st) :
            pos[k] \in 1 .. Len(fs2) /\ fs2[pos[k]].kind \in kinds /\ st[k] = val2[pos[k]]
    BY <1>1, <2>1 DEF Mirror, Extends, SameBelow
  <2>3. \A i \in 1 .. Len(fs2) : fs2[i].kind \in kinds => \E k \in 1 .. Len(st) : pos[k] = i
    BY <1>1, <2>1 DEF Mirror, Extends
  <2> QED BY <1>1, <2>2, <2>3 DEF Mirror
<1> QED BY <1>2 DEF Mirrors

(* A frame of one of the kinds pushes its entry.                           *)
LEMMA PushOwn ==
  ASSUME NEW F, NEW fs \in Seq(F), NEW fs2 \in Seq(F), Extends(fs2, fs), NEW kinds,
         NEW X, NEW st \in Seq(X), NEW e \in X, NEW val, NEW val2,
         SameBelow(val2, val, Len(fs)), val2[Len(fs) + 1] = e,
         fs2[Len(fs) + 1].kind \in kinds, Mirrors(fs, kinds, val, st)
  PROVE  Mirrors(fs2, kinds, val2, Append(st, e))
<1>1. PICK pos \in Seq(Nat) : Mirror(fs, kinds, val, st, pos) BY DEF Mirrors
<1> DEFINE n == Len(fs) + 1
           st2 == Append(st, e)
           pos2 == Append(pos, n)
<1>2. n \in Nat /\ Len(fs) \in Nat /\ Len(st) \in Nat /\ n = Len(fs) + 1 /\ Len(fs2) = n
  BY DEF Extends
<1>3. /\ Len(st2) = Len(st) + 1 /\ st2[Len(st) + 1] = e
      /\ \A i \in 1 .. Len(st) : st2[i] = st[i]
  BY AppendFacts
<1>4. /\ pos2 \in Seq(Nat) /\ Len(pos2) = Len(pos) + 1 /\ pos2[Len(pos) + 1] = n
      /\ \A i \in 1 .. Len(pos) : pos2[i] = pos[i]
  BY <1>2, AppendFacts
<1>5. Len(pos) = Len(st) BY <1>1 DEF Mirror
<1>6. fs2[n].kind \in kinds /\ val2[n] = e OBVIOUS
<1> HIDE DEF n, st2, pos2
<1>7. ASSUME NEW k \in 1 .. Len(st2)
      PROVE  pos2[k] \in 1 .. Len(fs2) /\ fs2[pos2[k]].kind \in kinds /\ st2[k] = val2[pos2[k]]
  <2>1. CASE k = Len(st) + 1 BY <2>1, <1>2, <1>3, <1>4, <1>5, <1>6
  <2>2. CASE k # Len(st) + 1
    <3>1. k \in 1 .. Len(st) BY <2>2, <1>2, <1>3
    <3>2. pos2[k] = pos[k] /\ st2[k] = st[k] /\ pos[k] \in 1 .. Len(fs)
          /\ fs[pos[k]].kind \in kinds /\ st[k] = val[pos[k]]
      BY <3>1, <1>1, <1>3, <1>4, <1>5 DEF Mirror
    <3> QED BY <3>2, <1>2 DEF Extends, SameBelow
  <2> QED BY <2>1, <2>2
<1>8. ASSUME NEW k \in 1 .. Len(st2), NEW l \in 1 .. Len(st2), k < l
      PROVE  pos2[k] < pos2[l]
  <2>1. k \in 1 .. Len(st) BY <1>2, <1>3, <1>8
  <2>2. pos2[k] = pos[k] /\ pos[k] \in 1 .. Len(fs) BY <2>1, <1>1, <1>4, <1>5 DEF Mirror
  <2>3. CASE l = Len(st) + 1 BY <2>2, <2>3, <1>2, <1>4, <1>5
  <2>4. CASE l # Len(st) + 1
    <3>1. l \in 1 .. Len(st) BY <2>4, <1>2, <1>3
    <3> QED BY <3>1, <2>1, <1>8, <1>1, <1>4, <1>5 DEF Mirror
  <2> QED BY <2>3, <2>4
<1>9. ASSUME NEW i \in 1 .. Len(fs2), fs2[i].kind \in kinds
      PROVE  \E k \in 1 .. Len(st2) : pos2[k] = i
  <2>1. CASE i = n
    <3>1. Len(st) + 1 \in 1 .. Len(st2) /\ pos2[Len(st) + 1] = i BY <2>1, <1>2, <1>3, <1>4, <1>5
    <3> QED BY <3>1
  <2>2. CASE i # n
    <3>1. i \in 1 .. Len(fs) /\ fs[i].kind \in kinds BY <2>2, <1>2, <1>9 DEF Extends
    <3>2. PICK k \in 1 .. Len(st) : pos[k] = i BY <3>1, <1>1 DEF Mirror
    <3>3. k \in 1 .. Len(st2) /\ pos2[k] = i BY <3>2, <1>2, <1>3, <1>4, <1>5
    <3> QED BY <3>3
  <2> QED BY <2>1, <2>2
<1>10. Len(pos2) = Len(st2) BY <1>3, <1>4, <1>5
<1>11. Mirror(fs2, kinds, val2, st2, pos2) BY <1>7, <1>8, <1>9, <1>10 DEF Mirror
<1> QED BY <1>4, <1>11 DEF Mirrors, st2

(* A frame of another kind ends.                                           *)
LEMMA PopOther ==
  ASSUME NEW F, NEW fs \in Seq(F), NEW fs2 \in Seq(F), Extends(fs, fs2), NEW kinds,
         NEW X, NEW st \in Seq(X), NEW val, NEW val2, SameBelow(val2, val, Len(fs2)),
         fs[Len(fs)].kind \notin kinds, Mirrors(fs, kinds, val, st)
  PROVE  Mirrors(fs2, kinds, val2, st)
<1>1. PICK pos \in Seq(Nat) : Mirror(fs, kinds, val, st, pos) BY DEF Mirrors
<1>2. Len(fs2) \in Nat /\ Len(fs) = Len(fs2) + 1 BY DEF Extends
<1>3. ASSUME NEW k \in 1 .. Len(st)
      PROVE  pos[k] \in 1 .. Len(fs2) /\ fs2[pos[k]].kind \in kinds /\ st[k] = val2[pos[k]]
  <2>1. pos[k] \in 1 .. Len(fs) /\ fs[pos[k]].kind \in kinds /\ st[k] = val[pos[k]]
    BY <1>1 DEF Mirror
  <2>2. pos[k] # Len(fs) BY <2>1
  <2>3. pos[k] \in 1 .. Len(fs2) BY <1>2, <2>1, <2>2
  <2> QED BY <2>1, <2>3 DEF Extends, SameBelow
<1>4. ASSUME NEW i \in 1 .. Len(fs2), fs2[i].kind \in kinds
      PROVE  \E k \in 1 .. Len(st) : pos[k] = i
  <2>1. i \in 1 .. Len(fs) /\ fs[i].kind \in kinds BY <1>2, <1>4 DEF Extends
  <2> QED BY <2>1, <1>1 DEF Mirror
<1>5. Mirror(fs2, kinds, val2, st, pos) BY <1>1, <1>3, <1>4 DEF Mirror
<1> QED BY <1>5 DEF Mirrors

(* A frame of one of the kinds ends and takes its entry with it.           *)
LEMMA PopOwn ==
  ASSUME NEW F, NEW fs \in Seq(F), NEW fs2 \in Seq(F), Extends(fs, fs2), NEW kinds,
         NEW X, NEW st \in Seq(X), NEW val, NEW val2, SameBelow(val2, val, Len(fs2)),
         fs[Len(fs)].kind \in kinds, Mirrors(fs, kinds, val, st)
  PROVE  Mirrors(fs2, kinds, val2, SubSeq(st, 1, Len(st) - 1))
<1>1. PICK pos \in Seq(Nat) : Mirror(fs, kinds, val, st, pos) BY DEF Mirrors
<1>2. Len(fs2) \in Nat /\ Len(fs) = Len(fs2) + 1 /\ Len(fs) \in 1 .. Len(fs) BY DEF Extends
<1>3. PICK top \in 1 .. Len(st) : pos[top] = Len(fs) BY <1>1, <1>2 DEF Mirror
<1>4. Len(st) \in Nat /\ Len(st) > 0 /\ Len(pos) = Len(st) BY <1>1, <1>3 DEF Mirror
<1>5. top = Len(st)
  <2>1. SUFFICES ASSUME top < Len(st) PROVE FALSE BY <1>3, <1>4
  <2>2. Len(st) \in 1 .. Len(st) BY <1>4
  <2>3. pos[top] < pos[Len(st)] /\ pos[Len(st)] \in 1 .. Len(fs) BY <2>1, <2>2, <1>1 DEF Mirror
  <2> QED BY <2>3, <1>2, <1>3
<1> DEFINE st2 == SubSeq(st, 1, Len(st) - 1)
           pos2 == SubSeq(pos, 1, Len(pos) - 1)
<1>6. Len(st2) = Len(st) - 1 /\ \A i \in 1 .. Len(st) - 1 : st2[i] = st[i]
  BY <1>4, FrontFacts
<1>7. pos2 \in Seq(Nat) /\ Len(pos2) = Len(pos) - 1 /\ \A i \in 1 .. Len(pos) - 1 : pos2[i] = pos[i]
  BY <1>4, FrontFacts
<1> HIDE DEF st2, pos2
<1>8. ASSUME NEW k \in 1 .. Len(st2)
      PROVE  /\ k \in 1 .. Len(st) /\ k < Len(st) /\ st2[k] = st[k] /\ pos2[k] = pos[k]
             /\ pos[k] \in 1 .. Len(fs2)
  <2>a. k \in 1 .. Len(st) - 1 /\ k \in 1 .. Len(pos) - 1 BY <1>4, <1>6
  <2>b. k \in 1 .. Len(st) /\ k < Len(st) BY <2>a, <1>4
  <2>c. st2[k] = st[k] BY <2>a, <1>6
  <2>d. pos2[k] = pos[k] BY <2>a, <1>7
  <2>1. k \in 1 .. Len(st) /\ k < Len(st) /\ st2[k] = st[k] /\ pos2[k] = pos[k]
    BY <2>b, <2>c, <2>d
  <2>2. pos[k] \in 1 .. Len(fs) /\ pos[k] < Len(fs)
    BY <2>1, <1>1, <1>3, <1>4, <1>5 DEF Mirror
  <2> QED BY <2>1, <2>2, <1>2
<1>9. ASSUME NEW k \in 1 .. Len(st2)
      PROVE  pos2[k] \in 1 .. Len(fs2) /\ fs2[pos2[k]].kind \in kinds /\ st2[k] = val2[pos2[k]]
  <2>1. fs[pos[k]].kind \in kinds /\ st[k] = val[pos[k]] BY <1>1, <1>8 DEF Mirror
  <2>2. fs[pos[k]] = fs2[pos[k]] /\ val2[pos[k]] = val[pos[k]] BY <1>8 DEF Extends, SameBelow
  <2> QED BY <2>1, <2>2, <1>8
<1>10. \A k, l \in 1 .. Len(st2) : k < l => pos2[k] < pos2[l] BY <1>1, <1>8 DEF Mirror
<1>11. ASSUME NEW i \in 1 .. Len(fs2), fs2[i].kind \in kinds
       PROVE  \E k \in 1 .. Len(st2) : pos2[k] = i
  <2>1. i \in 1 .. Len(fs) /\ i # Len(fs) /\ fs[i].kind \in kinds BY <1>2, <1>11 DEF Extends
  <2>2. PICK k \in 1 .. Len(st) : pos[k] = i BY <2>1, <1>1 DEF Mirror
  <2>3. k # Len(st) BY <2>1, <2>2, <1>3, <1>5
  <2>4. k \in 1 .. Len(st2) BY <2>3, <1>4, <1>6
  <2> QED BY <2>2, <2>4, <1>8
<1>12. Mirror(fs2, kinds, val2, st2, pos2) BY <1>4, <1>6, <1>7, <1>9, <1>10, <1>11 DEF Mirror
<1> QED BY <1>7, <1>12 DEF Mirrors, st2

(* What a mirror says of the top of the stack, and of an empty one.        *)
LEMMA TopIs ==
  ASSUME NEW F, NEW fs \in Seq(F), NEW kinds, NEW X, NEW st \in Seq(X), NEW val,
         Mirrors(fs, kinds, val, st), NEW i \in 1 .. Len(fs), fs[i].kind \in kinds,
         \A j \in (i + 1) .. Len(fs) : fs[j].kind \notin kinds
  PROVE  st # << >> /\ Len(st) \in 1 .. Len(st) /\ st[Len(st)] = val[i]
<1>1. PICK pos \in Seq(Nat) : Mirror(fs, kinds, val, st, pos) BY DEF Mirrors
<1>2. PICK k \in 1 .. Len(st) : pos[k] = i BY <1>1 DEF Mirror
<1>3. Len(st) \in Nat /\ Len(st) > 0 /\ Len(st) \in 1 .. Len(st) BY <1>2
<1>4. pos[Len(st)] \in 1 .. Len(fs) /\ fs[pos[Len(st)]].kind \in kinds
      /\ st[Len(st)] = val[pos[Len(st)]]
  BY <1>1, <1>3 DEF Mirror
<1>5. pos[Len(st)] = i
  <2>1. SUFFICES ASSUME k < Len(st) PROVE FALSE BY <1>2, <1>3
  <2>2. i < pos[Len(st)] BY <2>1, <1>1, <1>2, <1>3 DEF Mirror
  <2>3. pos[Len(st)] \in (i + 1) .. Len(fs) BY <2>2, <1>4
  <2> QED BY <2>3, <1>4
<1> QED BY <1>3, <1>4, <1>5, NonEmpty

LEMMA EmptyIs ==
  ASSUME NEW F, NEW fs \in Seq(F), NEW kinds, NEW X, NEW st \in Seq(X), NEW val,
         Mirrors(fs, kinds, val, st), \A i \in 1 .. Len(fs) : fs[i].kind \notin kinds
  PROVE  st = << >>
<1>1. PICK pos \in Seq(Nat) : Mirror(fs, kinds, val, st, pos) BY DEF Mirrors
<1>2. \A k \in 1 .. Len(st) : FALSE BY <1>1 DEF Mirror
<1>3. Len(st) \in Nat BY SMT
<1>4. ~(Len(st) > 0)
  <2>1. Len(st) > 0 => 1 \in 1 .. Len(st) BY <1>3
  <2> QED BY <2>1, <1>2
<1> QED BY <1>4, NonEmpty

-----------------------------------------------------------------------------
(* Types *)

LEMMA TokenTyped ==
  ASSUME NEW k \in Kinds \union {"else", "end"}, NEW of \in Nat \union Names,
         NEW vals \in CaseSets \union {{}}
  PROVE  Token(k, of, vals) \in Tokens
BY DEF Token, Tokens

LEMMA RecordTyped ==
  ASSUME TypeOK, NEW k \in Kinds \union {"else", "end"}, NEW of \in Nat \union Names, Record(k, of)
  PROVE  prog' \in Seq(Tokens)
BY TokenTyped DEF TypeOK, Record

LEMMA HereTyped == ASSUME TypeOK PROVE Here \in Nat
BY DEF TypeOK, Here

LEMMA FrameTyped ==
  ASSUME NEW k \in FrameKinds, NEW at \in Nat
  PROVE  Frame(k, at) \in Frames /\ Frame(k, at).kind = k
BY DEF Frame, Frames

LEMMA PushTyped ==
  ASSUME TypeOK, NEW f \in Frames, frames' = Append(frames, f)
  PROVE  frames' \in Seq(Frames)
BY DEF TypeOK

LEMMA TopTyped ==
  ASSUME TypeOK, frames # << >>
  PROVE  /\ Len(frames) \in 1 .. Len(frames) /\ Top \in Frames /\ Top.at \in Nat
         /\ Popped \in Seq(Frames)
<1>1. frames \in Seq(Frames) /\ Len(frames) \in Nat BY DEF TypeOK
<1>2. Len(frames) > 0 BY <1>1, NonEmpty
<1>3. Len(frames) \in 1 .. Len(frames) BY <1>1, <1>2
<1>4. Top \in Frames BY <1>1, <1>3 DEF Top
<1>5. Top.at \in Nat BY <1>4 DEF Frames
<1> QED BY <1>1, <1>3, <1>4, <1>5, FrontIsSeq DEF Popped

LEMMA ScopeTyped ==
  ASSUME TypeOK, InSwitch
  PROVE  Len(switch_scopes) \in 1 .. Len(switch_scopes) /\ Scope \in Scopes
<1>1. switch_scopes \in Seq(Scopes) /\ Len(switch_scopes) \in Nat BY DEF TypeOK
<1>2. Len(switch_scopes) > 0 BY <1>1, NonEmpty DEF InSwitch
<1>3. Len(switch_scopes) \in 1 .. Len(switch_scopes) BY <1>1, <1>2
<1> QED BY <1>1, <1>3 DEF Scope

LEMMA SetScopeTyped ==
  ASSUME TypeOK, InSwitch, NEW s \in Scopes, SetScope(s)
  PROVE  switch_scopes' \in Seq(Scopes)
BY ScopeTyped DEF TypeOK, SetScope

Modes == {"stmt", "done", "noelse", "end", "error"}

LEMMA CompletedTyped == ASSUME NEW fs, NEW m \in Modes PROVE Completed(fs, m) \in Modes
BY DEF Completed, Modes

LEMMA InsertTyped ==
  ASSUME TypeOK, NEW n \in Names, ResolveOrInsertLabel(n)
  PROVE  /\ labels' \in Nat /\ DOMAIN named_labels' \subseteq Names
         /\ \A m \in DOMAIN named_labels' : named_labels'[m] \in 1 .. labels'
<1>1. CASE n \in DOMAIN named_labels
  BY <1>1 DEF TypeOK, ResolveOrInsertLabel, labelVars
<1>2. CASE n \notin DOMAIN named_labels
  BY <1>2 DEF TypeOK, ResolveOrInsertLabel
<1> QED BY <1>1, <1>2

LEMMA SimpleTyped ==
  ASSUME TypeOK, NEW kind, NEW hir, Simple(kind, hir), UNCHANGED <<ctxVars, labelVars>>
  PROVE  TypeOK'
<1>1. kind \in Kinds BY DEF Simple, Expecting
<1>2. prog' \in Seq(Tokens) BY <1>1, RecordTyped DEF Simple
<1>3. mode' \in Modes BY CompletedTyped DEF Simple, Modes
<1> QED BY <1>2, <1>3 DEF TypeOK, Simple, ctxVars, labelVars, Modes

LEMMA LabelItemTyped ==
  ASSUME TypeOK, NEW l, LabelItem(l)
  PROVE  frames' \in Seq(Frames) /\ mode' \in Modes
<1>1. Frame("labels", 0) \in Frames BY FrameTyped DEF FrameKinds
<1>2. CASE InBody BY <1>1, <1>2 DEF TypeOK, LabelItem, Modes
<1>3. CASE ~InBody BY <1>3 DEF TypeOK, LabelItem, Modes
<1> QED BY <1>2, <1>3

LEMMA CloseTyped ==
  ASSUME TypeOK, frames # << >>, NEW m \in Modes, Close(m)
  PROVE  frames' \in Seq(Frames) /\ mode' \in Modes
BY TopTyped, CompletedTyped DEF Close

LEMMA EndTyped ==
  ASSUME TypeOK, frames # << >>, Record("end", Top.at)
  PROVE  prog' \in Seq(Tokens)
BY TopTyped, RecordTyped

LEMMA TypeStep == TypeOK /\ [LowerNext]_lowerVars => TypeOK'
<1> SUFFICES ASSUME TypeOK, [LowerNext]_lowerVars PROVE TypeOK' OBVIOUS
<1> USE DEF Modes
<1>h. Here \in Nat /\ labels \in Nat /\ labels + 1 \in Nat /\ labels + 2 \in Nat
      /\ labels + 3 \in Nat /\ labels + 4 \in Nat
  BY HereTyped DEF TypeOK
<1>n. \A n \in DOMAIN named_labels :
        /\ named_labels[n] \in 1 .. labels + 1 /\ named_labels[n] \in 1 .. labels + 3
        /\ named_labels[n] \in 1 .. labels + 4
  BY DEF TypeOK
<1>l. continue_labels \in Seq(Nat) /\ break_labels \in Seq(Nat) /\ switch_scopes \in Seq(Scopes)
  BY DEF TypeOK
<1>p. /\ SubSeq(continue_labels, 1, Len(continue_labels) - 1) \in Seq(Nat)
      /\ SubSeq(break_labels, 1, Len(break_labels) - 1) \in Seq(Nat)
      /\ SubSeq(switch_scopes, 1, Len(switch_scopes) - 1) \in Seq(Scopes)
  BY <1>l, FrontIsSeq
<1>k. LoopKinds \subseteq FrameKinds /\ BreakKinds \subseteq FrameKinds
      /\ {"block", "labels", "then", "else", "switch", "while", "do", "for"} \subseteq FrameKinds
  BY DEF FrameKinds, LoopKinds, BreakKinds
<1>1. CASE ExpressionStmt BY <1>1, SimpleTyped DEF ExpressionStmt
<1>2. CASE ReturnStmt BY <1>2, SimpleTyped DEF ReturnStmt
<1>3. CASE Break BY <1>3, SimpleTyped DEF Break
<1>4. CASE Continue BY <1>4, SimpleTyped DEF Continue
<1>5. CASE Misplaced BY <1>5 DEF Misplaced, TypeOK, ctxVars, labelVars
<1>6. ASSUME NEW n \in Names, Goto(n) PROVE TypeOK'
  <2>1. prog' \in Seq(Tokens)
    <3>1. Token("goto", n, {}) \in Tokens BY <1>6, TokenTyped DEF Goto, Expecting
    <3> QED BY <3>1, <1>6 DEF Goto, TypeOK
  <2>2. mode' \in Modes BY <1>6, CompletedTyped DEF Goto
  <2> QED BY <1>6, <2>1, <2>2, InsertTyped DEF Goto, TypeOK, ctxVars
<1>7. ASSUME NEW n \in Names, NamedLabel(n) PROVE TypeOK'
  <2>1. prog' \in Seq(Tokens) BY <1>7, RecordTyped DEF NamedLabel, Expecting
  <2>2. frames' \in Seq(Frames) /\ mode' \in Modes BY <1>7, LabelItemTyped DEF NamedLabel
  <2> QED BY <1>7, <2>1, <2>2, InsertTyped DEF NamedLabel, TypeOK, ctxVars
<1>8. ASSUME NEW vals \in CaseSets, Case(vals) PROVE TypeOK'
  <2>1. prog' \in Seq(Tokens)
    <3>1. Token("case", 0, vals) \in Tokens BY <1>8, TokenTyped DEF Case, Expecting
    <3> QED BY <3>1, <1>8 DEF Case, TypeOK
  <2>2. frames' \in Seq(Frames) /\ mode' \in Modes BY <1>8, LabelItemTyped DEF Case
  <2>3. switch_scopes' \in Seq(Scopes)
    <3>1. InSwitch /\ Scope \in Scopes BY <1>8, ScopeTyped DEF Case
    <3>2. [cond |-> IsCase(Scope.discr, vals), l |-> labels + 1] \in [cond : Conds, l : Nat]
      BY <3>1, <1>h DEF Scopes, Conds, IsCase
    <3>3. [Scope EXCEPT !.case_labels =
              Append(@, [cond |-> IsCase(Scope.discr, vals), l |-> labels + 1])] \in Scopes
      <4> DEFINE new == [cond |-> IsCase(Scope.discr, vals), l |-> labels + 1]
      <4> HIDE DEF new
      <4>1. Append(Scope.case_labels, new) \in Seq([cond : Conds, l : Nat])
        BY <3>1, <3>2 DEF Scopes, new
      <4>2. [Scope EXCEPT !.case_labels = Append(@, new)] \in Scopes BY <3>1, <4>1 DEF Scopes
      <4> QED BY <4>2 DEF new
    <3> QED BY <3>1, <3>3, <1>8, SetScopeTyped DEF Case
  <2> QED BY <1>8, <1>h, <1>n, <2>1, <2>2, <2>3 DEF Case, TypeOK
<1>9. CASE Default
  <2>1. prog' \in Seq(Tokens) BY <1>9, RecordTyped DEF Default, Expecting
  <2>2. frames' \in Seq(Frames) /\ mode' \in Modes BY <1>9, LabelItemTyped DEF Default
  <2>3. switch_scopes' \in Seq(Scopes)
    <3>1. InSwitch /\ Scope \in Scopes BY <1>9, ScopeTyped DEF Default
    <3>2. [Scope EXCEPT !.default = labels + 1] \in Scopes BY <3>1, <1>h DEF Scopes
    <3> QED BY <3>1, <3>2, <1>9, SetScopeTyped DEF Default
  <2> QED BY <1>9, <1>h, <1>n, <2>1, <2>2, <2>3 DEF Default, TypeOK
<1>10. CASE OpenBlock
  <2>1. prog' \in Seq(Tokens) BY <1>10, RecordTyped DEF OpenBlock, Expecting
  <2>2. frames' \in Seq(Frames) BY <1>10, <1>h, <1>k, FrameTyped, PushTyped DEF OpenBlock
  <2> QED BY <1>10, <2>1, <2>2 DEF OpenBlock, TypeOK, ctxVars, labelVars
<1>11. CASE OpenIf
  <2>1. prog' \in Seq(Tokens) BY <1>11, RecordTyped DEF OpenIf, Expecting
  <2>2. frames' \in Seq(Frames) BY <1>11, <1>h, <1>k, FrameTyped, PushTyped DEF OpenIf
  <2> QED BY <1>11, <2>1, <2>2 DEF OpenIf, TypeOK, ctxVars, labelVars
<1>12. CASE OpenWhile
  <2>1. prog' \in Seq(Tokens) BY <1>12, RecordTyped DEF OpenWhile, Expecting
  <2>2. frames' \in Seq(Frames)
    <3> DEFINE f == [Frame("while", Here) EXCEPT !.cond = labels + 1, !.body = labels + 2,
                                               !.cont = labels + 1, !.end = labels + 3]
    <3>1. f \in Frames BY <1>h, <1>k DEF Frame, Frames
    <3>2. frames' = Append(frames, f) BY <1>12 DEF OpenWhile
    <3> QED BY <3>1, <3>2, PushTyped
  <2> QED BY <1>12, <1>h, <1>n, <2>1, <2>2 DEF OpenWhile, EnterLoop, TypeOK
<1>13. CASE OpenDo
  <2>1. prog' \in Seq(Tokens) BY <1>13, RecordTyped DEF OpenDo, Expecting
  <2>2. frames' \in Seq(Frames)
    <3> DEFINE f == [Frame("do", Here) EXCEPT !.cond = labels + 2, !.body = labels + 1,
                                               !.cont = labels + 2, !.end = labels + 3]
    <3>1. f \in Frames BY <1>h, <1>k DEF Frame, Frames
    <3>2. frames' = Append(frames, f) BY <1>13 DEF OpenDo
    <3> QED BY <3>1, <3>2, PushTyped
  <2> QED BY <1>13, <1>h, <1>n, <2>1, <2>2 DEF OpenDo, EnterLoop, TypeOK
<1>14. ASSUME NEW kind \in {"for", "forever"}, OpenFor(kind) PROVE TypeOK'
  <2>1. prog' \in Seq(Tokens) BY <1>14, RecordTyped DEF OpenFor, Expecting
  <2>2. frames' \in Seq(Frames)
    <3> DEFINE f == [Frame("for", Here) EXCEPT !.cond = labels + 1, !.body = labels + 2,
                                               !.cont = labels + 3, !.end = labels + 4]
    <3>1. f \in Frames BY <1>h, <1>k DEF Frame, Frames
    <3>2. frames' = Append(frames, f) BY <1>14 DEF OpenFor
    <3> QED BY <3>1, <3>2, PushTyped
  <2> QED BY <1>14, <1>h, <1>n, <2>1, <2>2 DEF OpenFor, EnterLoop, TypeOK
<1>15. CASE OpenSwitch
  <2>1. prog' \in Seq(Tokens) BY <1>15, RecordTyped DEF OpenSwitch, Expecting
  <2>2. frames' \in Seq(Frames)
    <3> DEFINE f == [Frame("switch", Here) EXCEPT !.end = labels + 1]
    <3>1. f \in Frames BY <1>h, <1>k DEF Frame, Frames
    <3>2. frames' = Append(frames, f) BY <1>15 DEF OpenSwitch
    <3> QED BY <3>1, <3>2, PushTyped
  <2>3. [discr |-> Here, case_labels |-> <<>>, default |-> 0] \in Scopes BY <1>h DEF Scopes
  <2>4. switch_scopes' \in Seq(Scopes) BY <1>15, <1>l, <2>3 DEF OpenSwitch
  <2> QED BY <1>15, <1>h, <1>n, <2>1, <2>2, <2>4 DEF OpenSwitch, TypeOK
<1>16. CASE CloseBlock
  BY <1>16, EndTyped, CloseTyped DEF CloseBlock, TypeOK, ctxVars, labelVars
<1>17. CASE CloseLabels
  BY <1>17, CloseTyped DEF CloseLabels, Finishing, TypeOK, ctxVars, labelVars
<1>18. CASE Else
  <2>1. frames # << >> /\ Top \in Frames /\ Top.at \in Nat /\ Popped \in Seq(Frames)
    BY <1>18, TopTyped DEF Else
  <2>2. [Top EXCEPT !.kind = "else"] \in Frames BY <2>1, <1>k DEF Frames
  <2>3. frames' \in Seq(Frames) BY <1>18, <2>1, <2>2 DEF Else
  <2>4. prog' \in Seq(Tokens) BY <1>18, <2>1, RecordTyped DEF Else
  <2> QED BY <1>18, <2>3, <2>4 DEF Else, TypeOK, ctxVars, labelVars
<1>19. CASE CloseThen
  BY <1>19, EndTyped, CloseTyped DEF CloseThen, Finishing, TypeOK, ctxVars, labelVars
<1>20. CASE CloseElse
  BY <1>20, EndTyped, CloseTyped DEF CloseElse, Finishing, TypeOK, ctxVars, labelVars
<1>21. CASE CloseWhile
  BY <1>21, <1>p, EndTyped, CloseTyped DEF CloseWhile, ExitLoop, Finishing, TypeOK, labelVars
<1>22. CASE CloseDo
  BY <1>22, <1>p, EndTyped, CloseTyped DEF CloseDo, ExitLoop, Finishing, TypeOK, labelVars
<1>23. CASE CloseFor
  BY <1>23, <1>p, EndTyped, CloseTyped DEF CloseFor, ExitLoop, Finishing, TypeOK, labelVars
<1>24. CASE CloseSwitch
  BY <1>24, <1>p, EndTyped, CloseTyped DEF CloseSwitch, Finishing, TypeOK, labelVars
<1>25. CASE LowerDone
  BY <1>25 DEF LowerDone, TypeOK, ctxVars, labelVars
<1>26. CASE UNCHANGED lowerVars
  BY <1>26 DEF lowerVars, TypeOK
<1> QED
  BY <1>1, <1>2, <1>3, <1>4, <1>5, <1>6, <1>7, <1>8, <1>9, <1>10, <1>11, <1>12, <1>13, <1>14,
     <1>15, <1>16, <1>17, <1>18, <1>19, <1>20, <1>21, <1>22, <1>23, <1>24, <1>25, <1>26
  DEF LowerNext, Pick, Finish

(* The three stacks hold labels and scopes, the frames record statements   *)
(* of the known kinds: HirCtx never holds anything else while it lowers.   *)
THEOREM LoweringTyped == LowerSpec => []TypeOK
<1>1. LowerInit => TypeOK BY DEF LowerInit, TypeOK
<1> QED BY <1>1, TypeStep, PTL DEF LowerSpec

-----------------------------------------------------------------------------
(* The three stacks *)

Stacks(fs, brk, cont, discrs) ==
    /\ Mirrors(fs, BreakKinds, Ends(fs), brk)
    /\ Mirrors(fs, LoopKinds, Conts(fs), cont)
    /\ Mirrors(fs, {"switch"}, Ats(fs), discrs)

(* The inductive invariant.                                                *)
StacksMirror == Stacks(frames, break_labels, continue_labels, Discrs(switch_scopes))

LEMMA Kinds3 ==
  ASSUME NEW k \in FrameKinds
  PROVE  /\ k \in LoopKinds => k \in BreakKinds /\ k \notin {"switch"}
         /\ k \in {"switch"} => k \in BreakKinds /\ k \notin LoopKinds
         /\ k \notin BreakKinds => k \notin LoopKinds /\ k \notin {"switch"}
BY DEF BreakKinds, LoopKinds, FrameKinds

LEMMA Longer ==
  ASSUME NEW fs \in Seq(Frames), NEW f \in Frames
  PROVE  LET fs2 == Append(fs, f)
         IN  /\ fs2 \in Seq(Frames) /\ Extends(fs2, fs) /\ fs2[Len(fs) + 1] = f
             /\ SameBelow(Ends(fs2), Ends(fs), Len(fs)) /\ Ends(fs2)[Len(fs) + 1] = f.end
             /\ SameBelow(Conts(fs2), Conts(fs), Len(fs)) /\ Conts(fs2)[Len(fs) + 1] = f.cont
             /\ SameBelow(Ats(fs2), Ats(fs), Len(fs)) /\ Ats(fs2)[Len(fs) + 1] = f.at
<1> DEFINE fs2 == Append(fs, f)
<1>1. /\ fs2 \in Seq(Frames) /\ Len(fs2) = Len(fs) + 1 /\ fs2[Len(fs) + 1] = f
      /\ \A i \in 1 .. Len(fs) : fs2[i] = fs[i]
  BY AppendFacts
<1> HIDE DEF fs2
<1>2. Len(fs) \in Nat /\ Len(fs) + 1 \in 1 .. Len(fs2) /\ \A i \in 1 .. Len(fs) : i \in 1 .. Len(fs2)
  BY <1>1
<1>3. \A i \in 1 .. Len(fs2) : Ends(fs2)[i] = fs2[i].end /\ Conts(fs2)[i] = fs2[i].cont
                               /\ Ats(fs2)[i] = fs2[i].at
  BY DEF Ends, Conts, Ats
<1>4. \A i \in 1 .. Len(fs) : Ends(fs)[i] = fs[i].end /\ Conts(fs)[i] = fs[i].cont
                              /\ Ats(fs)[i] = fs[i].at
  BY DEF Ends, Conts, Ats
<1> QED BY <1>1, <1>2, <1>3, <1>4 DEF Extends, SameBelow, fs2

LEMMA Shorter ==
  ASSUME NEW fs \in Seq(Frames), Len(fs) > 0
  PROVE  LET fs2 == SubSeq(fs, 1, Len(fs) - 1)
         IN  /\ fs2 \in Seq(Frames) /\ Extends(fs, fs2)
             /\ SameBelow(Ends(fs2), Ends(fs), Len(fs2))
             /\ SameBelow(Conts(fs2), Conts(fs), Len(fs2))
             /\ SameBelow(Ats(fs2), Ats(fs), Len(fs2))
<1> DEFINE fs2 == SubSeq(fs, 1, Len(fs) - 1)
<1>1. fs2 \in Seq(Frames) /\ Len(fs2) = Len(fs) - 1 /\ \A i \in 1 .. Len(fs) - 1 : fs2[i] = fs[i]
  BY FrontFacts
<1> HIDE DEF fs2
<1>2. Len(fs) \in Nat /\ Len(fs) = Len(fs2) + 1 /\ \A i \in 1 .. Len(fs2) : i \in 1 .. Len(fs)
  BY <1>1
<1>3. \A i \in 1 .. Len(fs2) : Ends(fs2)[i] = fs2[i].end /\ Conts(fs2)[i] = fs2[i].cont
                               /\ Ats(fs2)[i] = fs2[i].at
  BY DEF Ends, Conts, Ats
<1>4. \A i \in 1 .. Len(fs) : Ends(fs)[i] = fs[i].end /\ Conts(fs)[i] = fs[i].cont
                              /\ Ats(fs)[i] = fs[i].at
  BY DEF Ends, Conts, Ats
<1> QED BY <1>1, <1>2, <1>3, <1>4 DEF Extends, SameBelow, fs2

(* A statement that is neither loop nor switch begins, or ends.            *)
LEMMA PlainBegins ==
  ASSUME NEW fs \in Seq(Frames), NEW f \in Frames, f.kind \notin BreakKinds,
         NEW b \in Seq(Nat), NEW c \in Seq(Nat), NEW d \in Seq(Nat), Stacks(fs, b, c, d)
  PROVE  Stacks(Append(fs, f), b, c, d)
<1>1. f.kind \notin LoopKinds /\ f.kind \notin {"switch"} BY Kinds3 DEF Frames
<1> DEFINE fs2 == Append(fs, f)
<1>2. /\ fs2 \in Seq(Frames) /\ Extends(fs2, fs) /\ fs2[Len(fs) + 1] = f
      /\ SameBelow(Ends(fs2), Ends(fs), Len(fs)) /\ SameBelow(Conts(fs2), Conts(fs), Len(fs))
      /\ SameBelow(Ats(fs2), Ats(fs), Len(fs))
  BY Longer
<1> HIDE DEF fs2
<1>3. Mirrors(fs2, BreakKinds, Ends(fs2), b) BY <1>2, PushOther DEF Stacks
<1>4. Mirrors(fs2, LoopKinds, Conts(fs2), c) BY <1>1, <1>2, PushOther DEF Stacks
<1>5. Mirrors(fs2, {"switch"}, Ats(fs2), d) BY <1>1, <1>2, PushOther DEF Stacks
<1> QED BY <1>3, <1>4, <1>5 DEF Stacks, fs2

LEMMA PlainEnds ==
  ASSUME NEW fs \in Seq(Frames), Len(fs) > 0, fs[Len(fs)].kind \notin BreakKinds,
         NEW b \in Seq(Nat), NEW c \in Seq(Nat), NEW d \in Seq(Nat), Stacks(fs, b, c, d)
  PROVE  Stacks(SubSeq(fs, 1, Len(fs) - 1), b, c, d)
<1>0. fs[Len(fs)] \in Frames OBVIOUS
<1>1. fs[Len(fs)].kind \notin LoopKinds /\ fs[Len(fs)].kind \notin {"switch"}
  BY <1>0, Kinds3 DEF Frames
<1> DEFINE fs2 == SubSeq(fs, 1, Len(fs) - 1)
<1>2. /\ fs2 \in Seq(Frames) /\ Extends(fs, fs2)
      /\ SameBelow(Ends(fs2), Ends(fs), Len(fs2)) /\ SameBelow(Conts(fs2), Conts(fs), Len(fs2))
      /\ SameBelow(Ats(fs2), Ats(fs), Len(fs2))
  BY Shorter
<1> HIDE DEF fs2
<1>3. Mirrors(fs2, BreakKinds, Ends(fs2), b) BY <1>2, PopOther DEF Stacks
<1>4. Mirrors(fs2, LoopKinds, Conts(fs2), c) BY <1>1, <1>2, PopOther DEF Stacks
<1>5. Mirrors(fs2, {"switch"}, Ats(fs2), d) BY <1>1, <1>2, PopOther DEF Stacks
<1> QED BY <1>3, <1>4, <1>5 DEF Stacks, fs2

(* A loop begins, or ends.                                                 *)
LEMMA LoopBegins ==
  ASSUME NEW fs \in Seq(Frames), NEW f \in Frames, f.kind \in LoopKinds,
         NEW b \in Seq(Nat), NEW c \in Seq(Nat), NEW d \in Seq(Nat), Stacks(fs, b, c, d)
  PROVE  Stacks(Append(fs, f), Append(b, f.end), Append(c, f.cont), d)
<1>1. f.kind \in BreakKinds /\ f.kind \notin {"switch"} /\ f.end \in Nat /\ f.cont \in Nat
  BY Kinds3 DEF Frames
<1> DEFINE fs2 == Append(fs, f)
<1>2. /\ fs2 \in Seq(Frames) /\ Extends(fs2, fs) /\ fs2[Len(fs) + 1] = f
      /\ SameBelow(Ends(fs2), Ends(fs), Len(fs)) /\ Ends(fs2)[Len(fs) + 1] = f.end
      /\ SameBelow(Conts(fs2), Conts(fs), Len(fs)) /\ Conts(fs2)[Len(fs) + 1] = f.cont
      /\ SameBelow(Ats(fs2), Ats(fs), Len(fs))
  BY Longer
<1> HIDE DEF fs2
<1>3. Mirrors(fs2, BreakKinds, Ends(fs2), Append(b, f.end)) BY <1>1, <1>2, PushOwn DEF Stacks
<1>4. Mirrors(fs2, LoopKinds, Conts(fs2), Append(c, f.cont)) BY <1>1, <1>2, PushOwn DEF Stacks
<1>5. Mirrors(fs2, {"switch"}, Ats(fs2), d) BY <1>1, <1>2, PushOther DEF Stacks
<1> QED BY <1>3, <1>4, <1>5 DEF Stacks, fs2

LEMMA LoopEnds ==
  ASSUME NEW fs \in Seq(Frames), Len(fs) > 0, fs[Len(fs)].kind \in LoopKinds,
         NEW b \in Seq(Nat), NEW c \in Seq(Nat), NEW d \in Seq(Nat), Stacks(fs, b, c, d)
  PROVE  Stacks(SubSeq(fs, 1, Len(fs) - 1), SubSeq(b, 1, Len(b) - 1), SubSeq(c, 1, Len(c) - 1), d)
<1>0. fs[Len(fs)] \in Frames OBVIOUS
<1>1. fs[Len(fs)].kind \in BreakKinds /\ fs[Len(fs)].kind \notin {"switch"}
  BY <1>0, Kinds3 DEF Frames
<1> DEFINE fs2 == SubSeq(fs, 1, Len(fs) - 1)
<1>2. /\ fs2 \in Seq(Frames) /\ Extends(fs, fs2)
      /\ SameBelow(Ends(fs2), Ends(fs), Len(fs2)) /\ SameBelow(Conts(fs2), Conts(fs), Len(fs2))
      /\ SameBelow(Ats(fs2), Ats(fs), Len(fs2))
  BY Shorter
<1> HIDE DEF fs2
<1>3. Mirrors(fs2, BreakKinds, Ends(fs2), SubSeq(b, 1, Len(b) - 1)) BY <1>1, <1>2, PopOwn DEF Stacks
<1>4. Mirrors(fs2, LoopKinds, Conts(fs2), SubSeq(c, 1, Len(c) - 1)) BY <1>2, PopOwn DEF Stacks
<1>5. Mirrors(fs2, {"switch"}, Ats(fs2), d) BY <1>1, <1>2, PopOther DEF Stacks
<1> QED BY <1>3, <1>4, <1>5 DEF Stacks, fs2

(* A switch begins, or ends.                                               *)
LEMMA SwitchBegins ==
  ASSUME NEW fs \in Seq(Frames), NEW f \in Frames, f.kind = "switch",
         NEW b \in Seq(Nat), NEW c \in Seq(Nat), NEW d \in Seq(Nat), Stacks(fs, b, c, d)
  PROVE  Stacks(Append(fs, f), Append(b, f.end), c, Append(d, f.at))
<1>1. f.kind \in BreakKinds /\ f.kind \notin LoopKinds /\ f.end \in Nat /\ f.at \in Nat
  BY Kinds3 DEF Frames
<1> DEFINE fs2 == Append(fs, f)
<1>2. /\ fs2 \in Seq(Frames) /\ Extends(fs2, fs) /\ fs2[Len(fs) + 1] = f
      /\ SameBelow(Ends(fs2), Ends(fs), Len(fs)) /\ Ends(fs2)[Len(fs) + 1] = f.end
      /\ SameBelow(Conts(fs2), Conts(fs), Len(fs))
      /\ SameBelow(Ats(fs2), Ats(fs), Len(fs)) /\ Ats(fs2)[Len(fs) + 1] = f.at
  BY Longer
<1> HIDE DEF fs2
<1>3. Mirrors(fs2, BreakKinds, Ends(fs2), Append(b, f.end)) BY <1>1, <1>2, PushOwn DEF Stacks
<1>4. Mirrors(fs2, LoopKinds, Conts(fs2), c) BY <1>1, <1>2, PushOther DEF Stacks
<1>5. Mirrors(fs2, {"switch"}, Ats(fs2), Append(d, f.at)) BY <1>1, <1>2, PushOwn DEF Stacks
<1> QED BY <1>3, <1>4, <1>5 DEF Stacks, fs2

LEMMA SwitchEnds ==
  ASSUME NEW fs \in Seq(Frames), Len(fs) > 0, fs[Len(fs)].kind = "switch",
         NEW b \in Seq(Nat), NEW c \in Seq(Nat), NEW d \in Seq(Nat), Stacks(fs, b, c, d)
  PROVE  Stacks(SubSeq(fs, 1, Len(fs) - 1), SubSeq(b, 1, Len(b) - 1), c, SubSeq(d, 1, Len(d) - 1))
<1>0. fs[Len(fs)] \in Frames OBVIOUS
<1>1. fs[Len(fs)].kind \in BreakKinds /\ fs[Len(fs)].kind \notin LoopKinds
  BY <1>0, Kinds3 DEF Frames
<1> DEFINE fs2 == SubSeq(fs, 1, Len(fs) - 1)
<1>2. /\ fs2 \in Seq(Frames) /\ Extends(fs, fs2)
      /\ SameBelow(Ends(fs2), Ends(fs), Len(fs2)) /\ SameBelow(Conts(fs2), Conts(fs), Len(fs2))
      /\ SameBelow(Ats(fs2), Ats(fs), Len(fs2))
  BY Shorter
<1> HIDE DEF fs2
<1>3. Mirrors(fs2, BreakKinds, Ends(fs2), SubSeq(b, 1, Len(b) - 1)) BY <1>1, <1>2, PopOwn DEF Stacks
<1>4. Mirrors(fs2, LoopKinds, Conts(fs2), c) BY <1>1, <1>2, PopOther DEF Stacks
<1>5. Mirrors(fs2, {"switch"}, Ats(fs2), SubSeq(d, 1, Len(d) - 1)) BY <1>2, PopOwn DEF Stacks
<1> QED BY <1>3, <1>4, <1>5 DEF Stacks, fs2

LEMMA DiscrsTyped ==
  ASSUME NEW sc \in Seq(Scopes)
  PROVE  Discrs(sc) \in Seq(Nat) /\ Len(Discrs(sc)) = Len(sc)
<1>1. Len(sc) \in Nat /\ \A i \in 1 .. Len(sc) : sc[i].discr \in Nat
  <2>1. Len(sc) \in Nat /\ \A i \in 1 .. Len(sc) : sc[i] \in Scopes OBVIOUS
  <2> QED BY <2>1 DEF Scopes
<1>2. Discrs(sc) \in [1 .. Len(sc) -> Nat] BY <1>1 DEF Discrs
<1> QED BY <1>1, <1>2

LEMMA DiscrsPush ==
  ASSUME NEW sc \in Seq(Scopes), NEW s \in Scopes
  PROVE  Discrs(Append(sc, s)) = Append(Discrs(sc), s.discr)
<1> DEFINE l == Discrs(Append(sc, s))
           r == Append(Discrs(sc), s.discr)
<1>1. /\ Append(sc, s) \in Seq(Scopes) /\ Len(Append(sc, s)) = Len(sc) + 1
      /\ Append(sc, s)[Len(sc) + 1] = s /\ \A i \in 1 .. Len(sc) : Append(sc, s)[i] = sc[i]
  BY AppendFacts
<1>2. Discrs(sc) \in Seq(Nat) /\ Len(Discrs(sc)) = Len(sc) /\ s.discr \in Nat
  BY DiscrsTyped DEF Scopes
<1>3. /\ r \in Seq(Nat) /\ Len(r) = Len(sc) + 1 /\ r[Len(sc) + 1] = s.discr
      /\ \A i \in 1 .. Len(sc) : r[i] = Discrs(sc)[i]
  BY <1>2, AppendFacts
<1>4. l \in Seq(Nat) /\ Len(l) = Len(sc) + 1 BY <1>1, DiscrsTyped
<1>5. Len(sc) \in Nat OBVIOUS
<1>6. ASSUME NEW i \in 1 .. Len(sc) + 1 PROVE l[i] = r[i]
  <2>1. l[i] = Append(sc, s)[i].discr BY <1>1, <1>6 DEF Discrs
  <2> HIDE DEF l, r
  <2>2. CASE i = Len(sc) + 1 BY <2>1, <2>2, <1>1, <1>3
  <2>3. CASE i # Len(sc) + 1
    <3>1. i \in 1 .. Len(sc) BY <2>3, <1>5
    <3>2. Discrs(sc)[i] = sc[i].discr BY <3>1 DEF Discrs
    <3> QED BY <2>1, <3>1, <3>2, <1>1, <1>3
  <2> QED BY <2>2, <2>3
<1> HIDE DEF l, r
<1>7. l = r BY <1>3, <1>4, <1>6
<1> QED BY <1>7 DEF l, r

LEMMA DiscrsPop ==
  ASSUME NEW sc \in Seq(Scopes), Len(sc) > 0
  PROVE  Discrs(SubSeq(sc, 1, Len(sc) - 1)) = SubSeq(Discrs(sc), 1, Len(Discrs(sc)) - 1)
<1> DEFINE f == SubSeq(sc, 1, Len(sc) - 1)
           l == Discrs(f)
           r == SubSeq(Discrs(sc), 1, Len(Discrs(sc)) - 1)
<1>1. f \in Seq(Scopes) /\ Len(f) = Len(sc) - 1 /\ \A i \in 1 .. Len(sc) - 1 : f[i] = sc[i]
  BY FrontFacts
<1>2. Discrs(sc) \in Seq(Nat) /\ Len(Discrs(sc)) = Len(sc) BY DiscrsTyped
<1>3. /\ r \in Seq(Nat) /\ Len(r) = Len(sc) - 1
      /\ \A i \in 1 .. Len(sc) - 1 : r[i] = Discrs(sc)[i]
  BY <1>2, FrontFacts
<1> HIDE DEF f, r
<1>4. l \in Seq(Nat) /\ Len(l) = Len(sc) - 1 BY <1>1, DiscrsTyped
<1>5. ASSUME NEW i \in 1 .. Len(sc) - 1 PROVE l[i] = r[i]
  <2>1. i \in 1 .. Len(sc) BY <1>5
  <2>2. l[i] = f[i].discr BY <1>1, <1>5 DEF Discrs
  <2>3. Discrs(sc)[i] = sc[i].discr BY <2>1 DEF Discrs
  <2> QED BY <2>2, <2>3, <1>1, <1>3, <1>5
<1> HIDE DEF l
<1> HIDE DEF r
<1>6. l = r
  <2>1. Len(l) = Len(r) /\ \A i \in 1 .. Len(l) : l[i] = r[i] BY <1>3, <1>4, <1>5
  <2>2. l \in Seq(Nat) /\ r \in Seq(Nat) BY <1>3, <1>4
  <2> QED BY ONLY <2>1, <2>2, SeqEqual
<1> QED BY <1>6 DEF l, r, f

(* Registering a case or a default leaves the discriminants alone.         *)
LEMMA DiscrsSet ==
  ASSUME TypeOK, InSwitch, NEW s \in Scopes, s.discr = Scope.discr, SetScope(s)
  PROVE  Discrs(switch_scopes') = Discrs(switch_scopes)
<1>1. switch_scopes \in Seq(Scopes) /\ Len(switch_scopes) \in 1 .. Len(switch_scopes)
  BY ScopeTyped DEF TypeOK
<1>2. switch_scopes' \in Seq(Scopes) /\ Len(switch_scopes') = Len(switch_scopes)
      /\ \A i \in 1 .. Len(switch_scopes) :
            switch_scopes'[i] = IF i = Len(switch_scopes) THEN s ELSE switch_scopes[i]
  BY <1>1 DEF SetScope
<1>3. \A i \in 1 .. Len(switch_scopes) : switch_scopes'[i].discr = switch_scopes[i].discr
  BY <1>2 DEF Scope
<1> QED BY <1>2, <1>3 DEF Discrs

LEMMA StacksStep == TypeOK /\ StacksMirror /\ [LowerNext]_lowerVars => StacksMirror'
<1> SUFFICES ASSUME TypeOK, StacksMirror, [LowerNext]_lowerVars PROVE StacksMirror' OBVIOUS
<1> DEFINE b == break_labels  c == continue_labels  d == Discrs(switch_scopes)
<1>t. /\ frames \in Seq(Frames) /\ b \in Seq(Nat) /\ c \in Seq(Nat) /\ d \in Seq(Nat)
      /\ switch_scopes \in Seq(Scopes) /\ Stacks(frames, b, c, d)
  BY DiscrsTyped DEF TypeOK, StacksMirror
<1>h. Here \in Nat /\ labels \in Nat /\ labels + 1 \in Nat /\ labels + 2 \in Nat
      /\ labels + 3 \in Nat /\ labels + 4 \in Nat
  BY HereTyped DEF TypeOK
<1>k. LoopKinds \subseteq FrameKinds /\ {"while", "do", "for"} \subseteq LoopKinds
      /\ {"block", "labels", "then", "else", "switch"} \subseteq FrameKinds
      /\ \A k \in {"block", "labels", "then", "else"} : k \notin BreakKinds
  BY DEF FrameKinds, LoopKinds, BreakKinds
<1>s. ASSUME UNCHANGED <<frames, ctxVars>> PROVE StacksMirror'
  BY <1>s DEF StacksMirror, ctxVars
<1>o. ASSUME NEW f \in Frames, f.kind \notin BreakKinds, frames' = Append(frames, f), UNCHANGED ctxVars
      PROVE  StacksMirror'
  BY <1>o, <1>t, PlainBegins DEF StacksMirror, ctxVars
<1>e. ASSUME frames # << >>, Top.kind \notin BreakKinds, NEW m, Close(m), UNCHANGED ctxVars
      PROVE  StacksMirror'
  <2>1. Len(frames) > 0 BY <1>e, <1>t, NonEmpty
  <2> QED BY <1>e, <1>t, <2>1, PlainEnds DEF StacksMirror, ctxVars, Close, Top, Popped
<1>b. ASSUME NEW f \in Frames, f.kind \in LoopKinds, frames' = Append(frames, f),
             EnterLoop(f.cont, f.end), UNCHANGED switch_scopes
      PROVE  StacksMirror'
  BY <1>b, <1>t, LoopBegins DEF StacksMirror, EnterLoop
<1>f. ASSUME frames # << >>, Top.kind \in LoopKinds, NEW m, Close(m), ExitLoop,
             UNCHANGED switch_scopes
      PROVE  StacksMirror'
  <2>1. Len(frames) > 0 BY <1>f, <1>t, NonEmpty
  <2> QED BY <1>f, <1>t, <2>1, LoopEnds DEF StacksMirror, Close, ExitLoop, Top, Popped
<1>i. ASSUME NEW l, LabelItem(l), UNCHANGED <<continue_labels, break_labels>>,
             Discrs(switch_scopes') = d
      PROVE  StacksMirror'
  <2>1. Frame("labels", 0) \in Frames /\ Frame("labels", 0).kind \notin BreakKinds
    BY <1>k, FrameTyped
  <2>2. CASE InBody BY <1>i, <1>t, <2>1, <2>2, PlainBegins DEF LabelItem, StacksMirror
  <2>3. CASE ~InBody BY <1>i, <2>3 DEF LabelItem, StacksMirror
  <2> QED BY <2>2, <2>3
<1>1. CASE ExpressionStmt BY <1>1, <1>s DEF ExpressionStmt, Simple
<1>2. CASE ReturnStmt BY <1>2, <1>s DEF ReturnStmt, Simple
<1>3. CASE Break BY <1>3, <1>s DEF Break, Simple
<1>4. CASE Continue BY <1>4, <1>s DEF Continue, Simple
<1>5. CASE Misplaced BY <1>5, <1>s DEF Misplaced
<1>6. ASSUME NEW n \in Names, Goto(n) PROVE StacksMirror' BY <1>6, <1>s DEF Goto
<1>7. ASSUME NEW n \in Names, NamedLabel(n) PROVE StacksMirror'
  BY <1>7, <1>i DEF NamedLabel, ctxVars
<1>8. ASSUME NEW vals \in CaseSets, Case(vals) PROVE StacksMirror'
  <2> DEFINE new == [cond |-> IsCase(Scope.discr, vals), l |-> labels + 1]
             s == [Scope EXCEPT !.case_labels = Append(@, new)]
  <2>1. InSwitch /\ Scope \in Scopes BY <1>8, ScopeTyped DEF Case
  <2>2. new \in [cond : Conds, l : Nat] BY <2>1, <1>h DEF Scopes, Conds, IsCase
  <2>3. SetScope(s) BY <1>8 DEF Case
  <2> HIDE DEF new
  <2>4. Append(Scope.case_labels, new) \in Seq([cond : Conds, l : Nat]) BY <2>1, <2>2 DEF Scopes
  <2>5. s \in Scopes /\ s.discr = Scope.discr BY <2>1, <2>4 DEF Scopes
  <2> HIDE DEF s
  <2>6. Discrs(switch_scopes') = d BY <2>1, <2>3, <2>5, DiscrsSet
  <2> QED BY <1>8, <1>i, <2>6 DEF Case
<1>9. CASE Default
  <2>1. InSwitch /\ Scope \in Scopes BY <1>9, ScopeTyped DEF Default
  <2> DEFINE s == [Scope EXCEPT !.default = labels + 1]
  <2>2. s \in Scopes /\ s.discr = Scope.discr BY <2>1, <1>h DEF Scopes
  <2>3. SetScope(s) BY <1>9 DEF Default
  <2> HIDE DEF s
  <2>4. Discrs(switch_scopes') = d BY <2>1, <2>2, <2>3, DiscrsSet
  <2> QED BY <1>9, <1>i, <2>4 DEF Default
<1>10. CASE OpenBlock BY <1>10, <1>h, <1>k, <1>o, FrameTyped DEF OpenBlock
<1>11. CASE OpenIf BY <1>11, <1>h, <1>k, <1>o, FrameTyped DEF OpenIf
<1>12. CASE OpenWhile
  <2> DEFINE f == [Frame("while", Here) EXCEPT !.cond = labels + 1, !.body = labels + 2,
                                               !.cont = labels + 1, !.end = labels + 3]
  <2>1. f \in Frames /\ f.kind = "while" /\ f.cont = labels + 1 /\ f.end = labels + 3
    BY <1>h, <1>k DEF Frame, Frames, FrameKinds
  <2>2. frames' = Append(frames, f) BY <1>12 DEF OpenWhile
  <2> HIDE DEF f
  <2> QED BY <1>12, <1>b, <1>k, <2>1, <2>2 DEF OpenWhile
<1>13. CASE OpenDo
  <2> DEFINE f == [Frame("do", Here) EXCEPT !.cond = labels + 2, !.body = labels + 1,
                                            !.cont = labels + 2, !.end = labels + 3]
  <2>1. f \in Frames /\ f.kind = "do" /\ f.cont = labels + 2 /\ f.end = labels + 3
    BY <1>h, <1>k DEF Frame, Frames, FrameKinds
  <2>2. frames' = Append(frames, f) BY <1>13 DEF OpenDo
  <2> HIDE DEF f
  <2> QED BY <1>13, <1>b, <1>k, <2>1, <2>2 DEF OpenDo
<1>14. ASSUME NEW kind \in {"for", "forever"}, OpenFor(kind) PROVE StacksMirror'
  <2> DEFINE f == [Frame("for", Here) EXCEPT !.cond = labels + 1, !.body = labels + 2,
                                             !.cont = labels + 3, !.end = labels + 4]
  <2>1. f \in Frames /\ f.kind = "for" /\ f.cont = labels + 3 /\ f.end = labels + 4
    BY <1>h, <1>k DEF Frame, Frames, FrameKinds
  <2>2. frames' = Append(frames, f) BY <1>14 DEF OpenFor
  <2> HIDE DEF f
  <2> QED BY <1>14, <1>b, <1>k, <2>1, <2>2 DEF OpenFor
<1>15. CASE OpenSwitch
  <2> DEFINE f == [Frame("switch", Here) EXCEPT !.end = labels + 1]
             s == [discr |-> Here, case_labels |-> <<>>, default |-> 0]
  <2>1. f \in Frames /\ f.kind = "switch" /\ f.end = labels + 1 /\ f.at = Here
    BY <1>h, <1>k DEF Frame, Frames
  <2>2. s \in Scopes /\ s.discr = Here BY <1>h DEF Scopes
  <2>3. frames' = Append(frames, f) /\ switch_scopes' = Append(switch_scopes, s)
        /\ break_labels' = Append(break_labels, f.end) /\ continue_labels' = continue_labels
    BY <1>15, <2>1 DEF OpenSwitch
  <2> HIDE DEF f, s
  <2>4. Discrs(switch_scopes') = Append(d, f.at) BY <1>t, <2>1, <2>2, <2>3, DiscrsPush
  <2> QED BY <1>t, <2>1, <2>3, <2>4, SwitchBegins DEF StacksMirror
<1>16. CASE CloseBlock BY <1>16, <1>e, <1>k DEF CloseBlock
<1>17. CASE CloseLabels BY <1>17, <1>e, <1>k DEF CloseLabels, Finishing
<1>18. CASE Else
  <2>1. frames # << >> /\ Top.kind = "then" /\ Top \in Frames /\ Popped \in Seq(Frames)
    BY <1>18, TopTyped DEF Else
  <2>2. Len(frames) > 0 BY <2>1, <1>t, NonEmpty
  <2>3. Stacks(Popped, b, c, d) BY <1>t, <1>k, <2>1, <2>2, PlainEnds DEF Popped, Top
  <2> DEFINE f == [Top EXCEPT !.kind = "else"]
  <2>4. f \in Frames /\ f.kind = "else" BY <2>1, <1>k DEF Frames
  <2>5. frames' = Append(Popped, f) BY <1>18 DEF Else
  <2> HIDE DEF f
  <2>6. Stacks(Append(Popped, f), b, c, d) BY <1>t, <1>k, <2>1, <2>3, <2>4, PlainBegins
  <2> QED BY <1>18, <2>5, <2>6 DEF Else, StacksMirror, ctxVars
<1>19. CASE CloseThen BY <1>19, <1>e, <1>k DEF CloseThen, Finishing
<1>20. CASE CloseElse BY <1>20, <1>e, <1>k DEF CloseElse, Finishing
<1>21. CASE CloseWhile BY <1>21, <1>f, <1>k DEF CloseWhile, Finishing
<1>22. CASE CloseDo BY <1>22, <1>f, <1>k DEF CloseDo, Finishing
<1>23. CASE CloseFor BY <1>23, <1>f, <1>k DEF CloseFor, Finishing
<1>24. CASE CloseSwitch
  <2>1. frames # << >> /\ Top.kind = "switch" /\ frames' = Popped
    BY <1>24 DEF CloseSwitch, Finishing, Close
  <2>2. Len(frames) > 0 /\ Len(frames) \in 1 .. Len(frames) BY <2>1, <1>t, NonEmpty
  <2>3. Mirrors(frames, {"switch"}, Ats(frames), d) BY <1>t DEF Stacks
  <2>4. \A j \in (Len(frames) + 1) .. Len(frames) : FALSE BY <1>t
  <2>5. d # << >>
    <3>1. frames[Len(frames)].kind \in {"switch"} BY <2>1 DEF Top
    <3> QED BY <1>t, <2>2, <2>3, <2>4, <3>1, TopIs
  <2>6. Len(switch_scopes) > 0 BY <1>t, <2>5, NonEmpty, DiscrsTyped
  <2>7. switch_scopes' = SubSeq(switch_scopes, 1, Len(switch_scopes) - 1)
        /\ break_labels' = SubSeq(b, 1, Len(b) - 1) /\ continue_labels' = c
    BY <1>24 DEF CloseSwitch
  <2>8. Discrs(switch_scopes') = SubSeq(d, 1, Len(d) - 1) BY <1>t, <2>6, <2>7, DiscrsPop
  <2>9. Stacks(SubSeq(frames, 1, Len(frames) - 1), SubSeq(b, 1, Len(b) - 1), c,
               SubSeq(d, 1, Len(d) - 1))
    BY <1>t, <2>1, <2>2, SwitchEnds DEF Top
  <2> QED BY <2>1, <2>7, <2>8, <2>9 DEF StacksMirror, Popped
<1>25. CASE LowerDone BY <1>25, <1>s DEF LowerDone
<1>26. CASE UNCHANGED lowerVars BY <1>26, <1>s DEF lowerVars, ctxVars
<1> QED
  BY <1>1, <1>2, <1>3, <1>4, <1>5, <1>6, <1>7, <1>8, <1>9, <1>10, <1>11, <1>12, <1>13, <1>14,
     <1>15, <1>16, <1>17, <1>18, <1>19, <1>20, <1>21, <1>22, <1>23, <1>24, <1>25, <1>26
  DEF LowerNext, Pick, Finish

LEMMA TopAt ==
  ASSUME NEW fs \in Seq(Frames), NEW K, NEW d \in Seq(Nat), Mirrors(fs, K, Ats(fs), d),
         NEW i \in 1 .. Len(fs), fs[i].kind \in K,
         \A j \in (i + 1) .. Len(fs) : fs[j].kind \notin K
  PROVE  d # <<>> /\ Len(d) \in 1 .. Len(d) /\ d[Len(d)] = Ats(fs)[i]
<1> PICK val : val = Ats(fs) OBVIOUS
<1>1. d # <<>> /\ Len(d) \in 1 .. Len(d) /\ d[Len(d)] = val[i] BY TopIs
<1> QED BY <1>1

LEMMA EmptyMirror == ASSUME NEW kinds, NEW val PROVE Mirrors(<<>>, kinds, val, <<>>)
<1>1. <<>> \in Seq(Nat) /\ Len(<<>>) = 0 OBVIOUS
<1>2. Mirror(<<>>, kinds, val, <<>>, <<>>) BY <1>1 DEF Mirror
<1> QED BY <1>1, <1>2 DEF Mirrors

LEMMA StacksAlways == LowerSpec => [](TypeOK /\ StacksMirror)
<1>1. LowerInit => TypeOK BY DEF LowerInit, TypeOK
<1>2. LowerInit => StacksMirror
  <2> SUFFICES ASSUME LowerInit PROVE StacksMirror OBVIOUS
  <2>1. frames = <<>> /\ break_labels = <<>> /\ continue_labels = <<>> /\ Discrs(switch_scopes) = <<>>
    BY DEF LowerInit, Discrs
  <2> QED BY <2>1, EmptyMirror DEF StacksMirror, Stacks
<1> QED BY <1>1, <1>2, TypeStep, StacksStep, PTL DEF LowerSpec

(* For programs of any size: `break` jumps to the end of the innermost     *)
(* loop or switch, `continue` to the innermost loop's, and a case belongs  *)
(* to the innermost switch, although HirCtx keeps three separate stacks.   *)
THEOREM JumpsInnermost == LowerSpec => []JumpsAreInnermost
<1>1. TypeOK /\ StacksMirror => JumpsAreInnermost
  <2> SUFFICES ASSUME TypeOK, StacksMirror, NEW i \in 1 .. Len(frames)
               PROVE  /\ Innermost(i, BreakKinds) =>
                            break_labels # <<>> /\ break_labels[Len(break_labels)] = frames[i].end
                      /\ Innermost(i, LoopKinds) =>
                            /\ continue_labels # <<>>
                            /\ continue_labels[Len(continue_labels)] = frames[i].cont
                      /\ Innermost(i, {"switch"}) => InSwitch /\ Scope.discr = frames[i].at
    BY DEF JumpsAreInnermost
  <2>t. /\ frames \in Seq(Frames) /\ break_labels \in Seq(Nat) /\ continue_labels \in Seq(Nat)
        /\ switch_scopes \in Seq(Scopes)
        /\ Discrs(switch_scopes) \in Seq(Nat) /\ Len(Discrs(switch_scopes)) = Len(switch_scopes)
        /\ Ends(frames)[i] = frames[i].end /\ Conts(frames)[i] = frames[i].cont
        /\ Ats(frames)[i] = frames[i].at
    BY DiscrsTyped DEF TypeOK, Ends, Conts, Ats
  <2>1. ASSUME Innermost(i, BreakKinds)
        PROVE  break_labels # <<>> /\ break_labels[Len(break_labels)] = frames[i].end
    <3>1. Mirrors(frames, BreakKinds, Ends(frames), break_labels) BY DEF StacksMirror, Stacks
    <3>2. /\ i \in 1 .. Len(frames) /\ frames[i].kind \in BreakKinds
          /\ \A j \in (i + 1) .. Len(frames) : frames[j].kind \notin BreakKinds
      BY <2>1 DEF Innermost
    <3> QED BY <2>t, <3>1, <3>2, TopIs
  <2>2. ASSUME Innermost(i, LoopKinds)
        PROVE  continue_labels # <<>> /\ continue_labels[Len(continue_labels)] = frames[i].cont
    BY <2>2, <2>t, TopIs DEF Innermost, StacksMirror, Stacks
  <2>3. ASSUME Innermost(i, {"switch"}) PROVE InSwitch /\ Scope.discr = frames[i].at
    <3> DEFINE d == Discrs(switch_scopes)
    <3>1. d # <<>> /\ Len(d) \in 1 .. Len(d) /\ d[Len(d)] = frames[i].at
      <4>1. Mirrors(frames, {"switch"}, Ats(frames), d) BY DEF StacksMirror, Stacks
      <4>2. /\ frames[i].kind = "switch"
            /\ \A j \in (i + 1) .. Len(frames) : frames[j].kind # "switch"
        BY <2>3 DEF Innermost
      <4>3. frames \in Seq(Frames) /\ d \in Seq(Nat) BY <2>t
      <4>4. d # <<>> /\ Len(d) \in 1 .. Len(d) /\ d[Len(d)] = Ats(frames)[i]
        BY <4>1, <4>2, <4>3, TopAt
      <4> QED BY <2>t, <4>4
    <3>2. Len(switch_scopes) \in 1 .. Len(switch_scopes) BY <3>1, <2>t
    <3>3. d[Len(d)] = switch_scopes[Len(switch_scopes)].discr BY <3>2, <2>t DEF Discrs
    <3>4. InSwitch BY <3>2, <2>t, NonEmpty DEF InSwitch
    <3> QED BY <3>1, <3>3, <3>4 DEF Scope
  <2> QED BY <2>1, <2>2, <2>3
<1> QED BY <1>1, StacksAlways, PTL

(* For programs of any size: outside of every loop and switch nothing is   *)
(* left on the stacks, so that a misplaced jump is diagnosed.              *)
THEOREM NothingLeftBehind == LowerSpec => []NothingOutlivesItsStatement
<1>1. TypeOK /\ StacksMirror => NothingOutlivesItsStatement
  <2> SUFFICES ASSUME TypeOK, StacksMirror PROVE NothingOutlivesItsStatement OBVIOUS
  <2>t. /\ frames \in Seq(Frames) /\ break_labels \in Seq(Nat) /\ continue_labels \in Seq(Nat)
        /\ switch_scopes \in Seq(Scopes)
        /\ Discrs(switch_scopes) \in Seq(Nat) /\ Len(Discrs(switch_scopes)) = Len(switch_scopes)
    BY DiscrsTyped DEF TypeOK
  <2>1. (\A i \in 1 .. Len(frames) : frames[i].kind \notin BreakKinds) => break_labels = <<>>
    BY <2>t, EmptyIs DEF StacksMirror, Stacks
  <2>2. (\A i \in 1 .. Len(frames) : frames[i].kind \notin LoopKinds) => continue_labels = <<>>
    BY <2>t, EmptyIs DEF StacksMirror, Stacks
  <2>3. ASSUME \A i \in 1 .. Len(frames) : frames[i].kind # "switch" PROVE switch_scopes = <<>>
    <3> DEFINE K == {"switch"}
    <3>1. /\ Mirrors(frames, K, Ats(frames), Discrs(switch_scopes))
          /\ \A i \in 1 .. Len(frames) : frames[i].kind \notin K
      BY <2>3 DEF StacksMirror, Stacks
    <3> HIDE DEF K
    <3>2. Discrs(switch_scopes) = <<>> BY <2>t, <3>1, EmptyIs
    <3>3. ~(Len(switch_scopes) > 0) BY <3>2, <2>t, NonEmpty
    <3> QED BY <3>3, <2>t, NonEmpty
  <2> QED BY <2>1, <2>2, <2>3 DEF NothingOutlivesItsStatement
<1> QED BY <1>1, StacksAlways, PTL

=============================================================================
