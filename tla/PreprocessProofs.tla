-------------------------- MODULE PreprocessProofs --------------------------
(***************************************************************************)
(* Proofs about the preprocessor, for files and main programs of any       *)
(* length and any nesting: the three flags kept for every open #if chain   *)
(* are enough to know which group C keeps.                                 *)
(***************************************************************************)
EXTENDS Preprocess, SequenceTheorems, FiniteSetTheorems, Inductions, TLAPS

-----------------------------------------------------------------------------
(* Lemmas about sequences: the last element and the rest.                  *)

LEMMA AppendFacts ==
  ASSUME NEW S, NEW s \in Seq(S), NEW e \in S
  PROVE  /\ Append(s, e) \in Seq(S) /\ Len(Append(s, e)) = Len(s) + 1
         /\ Append(s, e)[Len(s) + 1] = e
         /\ \A i \in 1 .. Len(s) : Append(s, e)[i] = s[i]
OBVIOUS

LEMMA LastFacts ==
  ASSUME NEW S, NEW s \in Seq(S), s # << >>
  PROVE  Len(s) \in 1 .. Len(s) /\ Last(s) = s[Len(s)] /\ Last(s) \in S
<1>1. Len(s) \in Nat /\ Len(s) > 0 OBVIOUS
<1>2. Len(s) \in 1 .. Len(s) BY <1>1
<1>3. Last(s) = s[Len(s)] BY DEF Last
<1> QED BY <1>2, <1>3

LEMMA FrontFacts ==
  ASSUME NEW S, NEW s \in Seq(S), s # << >>
  PROVE  /\ Front(s) \in Seq(S) /\ Len(Front(s)) = Len(s) - 1
         /\ \A i \in 1 .. Len(s) - 1 : Front(s)[i] = s[i]
<1>1. Len(s) \in Nat /\ Len(s) > 0 /\ \A i \in 1 .. Len(s) : s[i] \in S OBVIOUS
<1> PICK m, f : m = Len(s) - 1 /\ f = SubSeq(s, 1, m) OBVIOUS
<1>2. m \in Nat /\ 1 \in Int /\ m \in Int /\ m - 1 + 1 = m /\ \A i \in 1 .. m : 1 + i - 1 = i
  BY <1>1
<1>3. \A i \in 1 .. m : s[i] \in S BY <1>1, <1>2
<1>4. /\ f \in Seq(S) /\ Len(f) = IF 1 <= m THEN m - 1 + 1 ELSE 0
      /\ \A i \in 1 .. m - 1 + 1 : f[i] = s[1 + i - 1]
  BY <1>2, <1>3, SubSeqProperties
<1>5. Len(f) = m BY <1>2, <1>4
<1>6. \A i \in 1 .. m : f[i] = s[i] BY <1>2, <1>4
<1> QED BY <1>4, <1>5, <1>6 DEF Front

(* The last element replaced.                                              *)
LEMMA ReplaceFacts ==
  ASSUME NEW S, NEW s \in Seq(S), s # << >>, NEW e \in S
  PROVE  LET r == Append(Front(s), e)
         IN  /\ r \in Seq(S) /\ Len(r) = Len(s) /\ r[Len(s)] = e
             /\ \A i \in 1 .. Len(s) - 1 : r[i] = s[i]
<1> DEFINE f == Front(s)
           r == Append(f, e)
<1>1. f \in Seq(S) /\ Len(f) = Len(s) - 1 /\ \A i \in 1 .. Len(s) - 1 : f[i] = s[i]
  BY FrontFacts
<1> HIDE DEF f
<1>2. /\ r \in Seq(S) /\ Len(r) = Len(f) + 1 /\ r[Len(f) + 1] = e
      /\ \A i \in 1 .. Len(f) : r[i] = f[i]
  BY <1>1, AppendFacts
<1>3. Len(f) + 1 = Len(s) BY <1>1
<1> QED BY <1>1, <1>2, <1>3 DEF f

-----------------------------------------------------------------------------
(* The conditional stack and the groups it stands for.                     *)

States == [any_branch_taken : BOOLEAN, current_branch_active : BOOLEAN, parent_active : BOOLEAN]

SomeTrue(g) == \E i \in 1 .. Len(g) : g[i]

(* What the flags of a chain say while the text around the chain is kept.  *)
Tells(state, g) ==
    state.parent_active => /\ state.any_branch_taken = SomeTrue(g)
                           /\ state.current_branch_active = FirstTrue(g)

Agree(cs, gs) ==
    /\ cs \in Seq(States) /\ gs \in Seq(Seq(BOOLEAN)) /\ Len(cs) = Len(gs)
    /\ \A j \in 1 .. Len(cs) :
        /\ gs[j] # << >>
        /\ cs[j].parent_active = \A k \in 1 .. j - 1 : FirstTrue(gs[k])
        /\ Tells(cs[j], gs[j])

LEMMA ActiveIsKept ==
  ASSUME NEW cs, NEW gs, Agree(cs, gs) PROVE IsActive(cs) = Kept(gs)
<1>1. cs \in Seq(States) /\ gs \in Seq(Seq(BOOLEAN)) /\ Len(cs) = Len(gs) BY DEF Agree
<1>2. CASE cs = << >>
  <2>1. DOMAIN gs = {} BY <1>1, <1>2
  <2> QED BY <1>2, <2>1 DEF IsActive, Kept
<1>3. CASE cs # << >>
  <2> PICK n : n = Len(cs) OBVIOUS
  <2>1. n \in 1 .. n /\ Last(cs) = cs[n] /\ cs[n] \in States BY <1>1, <1>3, LastFacts
  <2>2. IsActive(cs) = (cs[n].current_branch_active /\ cs[n].parent_active)
    BY <1>3, <2>1 DEF IsActive, States
  <2>3. cs[n].parent_active = \A k \in 1 .. n - 1 : FirstTrue(gs[k]) BY <2>1 DEF Agree
  <2>4. cs[n].parent_active => cs[n].current_branch_active = FirstTrue(gs[n])
    BY <2>1 DEF Agree, Tells
  <2>5. DOMAIN gs = 1 .. n BY <1>1
  <2>6. n \in Nat /\ \A k \in 1 .. n : k \in 1 .. n - 1 \/ k = n BY <2>1, <1>1
  <2>7. Kept(gs) = ((\A k \in 1 .. n - 1 : FirstTrue(gs[k])) /\ FirstTrue(gs[n]))
    <3>1. Kept(gs) <=> \A k \in 1 .. n : FirstTrue(gs[k]) BY <2>5 DEF Kept
    <3>2. n \in 1 .. n /\ 1 .. n - 1 \subseteq 1 .. n BY <2>1, <2>6
    <3>3. (\A k \in 1 .. n : FirstTrue(gs[k]))
          <=> (\A k \in 1 .. n - 1 : FirstTrue(gs[k])) /\ FirstTrue(gs[n])
      BY <2>6, <3>2
    <3>4. Kept(gs) \in BOOLEAN BY DEF Kept
    <3> QED BY <3>1, <3>3, <3>4
  <2> QED BY <2>2, <2>3, <2>4, <2>7
<1> QED BY <1>2, <1>3

LEMMA OneGroup ==
  ASSUME NEW c \in BOOLEAN
  PROVE  /\ <<c>> \in Seq(BOOLEAN) /\ <<c>> # << >>
         /\ FirstTrue(<<c>>) = c /\ SomeTrue(<<c>>) = c
<1>1. Len(<<c>>) = 1 /\ <<c>>[1] = c /\ <<c>> \in Seq(BOOLEAN) OBVIOUS
<1>2. Last(<<c>>) = c BY <1>1 DEF Last
<1>3. FirstTrue(<<c>>) = c
  <2>1. Len(<<c>>) - 1 = 0 /\ 1 .. 0 = {} BY <1>1
  <2>2. FirstTrue(<<c>>) <=> c BY <1>2, <2>1 DEF FirstTrue
  <2>3. FirstTrue(<<c>>) \in BOOLEAN BY DEF FirstTrue
  <2> QED BY <2>2, <2>3
<1>4. SomeTrue(<<c>>) = c
  <2>1. SomeTrue(<<c>>) <=> \E i \in {1} : <<c>>[i] BY <1>1 DEF SomeTrue
  <2>2. SomeTrue(<<c>>) \in BOOLEAN BY DEF SomeTrue
  <2> QED BY <1>1, <2>1, <2>2
<1> QED BY <1>1, <1>3, <1>4

(* One more group of a chain.                                              *)
LEMMA MoreGroups ==
  ASSUME NEW g \in Seq(BOOLEAN), NEW c \in BOOLEAN
  PROVE  /\ Append(g, c) \in Seq(BOOLEAN) /\ Append(g, c) # << >>
         /\ FirstTrue(Append(g, c)) = (c /\ ~SomeTrue(g))
         /\ SomeTrue(Append(g, c)) = (c \/ SomeTrue(g))
<1> DEFINE r == Append(g, c)
<1>1. /\ r \in Seq(BOOLEAN) /\ Len(r) = Len(g) + 1 /\ r[Len(g) + 1] = c
      /\ \A i \in 1 .. Len(g) : r[i] = g[i]
  BY AppendFacts
<1>2. Len(g) \in Nat OBVIOUS
<1> HIDE DEF r
<1>3. r # << >> BY <1>1, <1>2
<1>4. Last(r) = c BY <1>1 DEF Last
<1>5. Len(r) - 1 = Len(g) BY <1>1, <1>2
<1>6. FirstTrue(r) = (c /\ ~SomeTrue(g)) BY <1>1, <1>4, <1>5 DEF FirstTrue, SomeTrue
<1>7. SomeTrue(r) = (c \/ SomeTrue(g))
  <2>1. \A i \in 1 .. Len(r) : i \in 1 .. Len(g) \/ i = Len(g) + 1 BY <1>1, <1>2
  <2>2. Len(g) + 1 \in 1 .. Len(r) /\ 1 .. Len(g) \subseteq 1 .. Len(r) BY <1>1, <1>2
  <2> QED BY <1>1, <2>1, <2>2 DEF SomeTrue
<1> QED BY <1>1, <1>3, <1>6, <1>7 DEF r

LEMMA StateTyped ==
  ASSUME NEW a \in BOOLEAN, NEW b \in BOOLEAN, NEW c \in BOOLEAN
  PROVE  /\ State(a, b, c) \in States /\ State(a, b, c).any_branch_taken = a
         /\ State(a, b, c).current_branch_active = b /\ State(a, b, c).parent_active = c
BY DEF State, States

(* #if opens a chain.                                                      *)
LEMMA PushAgrees ==
  ASSUME NEW cs, NEW gs, Agree(cs, gs), NEW c \in BOOLEAN
  PROVE  Agree(PushIf(cs, IsActive(cs) /\ c), Append(gs, <<c>>))
<1>1. cs \in Seq(States) /\ gs \in Seq(Seq(BOOLEAN)) /\ Len(cs) = Len(gs) /\ Len(cs) \in Nat
  BY DEF Agree
<1> PICK a : a = IsActive(cs) OBVIOUS
<1>2. a = (\A k \in 1 .. Len(cs) : FirstTrue(gs[k]))
  <2>1. DOMAIN gs = 1 .. Len(cs) BY <1>1
  <2> QED BY <2>1, ActiveIsKept DEF Kept
<1>3. a \in BOOLEAN BY <1>2
<1> PICK st : st = State(a /\ c, a /\ c, a) OBVIOUS
<1>4. /\ st \in States /\ st.any_branch_taken = (a /\ c) /\ st.current_branch_active = (a /\ c)
      /\ st.parent_active = a
  BY <1>3, StateTyped
<1>5. PushIf(cs, a /\ c) = Append(cs, st)
  <2>1. (a /\ (a /\ c)) = (a /\ c) BY <1>3
  <2> QED BY <2>1 DEF PushIf
<1> PICK cs2, gs2 : cs2 = Append(cs, st) /\ gs2 = Append(gs, <<c>>) OBVIOUS
<1>6. /\ cs2 \in Seq(States) /\ Len(cs2) = Len(cs) + 1 /\ cs2[Len(cs) + 1] = st
      /\ \A i \in 1 .. Len(cs) : cs2[i] = cs[i]
  BY <1>1, <1>4, AppendFacts
<1>7. /\ gs2 \in Seq(Seq(BOOLEAN)) /\ Len(gs2) = Len(cs) + 1 /\ gs2[Len(cs) + 1] = <<c>>
      /\ \A i \in 1 .. Len(cs) : gs2[i] = gs[i]
  BY <1>1, OneGroup, AppendFacts
<1>8. ASSUME NEW j \in 1 .. Len(cs2)
      PROVE  /\ gs2[j] # << >>
             /\ cs2[j].parent_active = \A k \in 1 .. j - 1 : FirstTrue(gs2[k])
             /\ Tells(cs2[j], gs2[j])
  <2>1. CASE j = Len(cs) + 1
    <3>1. j - 1 = Len(cs) BY <2>1, <1>1
    <3>2. cs2[j].parent_active = \A k \in 1 .. j - 1 : FirstTrue(gs2[k])
      BY <2>1, <3>1, <1>2, <1>4, <1>6, <1>7
    <3>3. Tells(cs2[j], gs2[j]) BY <2>1, <1>3, <1>4, <1>6, <1>7, OneGroup DEF Tells
    <3> QED BY <2>1, <3>2, <3>3, <1>7, OneGroup
  <2>2. CASE j # Len(cs) + 1
    <3>1. j \in 1 .. Len(cs) /\ 1 .. j - 1 \subseteq 1 .. Len(cs) BY <2>2, <1>1, <1>6
    <3>2. cs2[j] = cs[j] /\ gs2[j] = gs[j] BY <3>1, <1>6, <1>7
    <3>3. /\ gs[j] # << >> /\ Tells(cs[j], gs[j])
          /\ cs[j].parent_active = \A k \in 1 .. j - 1 : FirstTrue(gs[k])
      BY <3>1 DEF Agree
    <3>4. \A k \in 1 .. j - 1 : gs2[k] = gs[k] BY <3>1, <1>7
    <3> QED BY <3>2, <3>3, <3>4
  <2> QED BY <2>1, <2>2
<1>9. Agree(cs2, gs2) BY <1>6, <1>7, <1>8 DEF Agree
<1> QED BY <1>5, <1>9

(* The innermost chain goes on to another group.                           *)
LEMMA LastReplaced ==
  ASSUME NEW cs, NEW gs, Agree(cs, gs), cs # << >>, NEW st \in States,
         NEW g \in Seq(BOOLEAN), g # << >>, st.parent_active = Last(cs).parent_active, Tells(st, g)
  PROVE  Agree(Append(Front(cs), st), Append(Front(gs), g))
<1>1. cs \in Seq(States) /\ gs \in Seq(Seq(BOOLEAN)) /\ Len(cs) = Len(gs) /\ Len(cs) \in Nat
  BY DEF Agree
<1>2. gs # << >> /\ Len(cs) \in 1 .. Len(cs) /\ Last(cs) = cs[Len(cs)] BY <1>1, LastFacts
<1> PICK n, cs2, gs2 :
      n = Len(cs) /\ cs2 = Append(Front(cs), st) /\ gs2 = Append(Front(gs), g) OBVIOUS
<1> PICK hd : hd = Front(cs) OBVIOUS
<1>3. /\ cs2 \in Seq(States) /\ Len(cs2) = n /\ cs2[n] = st
      /\ \A i \in 1 .. n - 1 : cs2[i] = cs[i]
  <2>1. /\ hd \in Seq(States) /\ Len(hd) = n - 1 /\ \A i \in 1 .. n - 1 : hd[i] = cs[i]
    BY <1>1, FrontFacts
  <2>2. /\ cs2 \in Seq(States) /\ Len(cs2) = Len(hd) + 1 /\ cs2[Len(hd) + 1] = st
        /\ \A i \in 1 .. Len(hd) : cs2[i] = hd[i]
    BY ONLY <2>1, st \in States, hd = Front(cs), cs2 = Append(Front(cs), st), AppendFacts
  <2>3. n \in Nat /\ Len(hd) + 1 = n
    BY <1>1, <2>1
  <2> QED BY ONLY <2>1, <2>2, <2>3
<1>4. /\ gs2 \in Seq(Seq(BOOLEAN)) /\ Len(gs2) = n /\ gs2[n] = g
      /\ \A i \in 1 .. n - 1 : gs2[i] = gs[i]
  <2> PICK h : h = Front(gs) OBVIOUS
  <2>1. h \in Seq(Seq(BOOLEAN)) /\ Len(h) = n - 1 /\ \A i \in 1 .. n - 1 : h[i] = gs[i]
    BY <1>1, <1>2, FrontFacts
  <2>2. /\ gs2 \in Seq(Seq(BOOLEAN)) /\ Len(gs2) = Len(h) + 1 /\ gs2[Len(h) + 1] = g
        /\ \A i \in 1 .. Len(h) : gs2[i] = h[i]
    BY ONLY <2>1, g \in Seq(BOOLEAN), h = Front(gs), gs2 = Append(Front(gs), g), AppendFacts
  <2>3. n \in Nat /\ Len(h) + 1 = n
    BY <1>1, <2>1
  <2> QED BY ONLY <2>1, <2>2, <2>3
<1>5. ASSUME NEW j \in 1 .. n
      PROVE  /\ gs2[j] # << >>
             /\ cs2[j].parent_active = \A k \in 1 .. j - 1 : FirstTrue(gs2[k])
             /\ Tells(cs2[j], gs2[j])
  <2>1. cs[j].parent_active = \A k \in 1 .. j - 1 : FirstTrue(gs[k]) BY DEF Agree
  <2>2. 1 .. j - 1 \subseteq 1 .. n - 1 BY <1>1
  <2>3. \A k \in 1 .. j - 1 : gs2[k] = gs[k] BY <2>2, <1>4
  <2>4. cs2[j].parent_active = cs[j].parent_active
    <3>1. CASE j = n BY <3>1, <1>2, <1>3
    <3>2. CASE j # n
      <4>1. j \in 1 .. n - 1 BY <3>2, <1>1
      <4> QED BY <4>1, <1>3
    <3> QED BY <3>1, <3>2
  <2>5. gs2[j] # << >> /\ Tells(cs2[j], gs2[j])
    <3>1. CASE j = n BY <3>1, <1>3, <1>4
    <3>2. CASE j # n
      <4>1. j \in 1 .. n - 1 BY <3>2, <1>1
      <4>2. gs[j] # << >> /\ Tells(cs[j], gs[j]) BY DEF Agree
      <4> QED BY <4>1, <4>2, <1>3, <1>4
    <3> QED BY <3>1, <3>2
  <2> QED BY <2>1, <2>3, <2>4, <2>5
<1> QED BY <1>3, <1>4, <1>5 DEF Agree

LEMMA LastTells ==
  ASSUME NEW cs, NEW gs, Agree(cs, gs), cs # << >>
  PROVE  /\ gs # << >> /\ Last(cs) \in States /\ Last(gs) \in Seq(BOOLEAN)
         /\ Tells(Last(cs), Last(gs))
<1>1. cs \in Seq(States) /\ gs \in Seq(Seq(BOOLEAN)) /\ Len(cs) = Len(gs) BY DEF Agree
<1>2. gs # << >> BY <1>1
<1>3. Len(cs) \in 1 .. Len(cs) /\ Last(cs) = cs[Len(cs)] /\ Last(cs) \in States
  BY <1>1, LastFacts
<1>4. Last(gs) = gs[Len(cs)] /\ Last(gs) \in Seq(BOOLEAN) BY <1>1, <1>2, LastFacts
<1> QED BY <1>2, <1>3, <1>4 DEF Agree

LEMMA ElifAgrees ==
  ASSUME NEW cs, NEW gs, Agree(cs, gs), cs # << >>, NEW c \in BOOLEAN
  PROVE  Agree(HandleElif(cs, c), Append(Front(gs), Append(Last(gs), c)))
<1> PICK s, g : s = Last(cs) /\ g = Last(gs) OBVIOUS
<1>1. s \in States /\ g \in Seq(BOOLEAN) /\ Tells(s, g) BY LastTells
<1> PICK st : st = Elif(s, c) OBVIOUS
<1>2. st \in States /\ st.parent_active = s.parent_active BY <1>1, StateTyped DEF Elif, States, State
<1>3. Tells(st, Append(g, c))
  <2>1. FirstTrue(Append(g, c)) = (c /\ ~SomeTrue(g)) /\ SomeTrue(Append(g, c)) = (c \/ SomeTrue(g))
    BY <1>1, MoreGroups
  <2>2. s.parent_active => s.any_branch_taken = SomeTrue(g) BY <1>1 DEF Tells
  <2>3. s.parent_active =>
          /\ st.any_branch_taken = (c \/ s.any_branch_taken)
          /\ st.current_branch_active = (c /\ ~s.any_branch_taken)
    BY <1>1 DEF Elif, States, State
  <2> QED BY <1>2, <2>1, <2>2, <2>3 DEF Tells
<1>4. Append(g, c) \in Seq(BOOLEAN) /\ Append(g, c) # << >> BY <1>1, MoreGroups
<1>5. HandleElif(cs, c) = Append(Front(cs), st) BY DEF HandleElif
<1> QED BY <1>2, <1>3, <1>4, <1>5, LastReplaced

LEMMA ElseAgrees ==
  ASSUME NEW cs, NEW gs, Agree(cs, gs), cs # << >>
  PROVE  Agree(HandleElse(cs), Append(Front(gs), Append(Last(gs), TRUE)))
<1> PICK s, g : s = Last(cs) /\ g = Last(gs) OBVIOUS
<1>1. s \in States /\ g \in Seq(BOOLEAN) /\ Tells(s, g) BY LastTells
<1> PICK st : st = Else(s) OBVIOUS
<1>2. st \in States /\ st.parent_active = s.parent_active BY <1>1 DEF Else, States, State
<1>3. Tells(st, Append(g, TRUE))
  <2>1. FirstTrue(Append(g, TRUE)) = ~SomeTrue(g) /\ SomeTrue(Append(g, TRUE)) = TRUE
    BY <1>1, MoreGroups DEF FirstTrue, SomeTrue
  <2>2. s.parent_active => s.any_branch_taken = SomeTrue(g) BY <1>1 DEF Tells
  <2>3. s.parent_active =>
          st.any_branch_taken = TRUE /\ st.current_branch_active = ~s.any_branch_taken
    BY <1>1 DEF Else, States, State
  <2> QED BY <1>2, <2>1, <2>2, <2>3 DEF Tells
<1>4. Append(g, TRUE) \in Seq(BOOLEAN) /\ Append(g, TRUE) # << >> BY <1>1, MoreGroups
<1>5. HandleElse(cs) = Append(Front(cs), st) BY DEF HandleElse
<1> QED BY <1>2, <1>3, <1>4, <1>5, LastReplaced

LEMMA EndifAgrees ==
  ASSUME NEW cs, NEW gs, Agree(cs, gs), cs # << >>
  PROVE  Agree(HandleEndif(cs), Front(gs))
<1>1. cs \in Seq(States) /\ gs \in Seq(Seq(BOOLEAN)) /\ Len(cs) = Len(gs) /\ Len(cs) \in Nat
  BY DEF Agree
<1>2. gs # << >> BY LastTells
<1> PICK n, cs2, gs2 : n = Len(cs) /\ cs2 = Front(cs) /\ gs2 = Front(gs) OBVIOUS
<1>3. cs2 \in Seq(States) /\ Len(cs2) = n - 1 /\ \A i \in 1 .. n - 1 : cs2[i] = cs[i]
  BY <1>1, FrontFacts
<1>4. gs2 \in Seq(Seq(BOOLEAN)) /\ Len(gs2) = n - 1 /\ \A i \in 1 .. n - 1 : gs2[i] = gs[i]
  BY <1>1, <1>2, FrontFacts
<1>5. ASSUME NEW j \in 1 .. n - 1
      PROVE  /\ gs2[j] # << >>
             /\ cs2[j].parent_active = \A k \in 1 .. j - 1 : FirstTrue(gs2[k])
             /\ Tells(cs2[j], gs2[j])
  <2>1. j \in 1 .. n /\ 1 .. j - 1 \subseteq 1 .. n - 1 BY <1>1
  <2>2. /\ gs[j] # << >> /\ Tells(cs[j], gs[j])
        /\ cs[j].parent_active = \A k \in 1 .. j - 1 : FirstTrue(gs[k])
    BY <2>1 DEF Agree
  <2>3. \A k \in 1 .. j - 1 : gs2[k] = gs[k] BY <2>1, <1>4
  <2> QED BY <2>2, <2>3, <1>3, <1>4
<1>6. Agree(cs2, gs2) BY <1>3, <1>4, <1>5 DEF Agree
<1> QED BY <1>6 DEF HandleEndif

-----------------------------------------------------------------------------
(* The files being read.                                                   *)

IsFrame(f) ==
    f = [file |-> f.file, how |-> f.how, at |-> f.at, pending |-> f.pending,
         conditionals |-> f.conditionals, groups |-> f.groups]
FrameOK(f) == IsFrame(f) /\ Agree(f.conditionals, f.groups)

AllOK(fs) == \E S : fs \in Seq(S) /\ \A f \in S : FrameOK(f)
FramesOK == AllOK(frames)

LEMMA SeqWider ==
  ASSUME NEW S, NEW T, S \subseteq T, NEW s \in Seq(S) PROVE s \in Seq(T)
OBVIOUS

LEMMA AppendOK ==
  ASSUME NEW fs, AllOK(fs), NEW f, FrameOK(f) PROVE AllOK(Append(fs, f))
<1>1. PICK S : fs \in Seq(S) /\ \A x \in S : FrameOK(x) BY DEF AllOK
<1> PICK T : T = S \union {f} OBVIOUS
<1>2. fs \in Seq(T) /\ f \in T BY <1>1, SeqWider
<1>3. Append(fs, f) \in Seq(T) BY <1>2, AppendFacts
<1>4. \A x \in T : FrameOK(x) BY <1>1
<1> QED BY <1>3, <1>4 DEF AllOK

LEMMA FrontOK == ASSUME NEW fs, AllOK(fs), fs # << >> PROVE AllOK(Front(fs)) /\ FrameOK(Last(fs))
<1>1. PICK S : fs \in Seq(S) /\ \A x \in S : FrameOK(x) BY DEF AllOK
<1>2. Front(fs) \in Seq(S) /\ Last(fs) \in S BY <1>1, FrontFacts, LastFacts
<1> QED BY <1>1, <1>2 DEF AllOK

LEMMA FrameEdits ==
  ASSUME NEW f, FrameOK(f), NEW x
  PROVE  /\ FrameOK([f EXCEPT !.pending = x])
         /\ FrameOK([f EXCEPT !.at = x])
<1> PICK a, b, c, d, e, g :
      f = [file |-> a, how |-> b, at |-> c, pending |-> d, conditionals |-> e, groups |-> g]
  BY DEF FrameOK, IsFrame
<1>1. [f EXCEPT !.pending = x] =
        [file |-> a, how |-> b, at |-> c, pending |-> x, conditionals |-> e, groups |-> g]
  OBVIOUS
<1>2. [f EXCEPT !.at = x] =
        [file |-> a, how |-> b, at |-> x, pending |-> d, conditionals |-> e, groups |-> g]
  OBVIOUS
<1>3. Agree(e, g) BY DEF FrameOK
<1> QED BY <1>1, <1>2, <1>3 DEF FrameOK, IsFrame

LEMMA NewFrame == ASSUME NEW f, NEW how PROVE FrameOK(Frame(f, how))
<1>1. Agree(<<>>, <<>>)
  <2>1. <<>> \in Seq(States) /\ <<>> \in Seq(Seq(BOOLEAN)) /\ Len(<<>>) = 0 /\ 1 .. 0 = {} OBVIOUS
  <2> QED BY <2>1 DEF Agree
<1> QED BY <1>1 DEF FrameOK, IsFrame, Frame

LEMMA AdvancedOK ==
  ASSUME FramesOK, frames # << >>, NEW f, FrameOK(f) PROVE AllOK(Advanced(f))
<1>1. FrameOK([f EXCEPT !.at = f.at + 1]) BY FrameEdits
<1>2. AllOK(Front(frames)) BY FrontOK DEF FramesOK
<1> QED BY <1>1, <1>2, AppendOK DEF Advanced

LEMMA TopOK == ASSUME FramesOK, frames # << >> PROVE FrameOK(Top)
BY FrontOK DEF FramesOK, Top

LEMMA LinesNeedFrames == ASSUME NEW l \in NextLines PROVE frames # << >>
BY DEF NextLines

LEMMA AccumulateOK ==
  ASSUME FramesOK, frames # << >>, NEW toks, Accumulate(toks) PROVE FramesOK'
<1> PICK w : w = Top.pending \o toks OBVIOUS
<1>1. FrameOK([Top EXCEPT !.pending = w]) /\ FrameOK([Top EXCEPT !.pending = <<>>])
  BY TopOK, FrameEdits
<1>2. frames' = Advanced([Top EXCEPT !.pending = w]) \/ frames' = Advanced([Top EXCEPT !.pending = <<>>])
  BY DEF Accumulate
<1> QED BY <1>1, <1>2, AdvancedOK DEF FramesOK

(* A directive leaves the flags of the innermost chain telling its groups. *)
LEMMA ChainOK ==
  ASSUME FramesOK, frames # << >>, NEW l, l.k \in {"ifdef", "ifndef", "elif", "else", "endif"}
  PROVE  Agree(Chain(l), Groups(l))
<1> PICK cs, gs, c : cs = Top.conditionals /\ gs = Top.groups /\ c = Condition(l) OBVIOUS
<1>1. Agree(cs, gs) BY TopOK DEF FrameOK
<1>2. c \in BOOLEAN BY DEF Condition
<1>3. cs = << >> <=> gs = << >>
  <2>1. cs \in Seq(States) /\ gs \in Seq(Seq(BOOLEAN)) /\ Len(cs) = Len(gs) BY <1>1 DEF Agree
  <2> QED BY <2>1
<1>4. CASE Opens(l)
  <2>1. Agree(PushIf(cs, IsActive(cs) /\ c), Append(gs, <<c>>)) BY <1>1, <1>2, PushAgrees
  <2>0. l.k \notin {"elif", "else", "endif"} BY <1>4 DEF Opens
  <2>2. Chain(l) = PushIf(cs, IsActive(cs) /\ c)
    <3>1. Chain(l) = PushIf(Top.conditionals, Active /\ Condition(l)) BY <1>4, <2>0 DEF Chain
    <3>2. (Active /\ Condition(l)) = (IsActive(cs) /\ c) BY DEF Active
    <3> QED BY <3>1, <3>2
  <2>3. Groups(l) = Append(gs, <<c>>) BY <1>4 DEF Groups
  <2> QED BY <2>1, <2>2, <2>3
<1>5. CASE l.k = "elif"
  <2>1. ~Opens(l) /\ l.k # "else" /\ l.k # "endif" BY <1>5 DEF Opens
  <2>2. Chain(l) = HandleElif(cs, c) BY <1>5, <2>1 DEF Chain
  <2>3. CASE cs = << >> BY <1>1, <1>3, <2>1, <2>2, <2>3 DEF Groups, HandleElif
  <2>4. CASE cs # << >>
    <3>1. Groups(l) = Append(Front(gs), Append(Last(gs), c)) BY <1>3, <2>1, <2>4 DEF Groups
    <3> QED BY <1>1, <1>2, <2>2, <2>4, <3>1, ElifAgrees
  <2> QED BY <2>3, <2>4
<1>6. CASE l.k = "else"
  <2>1. ~Opens(l) /\ l.k # "elif" /\ l.k # "endif" BY <1>6 DEF Opens
  <2>2. Chain(l) = HandleElse(cs) BY <1>6, <2>1 DEF Chain
  <2>3. CASE cs = << >> BY <1>1, <1>3, <2>1, <2>2, <2>3 DEF Groups, HandleElse
  <2>4. CASE cs # << >>
    <3>1. c = TRUE BY <1>6 DEF Condition
    <3>2. Groups(l) = Append(Front(gs), Append(Last(gs), TRUE)) BY <1>3, <2>1, <2>4, <3>1 DEF Groups
    <3> QED BY <1>1, <2>2, <2>4, <3>2, ElseAgrees
  <2> QED BY <2>3, <2>4
<1>7. CASE l.k = "endif"
  <2>1. ~Opens(l) /\ l.k # "elif" /\ l.k # "else" BY <1>7 DEF Opens
  <2>2. Chain(l) = HandleEndif(cs) BY <1>7, <2>1 DEF Chain
  <2>3. CASE cs = << >> BY <1>1, <1>3, <2>1, <2>2, <2>3 DEF Groups, HandleEndif
  <2>4. CASE cs # << >>
    <3>1. Groups(l) = Front(gs) BY <1>3, <1>7, <2>1, <2>4 DEF Groups
    <3> QED BY <1>1, <2>2, <2>4, <3>1, EndifAgrees
  <2> QED BY <2>3, <2>4
<1> QED BY <1>4, <1>5, <1>6, <1>7 DEF Opens

LEMMA ChainedOK ==
  ASSUME NEW f, FrameOK(f), NEW cs, NEW gs, Agree(cs, gs)
  PROVE  FrameOK([f EXCEPT !.conditionals = cs, !.groups = gs])
<1> PICK a, b, c, d, e, g :
      f = [file |-> a, how |-> b, at |-> c, pending |-> d, conditionals |-> e, groups |-> g]
  BY DEF FrameOK, IsFrame
<1>3. [f EXCEPT !.conditionals = cs, !.groups = gs] =
        [file |-> a, how |-> b, at |-> c, pending |-> d, conditionals |-> cs, groups |-> gs]
  <2> PICK f1 :
        f1 = [file |-> a, how |-> b, at |-> c, pending |-> d, conditionals |-> cs, groups |-> g]
    OBVIOUS
  <2>1. f1 = [f EXCEPT !.conditionals = cs] OBVIOUS
  <2>2. [f1 EXCEPT !.groups = gs] =
          [file |-> a, how |-> b, at |-> c, pending |-> d, conditionals |-> cs, groups |-> gs]
    OBVIOUS
  <2>3. [f EXCEPT !.conditionals = cs, !.groups = gs] =
          [[f EXCEPT !.conditionals = cs] EXCEPT !.groups = gs]
    OBVIOUS
  <2> QED BY <2>1, <2>2, <2>3
<1> QED BY <1>3 DEF FrameOK, IsFrame

LEMMA UnpendedOK == ASSUME NEW f, FrameOK(f) PROVE FrameOK(Unpended(f))
BY FrameEdits DEF Unpended

LEMMA TakenOK == ASSUME FramesOK, frames # << >>, NEW l, TakenForText(l) PROVE FramesOK'
<1>1. CASE Active BY <1>1, AccumulateOK DEF TakenForText
<1>2. CASE ~Active BY <1>2, TopOK, AdvancedOK DEF TakenForText, FramesOK
<1> QED BY <1>1, <1>2

LEMMA FramesStep == FramesOK /\ [Next]_vars => FramesOK'
<1> SUFFICES ASSUME FramesOK, [Next]_vars PROVE FramesOK' OBVIOUS
<1>1. CASE Start
  <2>1. PICK m, g : m = Frame(Main, "main") /\ g = Frame(forced, "force") OBVIOUS
  <2>2. FrameOK(m) /\ FrameOK(g) BY <2>1, NewFrame
  <2>3. frames' = <<m>> \o <<>> \/ frames' = <<m>> \o <<g>> BY <1>1, <2>1 DEF Start
  <2> PICK S : S = {m, g} OBVIOUS
  <2>4. frames' \in Seq(S)
    <3>1. <<m>> \in Seq(S) /\ <<g>> \in Seq(S) /\ <<>> \in Seq(S) OBVIOUS
    <3>2. \A r, t \in Seq(S) : r \o t \in Seq(S) OBVIOUS
    <3> QED BY <2>3, <3>1, <3>2
  <2> QED BY <2>2, <2>4 DEF FramesOK, AllOK
<1>2. CASE Text
  <2>1. PICK l \in NextLines : IF Active THEN Accumulate(l.toks) ELSE frames' = Advanced(Top)
    BY <1>2 DEF Text
  <2>2. frames # << >> BY <2>1, LinesNeedFrames
  <2>3. CASE Active BY <2>1, <2>2, <2>3, AccumulateOK
  <2>4. CASE ~Active BY <2>1, <2>2, <2>4, TopOK, AdvancedOK DEF FramesOK
  <2> QED BY <2>3, <2>4
<1>3. CASE Conditional
  <2>1. PICK l \in NextLines :
          /\ l.k \in {"ifdef", "ifndef", "elif", "else", "endif"}
          /\ frames' = Advanced([Top EXCEPT !.conditionals = Chain(l), !.groups = Groups(l)])
    BY <1>3 DEF Conditional
  <2>2. frames # << >> BY <2>1, LinesNeedFrames
  <2> PICK cs, gs : cs = Chain(l) /\ gs = Groups(l) OBVIOUS
  <2> PICK top : top = [Top EXCEPT !.conditionals = cs, !.groups = gs] OBVIOUS
  <2>3. FrameOK(top)
    <3> PICK f : f = Top OBVIOUS
    <3>1. FrameOK(f) /\ Agree(cs, gs) BY <2>1, <2>2, TopOK, ChainOK
    <3>2. top = [f EXCEPT !.conditionals = cs, !.groups = gs] OBVIOUS
    <3> QED BY ONLY <3>1, <3>2, ChainedOK
  <2>4. frames' = Advanced(top) BY <2>1
  <2> QED BY <2>2, <2>3, <2>4, AdvancedOK DEF FramesOK
<1>4. CASE Define
  <2>1. PICK l \in NextLines : frames' = Advanced(Unpended(Top)) BY <1>4 DEF Define
  <2>2. frames # << >> BY <2>1, LinesNeedFrames
  <2> QED BY <2>1, <2>2, TopOK, UnpendedOK, AdvancedOK DEF FramesOK
<1>5. CASE Pragma
  <2>1. PICK l \in NextLines : TakenForText(l) \/ frames' = Advanced(Top) BY <1>5 DEF Pragma
  <2>2. frames # << >> BY <2>1, LinesNeedFrames
  <2>3. CASE TakenForText(l) BY <2>2, <2>3, TakenOK
  <2>4. CASE frames' = Advanced(Top) BY <2>2, <2>4, TopOK, AdvancedOK DEF FramesOK
  <2> QED BY <2>1, <2>3, <2>4
<1>6. CASE Include
  <2>1. PICK l \in NextLines :
          \/ TakenForText(l)
          \/ frames' = Advanced(Unpended(Top))
                       \o (IF ~Active \/ Skipped(l.file) THEN <<>> ELSE <<Frame(l.file, "include")>>)
    BY <1>6 DEF Include
  <2>2. frames # << >> BY <2>1, LinesNeedFrames
  <2>3. CASE TakenForText(l) BY <2>2, <2>3, TakenOK
  <2>4. CASE ~TakenForText(l)
    <3> PICK fs, g : fs = Advanced(Unpended(Top)) /\ g = Frame(l.file, "include") OBVIOUS
    <3>1. AllOK(fs) BY <2>2, TopOK, UnpendedOK, AdvancedOK
    <3>2. PICK S : fs \in Seq(S) BY <3>1 DEF AllOK
    <3>3. fs \o <<>> = fs BY <3>2
    <3>4. fs \o <<g>> = Append(fs, g) BY <3>2
    <3>5. AllOK(Append(fs, g)) BY <3>1, NewFrame, AppendOK
    <3>6. frames' = fs \o <<>> \/ frames' = fs \o <<g>> BY <2>1, <2>4
    <3> QED BY <3>1, <3>3, <3>4, <3>5, <3>6 DEF FramesOK
  <2> QED BY <2>3, <2>4
<1>7. CASE EndOfFile
  <2>1. frames' = Front(frames) BY <1>7 DEF EndOfFile
  <2>2. CASE frames # << >> BY <2>1, <2>2, FrontOK DEF FramesOK
  <2>3. CASE frames = << >>
    <3>1. frames' = << >> BY <2>1, <2>3 DEF Front
    <3> QED BY <2>3, <3>1 DEF FramesOK
  <2> QED BY <2>2, <2>3
<1>8. CASE EndOfMain
  <2>1. frames' \in Seq({}) BY <1>8 DEF EndOfMain
  <2> QED BY <2>1 DEF FramesOK, AllOK
<1>9. CASE Done \/ UNCHANGED vars BY <1>9 DEF Done, vars, FramesOK
<1> QED BY <1>1, <1>2, <1>3, <1>4, <1>5, <1>6, <1>7, <1>8, <1>9 DEF Next

(* Whatever files are read, however deep their chains nest, text is kept   *)
(* in exactly the groups C keeps: of every open chain the first whose      *)
(* condition holds.                                                        *)
THEOREM KeepsFirstGroup == Spec => []FirstGroupKept
<1>1. Init => FramesOK
  <2>1. Init => frames \in Seq({}) BY DEF Init
  <2> QED BY <2>1 DEF FramesOK, AllOK
<1>2. FramesOK /\ [Next]_vars => FramesOK' BY FramesStep
<1>3. FramesOK => FirstGroupKept
  <2> SUFFICES ASSUME FramesOK, NEW i \in DOMAIN frames
               PROVE  IsActive(frames[i].conditionals) = Kept(frames[i].groups)
    BY DEF FirstGroupKept
  <2>1. PICK S : frames \in Seq(S) /\ \A f \in S : FrameOK(f) BY DEF FramesOK, AllOK
  <2>2. FrameOK(frames[i]) BY <2>1
  <2> QED BY <2>2, ActiveIsKept DEF FrameOK
<1> QED BY <1>1, <1>2, <1>3, PTL DEF Spec

-----------------------------------------------------------------------------
(***************************************************************************)
(* The types, and the depth of inclusion: no file is read more often at a  *)
(* time than the limit allows, so however files include each other there   *)
(* are never more frames than files times the limit.                       *)
(***************************************************************************)
(* Where each value occurs at most k times there are at most k of each.    *)
LEMMA Pigeonhole ==
  ASSUME NEW I, IsFiniteSet(I), NEW D, IsFiniteSet(D), NEW k \in Nat, NEW g,
         \A i \in I : g[i] \in D,
         \A d \in D : Cardinality({i \in I : g[i] = d}) <= k
  PROVE  Cardinality(I) <= k * Cardinality(D)
<1> DEFINE Over(E) == {i \in I : g[i] \in E}
           n == Cardinality(D)
           T == {m \in 0 .. n : \A E \in SUBSET D : Cardinality(E) = m => Cardinality(Over(E)) <= k * m}
<1>1. n \in Nat
  BY FS_CardinalityType
<1>2. ASSUME NEW E \in SUBSET D
      PROVE  /\ IsFiniteSet(E) /\ Cardinality(E) \in Nat
             /\ IsFiniteSet(Over(E)) /\ Cardinality(Over(E)) \in Nat
  <2>1. IsFiniteSet(E) /\ IsFiniteSet(Over(E))
    BY FS_Subset
  <2> QED BY <2>1, FS_CardinalityType
<1>3. 0 \in T
  <2> SUFFICES ASSUME NEW E \in SUBSET D, Cardinality(E) = 0 PROVE Cardinality(Over(E)) <= k * 0
    BY <1>1
  <2>1. E = {}
    BY <1>2, FS_EmptySet
  <2>2. Over(E) = {}
    BY <2>1
  <2> QED BY <2>2, FS_EmptySet
<1>4. ASSUME NEW m \in 0 .. n - 1, m \in T PROVE m + 1 \in T
  <2> SUFFICES ASSUME NEW E \in SUBSET D, Cardinality(E) = m + 1
               PROVE  Cardinality(Over(E)) <= k * (m + 1)
    BY <1>1
  <2>1. E # {}
    BY FS_EmptySet
  <2> PICK d \in E : TRUE
    BY <2>1
  <2> PICK F : F = E \ {d}
    OBVIOUS
  <2>2. F \in SUBSET D /\ Cardinality(F) = m
    <3>1. IsFiniteSet(E)
      BY <1>2
    <3>2. Cardinality(F) = Cardinality(E) - 1
      BY ONLY <3>1, d \in E, F = E \ {d}, FS_RemoveElement
    <3> QED BY <3>2
  <2>3. Cardinality(Over(F)) <= k * m
    BY <1>4, <2>2
  <2> PICK A, B : A = Over(F) /\ B = {i \in I : g[i] = d}
    OBVIOUS
  <2>4. Over(E) = A \union B
    OBVIOUS
  <2>5. Cardinality(B) <= k
    OBVIOUS
  <2>6. IsFiniteSet(A) /\ IsFiniteSet(B) /\ IsFiniteSet(A \cap B)
    BY FS_Subset
  <2>7. /\ Cardinality(A) \in Nat /\ Cardinality(B) \in Nat /\ Cardinality(A \cap B) \in Nat
        /\ Cardinality(A \union B) = Cardinality(A) + Cardinality(B) - Cardinality(A \cap B)
    BY <2>6, FS_CardinalityType, FS_Union
  <2> PICK a, b, c, u : /\ a = Cardinality(A) /\ b = Cardinality(B) /\ c = Cardinality(A \cap B)
                        /\ u = Cardinality(A \union B)
    OBVIOUS
  <2>8. a \in Nat /\ b \in Nat /\ c \in Nat /\ u = a + b - c /\ a <= k * m /\ b <= k
    BY <2>3, <2>5, <2>7
  <2>9. k * (m + 1) = k * m + k /\ k * m \in Nat
    OBVIOUS
  <2>10. u <= k * m + k
    BY ONLY <2>8, <2>9, k \in Nat
  <2> QED BY <2>4, <2>9, <2>10
<1> HIDE DEF T
<1>5. n \in T
  BY <1>1, <1>3, <1>4, UpTo
<1>6. Over(D) = I
  OBVIOUS
<1> QED BY <1>5, <1>6 DEF T

(* The frames that read a file.                                            *)
Readers(fs, f) == {i \in 1 .. Len(fs) : fs[i].file = f}

Nested(fs) ==
  /\ Len(fs) >= 1
  /\ \A i \in 1 .. Len(fs) :
       fs[i].at \in Nat /\ IF i = 1 THEN fs[i].file = Main ELSE fs[i].file \in DOMAIN text
  /\ \A f \in DOMAIN text : Cardinality(Readers(fs, f)) <= MaxDepth

Definition == Bodies \union {Absent}
Macros == Names \union {Fun}

TablesOK ==
  /\ macros \in [Macros -> Definition] /\ saves \in [Macros -> Seq(Definition)]
  /\ guards \in [DOMAIN text -> Names \union {Absent}]
  /\ once \subseteq DOMAIN text \union {Main}

MainOK == \E S : main \in Seq(S) /\ Len(main) <= MaxMain

TInv ==
  /\ text \in Texts /\ forced \in DOMAIN text \union {Absent}
  /\ status \in {"start", "run", "done", "error"}
  /\ FramesOK /\ IF status = "run" THEN Nested(frames) ELSE frames = << >>
  /\ TablesOK /\ MainOK

LEMMA TypedFrames == ASSUME FramesOK PROVE \E S : frames \in Seq(S) /\ \A f \in S : FrameOK(f)
BY DEF FramesOK, AllOK

LEMMA FramesLen ==
  ASSUME FramesOK
  PROVE  /\ Len(frames) \in Nat /\ DOMAIN frames = 1 .. Len(frames)
         /\ \A i \in 1 .. Len(frames) : FrameOK(frames[i])
<1>1. PICK S : frames \in Seq(S) /\ \A f \in S : FrameOK(f)
  BY TypedFrames
<1> QED BY <1>1

LEMMA ReadersFinite ==
  ASSUME NEW fs, Len(fs) \in Nat, NEW f
  PROVE  IsFiniteSet(Readers(fs, f)) /\ Cardinality(Readers(fs, f)) \in Nat
<1>1. IsFiniteSet(1 .. Len(fs)) /\ Readers(fs, f) \in SUBSET (1 .. Len(fs))
  BY FS_Interval DEF Readers
<1> QED BY <1>1, FS_Subset, FS_CardinalityType

LEMMA DepthBound ==
  ASSUME TInv PROVE Len(frames) <= 1 + MaxDepth * Cardinality(DOMAIN text)
<1> PICK k, c : k = MaxDepth /\ c = Cardinality(DOMAIN text)
  OBVIOUS
<1>1. IsFiniteSet(DOMAIN text) /\ k \in Nat /\ c \in Nat
  BY TextsAssumption, FS_CardinalityType DEF TInv
<1>2. k * c \in Nat
  BY <1>1
<1>3. CASE status = "run"
  <2>1. Nested(frames) /\ FramesOK
    BY <1>3 DEF TInv
  <2> PICK n : n = Len(frames)
    OBVIOUS
  <2>2. n \in Nat /\ n >= 1
    BY <2>1, FramesLen DEF Nested
  <2> DEFINE I == 2 .. n
             g == [i \in I |-> frames[i].file]
  <2>3. IsFiniteSet(I) /\ Cardinality(I) = n - 1
    <3>1. 2 \in Int /\ n \in Int
      BY <2>2
    <3>2. IsFiniteSet(2 .. n) /\ Cardinality(2 .. n) = IF 2 > n THEN 0 ELSE n - 2 + 1
      BY ONLY <3>1, FS_Interval
    <3> QED BY <2>2, <3>2
  <2>4. \A i \in I : g[i] \in DOMAIN text
    BY <2>1, <2>2 DEF Nested
  <2>5. ASSUME NEW d \in DOMAIN text PROVE Cardinality({i \in I : g[i] = d}) <= k
    <3>1. {i \in I : g[i] = d} \in SUBSET Readers(frames, d)
      BY <2>2 DEF Readers
    <3>2. /\ IsFiniteSet(Readers(frames, d)) /\ Cardinality(Readers(frames, d)) \in Nat
          /\ Cardinality(Readers(frames, d)) <= k
      BY <2>1, <2>2, ReadersFinite DEF Nested
    <3>3. Cardinality({i \in I : g[i] = d}) <= Cardinality(Readers(frames, d))
      BY <3>1, <3>2, FS_Subset
    <3>4. Cardinality({i \in I : g[i] = d}) \in Nat
      BY <3>1, <3>2, FS_Subset, FS_CardinalityType
    <3> QED BY <3>2, <3>3, <3>4, <1>1
  <2> HIDE DEF I, g
  <2>6. Cardinality(I) <= k * c
    BY <2>3, <2>4, <2>5, <1>1, Pigeonhole
  <2> QED BY <2>2, <2>3, <2>6, <1>2
<1>4. CASE status # "run"
  <2>1. Len(frames) = 0
    BY <1>4 DEF TInv
  <2> QED BY <2>1, <1>2
<1> QED BY <1>3, <1>4

LEMMA TypedByInv == ASSUME TInv PROVE TypeOK
<1>1. text \in Texts /\ FramesOK /\ TablesOK /\ MainOK /\ Main \notin DOMAIN text
  BY TextsAssumption DEF TInv
<1>2. Len(main) <= MaxMain
  BY <1>1 DEF MainOK
<1>3. ASSUME NEW i \in DOMAIN frames
      PROVE  /\ frames[i].file = Main <=> i = 1
             /\ Reads(frames[i].file)
             /\ Len(frames[i].groups) = Len(frames[i].conditionals)
  <2>1. i \in 1 .. Len(frames) /\ FrameOK(frames[i]) /\ frames # << >>
    BY <1>1, FramesLen
  <2>2. Nested(frames)
    BY <2>1 DEF TInv
  <2>3. IF i = 1 THEN frames[i].file = Main ELSE frames[i].file \in DOMAIN text
    BY <2>1, <2>2 DEF Nested
  <2>4. Len(frames[i].groups) = Len(frames[i].conditionals)
    BY <2>1 DEF FrameOK, Agree
  <2> QED BY <1>1, <2>3, <2>4 DEF Reads
<1>4. ASSUME NEW m \in Names \union {Fun}
      PROVE  Body(macros[m]) /\ \A j \in DOMAIN saves[m] : Body(saves[m][j])
  BY <1>1 DEF TablesOK, Macros, Definition, Body
<1>5. \A f \in DOMAIN text : guards[f] \in Names \union {Absent}
  BY <1>1 DEF TablesOK
<1>6. \A f \in once : Reads(f)
  BY <1>1 DEF TablesOK, Reads
<1>7. status \in {"start", "run", "done", "error"}
  BY DEF TInv
<1> QED BY <1>2, <1>3, <1>4, <1>5, <1>6, <1>7, DepthBound DEF TypeOK

-----------------------------------------------------------------------------
(* What steps do to the frames.                                            *)

LEMMA Edited ==
  ASSUME NEW f, FrameOK(f), NEW x, NEW y
  PROVE  /\ [f EXCEPT !.pending = x].file = f.file /\ [f EXCEPT !.pending = x].at = f.at
         /\ [f EXCEPT !.at = x].file = f.file /\ [f EXCEPT !.at = x].at = x
         /\ [f EXCEPT !.conditionals = x, !.groups = y].file = f.file
         /\ [f EXCEPT !.conditionals = x, !.groups = y].at = f.at
<1> PICK a, b, c, d, e, g :
      f = [file |-> a, how |-> b, at |-> c, pending |-> d, conditionals |-> e, groups |-> g]
  BY DEF FrameOK, IsFrame
<1> QED OBVIOUS

LEMMA NestedAlike ==
  ASSUME NEW fs, NEW gs, Nested(fs), Len(gs) = Len(fs),
         \A i \in 1 .. Len(fs) : gs[i].file = fs[i].file /\ gs[i].at \in Nat
  PROVE  Nested(gs)
<1>1. \A f : Readers(gs, f) = Readers(fs, f)
  BY DEF Readers
<1> QED BY <1>1 DEF Nested

LEMMA NestedPrime == ASSUME text' = text, Nested(frames') PROVE Nested(frames)'
BY DEF Nested, Readers

(* The top frame has read one more line.                                   *)
LEMMA NestedAdvanced ==
  ASSUME FramesOK, Nested(frames), NEW f, FrameOK(f), f.file = Top.file, f.at = Top.at
  PROVE  /\ Nested(Advanced(f)) /\ AllOK(Advanced(f)) /\ Len(Advanced(f)) = Len(frames)
         /\ \A x : Readers(Advanced(f), x) = Readers(frames, x)
<1>1. PICK S : frames \in Seq(S) /\ \A x \in S : FrameOK(x)
  BY TypedFrames
<1>2. frames # << >> /\ Len(frames) \in Nat /\ Len(frames) >= 1
  BY <1>1 DEF Nested
<1> PICK e : e = [f EXCEPT !.at = f.at + 1]
  OBVIOUS
<1> PICK U, n : U = S \union {e} /\ n = Len(frames)
  OBVIOUS
<1>3. e.file = f.file /\ e.at = f.at + 1
  BY Edited
<1>4. frames \in Seq(U) /\ e \in U
  BY <1>1, SeqWider
<1> PICK gs : gs = Append(Front(frames), e)
  OBVIOUS
<1>5. Len(gs) = n /\ gs[n] = e /\ \A i \in 1 .. n - 1 : gs[i] = frames[i]
  BY <1>2, <1>4, ReplaceFacts
<1>6. Top = frames[n] /\ n \in 1 .. n
  BY <1>1, <1>2, LastFacts DEF Top
<1>7. \A i \in 1 .. n : frames[i].at \in Nat
  BY DEF Nested
<1>8. ASSUME NEW i \in 1 .. n PROVE gs[i].file = frames[i].file /\ gs[i].at \in Nat
  <2>1. CASE i = n
    BY <2>1, <1>3, <1>5, <1>6, <1>7
  <2>2. CASE i # n
    <3>1. i \in 1 .. n - 1
      BY <2>2, <1>2
    <3> QED BY <3>1, <1>5, <1>7
  <2> QED BY <2>1, <2>2
<1>9. Nested(gs)
  BY <1>5, <1>8, NestedAlike
<1>10. \A x : Readers(gs, x) = Readers(frames, x)
  BY <1>5, <1>8 DEF Readers
<1>11. Advanced(f) = gs
  BY DEF Advanced
<1> QED BY <1>2, <1>5, <1>9, <1>10, <1>11, AdvancedOK

LEMMA NestedTop ==
  ASSUME FramesOK, Nested(frames)
  PROVE  /\ FrameOK(Top) /\ Top.at \in Nat /\ frames # << >> /\ Top = frames[Len(frames)]
         /\ Len(frames) \in Nat /\ Len(frames) >= 1
         /\ IF Len(frames) = 1 THEN Top.file = Main ELSE Top.file \in DOMAIN text
<1>1. PICK S : frames \in Seq(S) /\ \A x \in S : FrameOK(x)
  BY TypedFrames
<1>2. frames # << >> /\ Len(frames) \in Nat /\ Len(frames) >= 1
  BY <1>1 DEF Nested
<1>3. Top = frames[Len(frames)] /\ Len(frames) \in 1 .. Len(frames) /\ FrameOK(Top)
  BY <1>1, <1>2, LastFacts DEF Top
<1> QED BY <1>2, <1>3 DEF Nested

LEMMA NestedAccumulate ==
  ASSUME FramesOK, Nested(frames), NEW toks, Accumulate(toks) PROVE Nested(frames')
<1> PICK w : w = Top.pending \o toks
  OBVIOUS
<1>1. FrameOK(Top)
  BY NestedTop
<1>2. ASSUME NEW x PROVE Nested(Advanced([Top EXCEPT !.pending = x]))
  BY <1>1, FrameEdits, Edited, NestedAdvanced
<1>3. frames' = Advanced([Top EXCEPT !.pending = w]) \/ frames' = Advanced([Top EXCEPT !.pending = <<>>])
  BY DEF Accumulate
<1> QED BY <1>2, <1>3

LEMMA NestedTaken ==
  ASSUME FramesOK, Nested(frames), NEW l, TakenForText(l) PROVE Nested(frames')
<1>1. CASE Active
  BY <1>1, NestedAccumulate DEF TakenForText
<1>2. CASE ~Active
  BY <1>2, NestedTop, NestedAdvanced DEF TakenForText
<1> QED BY <1>1, <1>2

(* A file is included that is not being read too often.                    *)
LEMMA NestedAppend ==
  ASSUME NEW fs, AllOK(fs), Nested(fs), NEW f \in DOMAIN text,
         Cardinality(Readers(fs, f)) < MaxDepth, MaxDepth \in Nat, NEW e, e.file = f, e.at = 0
  PROVE  Nested(Append(fs, e))
<1>1. PICK S : fs \in Seq(S)
  BY DEF AllOK
<1> PICK gs, n : gs = Append(fs, e) /\ n = Len(fs)
  OBVIOUS
<1>2. /\ n \in Nat /\ n >= 1 /\ Len(gs) = n + 1 /\ gs[n + 1] = e
      /\ \A i \in 1 .. n : gs[i] = fs[i]
  <2>1. fs \in Seq(S \union {e}) /\ e \in S \union {e}
    BY <1>1, SeqWider
  <2> QED BY <1>1, <2>1, AppendFacts DEF Nested
<1>3. \A i \in 1 .. n + 1 : i \in 1 .. n \/ i = n + 1
  BY <1>2
<1>4. ASSUME NEW x \in DOMAIN text PROVE Cardinality(Readers(gs, x)) <= MaxDepth
  <2> PICK R : R = Readers(fs, x)
    OBVIOUS
  <2>1. IsFiniteSet(R) /\ Cardinality(R) \in Nat
    BY <1>2, ReadersFinite
  <2>2. Cardinality(R) <= MaxDepth
    BY DEF Nested
  <2>3. CASE x = f
    <3>1. Readers(gs, x) = R \union {n + 1}
      BY <2>3, <1>2, <1>3 DEF Readers
    <3> PICK c, d : c = Cardinality(R) /\ d = Cardinality(R \union {n + 1})
      OBVIOUS
    <3>2. d = c \/ d = c + 1
      BY ONLY <2>1, c = Cardinality(R), d = Cardinality(R \union {n + 1}), FS_AddElement
    <3>3. c < MaxDepth /\ c \in Nat
      BY <2>1, <2>3
    <3>4. d <= MaxDepth
      BY ONLY <3>2, <3>3, MaxDepth \in Nat
    <3> QED BY <3>1, <3>4
  <2>4. CASE x # f
    <3>1. Readers(gs, x) = R
      BY <2>4, <1>2, <1>3 DEF Readers
    <3> QED BY <2>2, <3>1
  <2> QED BY <2>3, <2>4
<1>5. ASSUME NEW i \in 1 .. n + 1
      PROVE  gs[i].at \in Nat /\ IF i = 1 THEN gs[i].file = Main ELSE gs[i].file \in DOMAIN text
  BY <1>2, <1>3 DEF Nested
<1> QED BY <1>2, <1>4, <1>5 DEF Nested

LEMMA NestedFront ==
  ASSUME FramesOK, Nested(frames), Len(frames) # 1 PROVE Nested(Front(frames))
<1>1. PICK S : frames \in Seq(S)
  BY TypedFrames
<1> PICK gs, n : gs = Front(frames) /\ n = Len(frames)
  OBVIOUS
<1>2. n \in Nat /\ n >= 2 /\ Len(gs) = n - 1 /\ \A i \in 1 .. n - 1 : gs[i] = frames[i]
  <2>1. frames # << >> /\ n \in Nat /\ n >= 1
    BY NestedTop
  <2> QED BY <1>1, <2>1, FrontFacts
<1>3. 1 .. n - 1 \subseteq 1 .. n
  BY <1>2
<1>4. ASSUME NEW x \in DOMAIN text PROVE Cardinality(Readers(gs, x)) <= MaxDepth
  <2>1. Readers(gs, x) \in SUBSET Readers(frames, x)
    BY <1>2, <1>3 DEF Readers
  <2>2. /\ IsFiniteSet(Readers(frames, x)) /\ Cardinality(Readers(frames, x)) \in Nat
        /\ Cardinality(Readers(gs, x)) \in Nat
    BY <1>2, ReadersFinite
  <2>3. Cardinality(Readers(frames, x)) <= MaxDepth /\ MaxDepth \in Nat
    BY TextsAssumption DEF Nested
  <2>4. Cardinality(Readers(gs, x)) <= Cardinality(Readers(frames, x))
    BY <2>1, <2>2, FS_Subset
  <2> QED BY <2>2, <2>3, <2>4
<1> QED BY <1>2, <1>3, <1>4 DEF Nested

-----------------------------------------------------------------------------
(* The steps.                                                              *)

LEMMA LineRead ==
  ASSUME TInv, NEW l \in NextLines
  PROVE  status = "run" /\ FramesOK /\ Nested(frames) /\ LineOf(DOMAIN text, l)
<1>1. status = "run" /\ frames # << >>
  BY DEF NextLines
<1>2. FramesOK /\ Nested(frames) /\ text \in Texts
  BY <1>1 DEF TInv
<1>3. CASE InMain
  <2>1. l \in MainLines
    BY <1>1, <1>3 DEF NextLines
  <2> QED BY <1>1, <1>2, <2>1, TextsAssumption
<1>4. CASE ~InMain
  <2>1. Top.at < Len(text[Top.file]) /\ l = text[Top.file][Top.at + 1]
    BY <1>1, <1>4 DEF NextLines
  <2>2. Top.file \in DOMAIN text /\ Top.at \in Nat
    BY <1>2, <1>4, NestedTop DEF InMain
  <2> PICK f, n : f = Top.file /\ n = Top.at
    OBVIOUS
  <2>3. /\ Len(text[f]) \in Nat
        /\ \A i \in 1 .. Len(text[f]) : LineOf(DOMAIN text, text[f][i])
    BY <1>2, <2>2, TextsAssumption
  <2>4. n + 1 \in 1 .. Len(text[f])
    BY <2>1, <2>2, <2>3
  <2> QED BY <1>1, <1>2, <2>1, <2>3, <2>4
<1> QED BY <1>3, <1>4

LEMMA MainRead == ASSUME MainOK, NEW l \in NextLines, Reading(l) PROVE MainOK'
<1>1. PICK S : main \in Seq(S) /\ Len(main) <= MaxMain
  BY DEF MainOK
<1>2. CASE InMain
  <2>1. Len(main) < MaxMain
    BY <1>2 DEF NextLines
  <2> PICK U : U = S \union {l}
    OBVIOUS
  <2>2. main \in Seq(U) /\ l \in U
    BY <1>1, SeqWider
  <2>3. main' \in Seq(U) /\ Len(main') = Len(main) + 1
    BY <1>2, <2>2, AppendFacts DEF Reading
  <2>4. Len(main) \in Nat /\ MaxMain \in Nat
    BY <1>1, TextsAssumption
  <2> QED BY <2>1, <2>3, <2>4 DEF MainOK
<1>3. CASE ~InMain
  BY <1>1, <1>3 DEF Reading, MainOK
<1> QED BY <1>2, <1>3

LEMMA TablesKept == ASSUME TablesOK, text' = text, UNCHANGED tables PROVE TablesOK'
BY DEF TablesOK, tables

LEMMA StartTyped ==
  ASSUME TInv, Start PROVE Nested(frames') /\ TablesOK' /\ MainOK'
<1>1. text' = text /\ main' = main /\ UNCHANGED tables
  BY DEF Start
<1>2. MaxDepth \in Nat /\ MaxDepth >= 1 /\ Main \notin DOMAIN text
  BY TextsAssumption DEF TInv
<1> PICK m, g : m = Frame(Main, "main") /\ g = Frame(forced, "force")
  OBVIOUS
<1>3. m.file = Main /\ m.at = 0 /\ g.file = forced /\ g.at = 0
  BY DEF Frame
<1>4. \/ frames' = <<m>> \o <<>>
      \/ forced \in DOMAIN text /\ frames' = <<m>> \o <<g>>
  BY DEF Start, TInv
<1> PICK one, two : one = <<m>> /\ two = <<m, g>>
  OBVIOUS
<1>5. frames' = one \/ (forced \in DOMAIN text /\ frames' = two)
  BY <1>4
<1>6. Nested(one)
  <2>1. Len(one) = 1 /\ one[1] = m
    OBVIOUS
  <2>2. \A f \in DOMAIN text : Readers(one, f) = {}
    BY <2>1, <1>2, <1>3 DEF Readers
  <2> QED BY <2>1, <2>2, <1>2, <1>3, FS_EmptySet DEF Nested
<1>7. ASSUME forced \in DOMAIN text PROVE Nested(two)
  <2>1. Len(two) = 2 /\ two[1] = m /\ two[2] = g
    OBVIOUS
  <2>2. ASSUME NEW f \in DOMAIN text PROVE Cardinality(Readers(two, f)) <= MaxDepth
    <3>1. Readers(two, f) \in SUBSET {2}
      BY <2>1, <1>2, <1>3 DEF Readers
    <3>2. IsFiniteSet({2}) /\ Cardinality({2}) = 1
      BY FS_Singleton
    <3>3. Cardinality(Readers(two, f)) <= 1 /\ Cardinality(Readers(two, f)) \in Nat
      BY <3>1, <3>2, FS_Subset, FS_CardinalityType
    <3> QED BY <3>3, <1>2
  <2>3. \A i \in 1 .. 2 : i = 1 \/ i = 2
    OBVIOUS
  <2> QED BY <2>1, <2>2, <2>3, <1>3, <1>7 DEF Nested
<1> QED BY <1>1, <1>5, <1>6, <1>7, TablesKept DEF TInv, MainOK

LEMMA TextTyped ==
  ASSUME TInv, Text PROVE Nested(frames') /\ TablesOK' /\ MainOK'
<1>1. PICK l \in NextLines :
        /\ Reading(l) /\ text' = text /\ UNCHANGED tables
        /\ IF Active THEN Accumulate(l.toks) ELSE frames' = Advanced(Top)
  BY DEF Text
<1>2. FramesOK /\ Nested(frames) /\ TablesOK /\ MainOK
  BY LineRead DEF TInv
<1>3. Nested(frames')
  <2>1. CASE Active
    BY <1>1, <1>2, <2>1, NestedAccumulate
  <2>2. CASE ~Active
    BY <1>1, <1>2, <2>2, NestedTop, NestedAdvanced
  <2> QED BY <2>1, <2>2
<1> QED BY <1>1, <1>2, <1>3, TablesKept, MainRead

LEMMA ConditionalTyped ==
  ASSUME TInv, Conditional PROVE Nested(frames') /\ TablesOK' /\ MainOK'
<1>1. PICK l \in NextLines :
        /\ l.k \in {"ifdef", "ifndef", "elif", "else", "endif"}
        /\ Reading(l) /\ text' = text /\ UNCHANGED tables
        /\ frames' = Advanced([Top EXCEPT !.conditionals = Chain(l), !.groups = Groups(l)])
  BY DEF Conditional
<1>2. FramesOK /\ Nested(frames) /\ TablesOK /\ MainOK
  BY LineRead DEF TInv
<1> PICK cs, gs : cs = Chain(l) /\ gs = Groups(l)
  OBVIOUS
<1> PICK f : f = [Top EXCEPT !.conditionals = cs, !.groups = gs]
  OBVIOUS
<1>3. FrameOK(f)
  <2> PICK t : t = Top
    OBVIOUS
  <2>1. FrameOK(t) /\ Agree(cs, gs)
    BY <1>1, <1>2, NestedTop, ChainOK
  <2>2. f = [t EXCEPT !.conditionals = cs, !.groups = gs]
    OBVIOUS
  <2> QED BY ONLY <2>1, <2>2, ChainedOK
<1>4. f.file = Top.file /\ f.at = Top.at
  BY <1>2, NestedTop, Edited
<1>5. Nested(frames')
  BY <1>1, <1>2, <1>3, <1>4, NestedAdvanced
<1> QED BY <1>1, <1>2, <1>5, TablesKept, MainRead

LEMMA UnpendedAlike ==
  ASSUME NEW f, FrameOK(f)
  PROVE  FrameOK(Unpended(f)) /\ Unpended(f).file = f.file /\ Unpended(f).at = f.at
BY UnpendedOK, Edited DEF Unpended

LEMMA DefineTyped ==
  ASSUME TInv, Define PROVE Nested(frames') /\ TablesOK' /\ MainOK'
<1>1. PICK l \in NextLines :
        /\ l.k \in {"define", "undef"} /\ Reading(l) /\ text' = text
        /\ macros' = IF ~Active THEN macros
                     ELSE [macros EXCEPT ![l.m] = IF l.k = "define" THEN l.body ELSE Absent]
        /\ frames' = Advanced(Unpended(Top))
        /\ UNCHANGED <<saves, once, guards>>
  BY DEF Define
<1>2. FramesOK /\ Nested(frames) /\ TablesOK /\ MainOK /\ LineOf(DOMAIN text, l)
  BY LineRead DEF TInv
<1>3. Nested(frames')
  BY <1>1, <1>2, NestedTop, UnpendedAlike, NestedAdvanced
<1>4. macros' \in [Macros -> Definition]
  <2> PICK b : b = IF l.k = "define" THEN l.body ELSE Absent
    OBVIOUS
  <2>1. l.m \in Macros /\ b \in Definition
    BY <1>1, <1>2 DEF LineOf, Macros, Definition
  <2>2. macros' = macros \/ macros' = [macros EXCEPT ![l.m] = b]
    BY <1>1
  <2> QED BY <1>2, <2>1, <2>2 DEF TablesOK
<1>5. TablesOK'
  BY <1>1, <1>2, <1>4 DEF TablesOK
<1> QED BY <1>1, <1>2, <1>3, <1>5, MainRead

LEMMA PragmaTyped ==
  ASSUME TInv, Pragma PROVE Nested(frames') /\ TablesOK' /\ MainOK'
<1>1. PICK l \in NextLines :
        /\ l.k \in {"once", "push", "pop"} /\ Reading(l) /\ text' = text /\ guards' = guards
        /\ \/ TakenForText(l)
           \/ /\ Obeyed /\ frames' = Advanced(Top)
              /\ once' = IF Active /\ l.k = "once" THEN once \union {Top.file} ELSE once
              /\ IF Active /\ l.k = "push"
                 THEN saves' = [saves EXCEPT ![l.m] = Append(@, macros[l.m])] /\ UNCHANGED macros
                 ELSE IF Active /\ l.k = "pop" /\ saves[l.m] # <<>>
                 THEN /\ saves' = [saves EXCEPT ![l.m] = Front(@)]
                      /\ macros' = [macros EXCEPT ![l.m] = Last(saves[l.m])]
                 ELSE UNCHANGED <<macros, saves>>
  BY DEF Pragma
<1>2. FramesOK /\ Nested(frames) /\ TablesOK /\ MainOK /\ LineOf(DOMAIN text, l)
  BY LineRead DEF TInv
<1>3. CASE TakenForText(l)
  <2>1. UNCHANGED tables
    BY <1>1, <1>3 DEF TakenForText, tables
  <2> QED BY <1>1, <1>2, <1>3, <2>1, NestedTaken, TablesKept, MainRead
<1>4. CASE ~TakenForText(l)
  <2>1. Nested(frames')
    BY <1>1, <1>2, <1>4, NestedTop, NestedAdvanced
  <2>2. once' \subseteq DOMAIN text \union {Main}
    <3>1. Top.file \in DOMAIN text \union {Main}
      BY <1>2, NestedTop
    <3> QED BY <1>1, <1>2, <1>4, <3>1 DEF TablesOK
  <2>3. macros' \in [Macros -> Definition] /\ saves' \in [Macros -> Seq(Definition)]
    <3>1. CASE Active /\ l.k = "push"
      <4>1. l.m \in Macros
        BY <1>2, <3>1 DEF LineOf, Macros
      <4> PICK m, s, b : m = l.m /\ s = saves[m] /\ b = macros[m]
        OBVIOUS
      <4>2. s \in Seq(Definition) /\ b \in Definition
        BY <1>2, <4>1 DEF TablesOK
      <4>3. Append(s, b) \in Seq(Definition)
        BY <4>2, AppendFacts
      <4>4. saves' = [saves EXCEPT ![m] = Append(s, b)] /\ macros' = macros
        BY <1>1, <1>4, <3>1
      <4> QED BY <1>2, <4>1, <4>3, <4>4 DEF TablesOK
    <3>2. CASE Active /\ l.k = "pop" /\ saves[l.m] # <<>>
      <4>1. l.m \in Macros
        BY <1>2, <3>2 DEF LineOf, Macros
      <4> PICK m, s : m = l.m /\ s = saves[m]
        OBVIOUS
      <4>2. s \in Seq(Definition) /\ s # << >>
        BY <1>2, <3>2, <4>1 DEF TablesOK
      <4>3. Front(s) \in Seq(Definition) /\ Last(s) \in Definition
        BY <4>2, FrontFacts, LastFacts
      <4>4. saves' = [saves EXCEPT ![m] = Front(s)] /\ macros' = [macros EXCEPT ![m] = Last(s)]
        BY <1>1, <1>4, <3>2
      <4> QED BY <1>2, <4>1, <4>3, <4>4 DEF TablesOK
    <3>3. CASE ~(Active /\ l.k = "push") /\ ~(Active /\ l.k = "pop" /\ saves[l.m] # <<>>)
      BY <1>1, <1>2, <1>4, <3>3 DEF TablesOK
    <3> QED BY <3>1, <3>2, <3>3
  <2>4. TablesOK'
    BY <1>1, <1>2, <2>2, <2>3 DEF TablesOK
  <2> QED BY <1>1, <1>2, <2>1, <2>4, MainRead
<1> QED BY <1>3, <1>4

LEMMA IncludeTyped ==
  ASSUME TInv, Include PROVE Nested(frames') /\ TablesOK' /\ MainOK'
<1>1. PICK l \in NextLines :
        /\ l.k = "include" /\ Reading(l) /\ text' = text /\ guards' = guards
        /\ UNCHANGED <<macros, saves, once>>
        /\ \/ TakenForText(l)
           \/ frames' = Advanced(Unpended(Top))
                        \o (IF ~Active \/ Skipped(l.file) THEN <<>>
                            ELSE <<Frame(l.file, "include")>>)
  BY DEF Include, TakenForText
<1>2. FramesOK /\ Nested(frames) /\ TablesOK /\ MainOK /\ LineOf(DOMAIN text, l)
  BY LineRead DEF TInv
<1>3. Nested(frames')
  <2>1. CASE TakenForText(l)
    BY <1>2, <2>1, NestedTaken
  <2>2. CASE ~TakenForText(l)
    <3> PICK fs, g : fs = Advanced(Unpended(Top)) /\ g = Frame(l.file, "include")
      OBVIOUS
    <3>1. Nested(fs) /\ AllOK(fs) /\ \A x : Readers(fs, x) = Readers(frames, x)
      BY <1>2, NestedTop, UnpendedAlike, NestedAdvanced
    <3>2. PICK S : fs \in Seq(S)
      BY <3>1 DEF AllOK
    <3>3. fs \o <<>> = fs /\ fs \o <<g>> = Append(fs, g)
      BY <3>2
    <3>4. frames' = fs \/ (~Skipped(l.file) /\ frames' = Append(fs, g))
      BY <1>1, <2>2, <3>3
    <3>5. CASE ~Skipped(l.file)
      <4>1. l.file \in DOMAIN text
        BY <1>1, <1>2 DEF LineOf
      <4>2. Depth(l.file) = Cardinality(Readers(fs, l.file))
        <5>1. DOMAIN frames = 1 .. Len(frames)
          BY <1>2, FramesLen
        <5>2. Depth(l.file) = Cardinality(Readers(frames, l.file))
          BY <5>1 DEF Depth, Readers
        <5> QED BY <3>1, <5>2
      <4>3. ~(Depth(l.file) >= MaxDepth)
        BY <3>5 DEF Skipped
      <4>4. Cardinality(Readers(fs, l.file)) \in Nat /\ MaxDepth \in Nat
        BY <3>2, ReadersFinite, TextsAssumption
      <4>5. g.file = l.file /\ g.at = 0
        BY DEF Frame
      <4>6. Cardinality(Readers(fs, l.file)) < MaxDepth
        BY <4>2, <4>3, <4>4
      <4>7. Nested(Append(fs, g))
        BY <3>1, <4>1, <4>4, <4>5, <4>6, NestedAppend
      <4> QED BY <3>1, <3>4, <4>7
    <3>6. CASE Skipped(l.file)
      BY <3>1, <3>4, <3>6
    <3> QED BY <3>5, <3>6
  <2> QED BY <2>1, <2>2
<1> QED BY <1>1, <1>2, <1>3, TablesKept, MainRead DEF tables

LEMMA GuardTyped == ASSUME NEW lines PROVE DetectedGuard(lines) \in Names \union {Absent}
BY DEF DetectedGuard

LEMMA EndOfFileTyped ==
  ASSUME TInv, EndOfFile PROVE Nested(frames') /\ TablesOK' /\ MainOK'
<1>1. /\ status = "run" /\ ~InMain /\ frames' = Front(frames) /\ text' = text /\ main' = main
      /\ UNCHANGED <<macros, saves, once>>
      /\ guards' = IF Top.how = "include" /\ DetectedGuard(text[Top.file]) # Absent
                   THEN [guards EXCEPT ![Top.file] = DetectedGuard(text[Top.file])] ELSE guards
  BY DEF EndOfFile
<1>2. FramesOK /\ Nested(frames) /\ TablesOK /\ MainOK
  BY <1>1 DEF TInv
<1>3. Len(frames) # 1
  BY <1>1, <1>2, NestedTop DEF InMain
<1>4. Nested(frames')
  BY <1>1, <1>2, <1>3, NestedFront
<1>5. guards' \in [DOMAIN text -> Names \union {Absent}]
  <2> PICK f, g : f = Top.file /\ g = DetectedGuard(text[f])
    OBVIOUS
  <2>1. g \in Names \union {Absent}
    BY GuardTyped
  <2>2. guards' = guards \/ guards' = [guards EXCEPT ![f] = g]
    BY <1>1
  <2> QED BY <1>2, <2>1, <2>2 DEF TablesOK
<1>6. TablesOK'
  BY <1>1, <1>2, <1>5 DEF TablesOK
<1> QED BY <1>1, <1>2, <1>4, <1>6 DEF MainOK

LEMMA TInvInit == Init => TInv
<1> SUFFICES ASSUME Init PROVE TInv
  OBVIOUS
<1>1. FramesOK
  <2>1. frames \in Seq({})
    BY DEF Init
  <2> QED BY <2>1 DEF FramesOK, AllOK
<1>2. TablesOK
  BY DEF Init, TablesOK, Macros, Definition
<1>3. MainOK
  <2>1. main \in Seq({}) /\ Len(main) = 0
    BY DEF Init
  <2> QED BY <2>1, TextsAssumption DEF MainOK
<1> QED BY <1>1, <1>2, <1>3 DEF Init, TInv

LEMMA TInvStep == TInv /\ [Next]_vars => TInv'
<1> SUFFICES ASSUME TInv, [Next]_vars PROVE TInv'
  OBVIOUS
<1>1. FramesOK'
  BY FramesStep DEF TInv
<1>2. ASSUME text' = text, forced' = forced, status' = "run", Nested(frames'), TablesOK', MainOK'
      PROVE  TInv'
  BY <1>1, <1>2, NestedPrime DEF TInv
<1>3. CASE Start
  <2>1. text' = text /\ forced' = forced /\ status' = "run"
    BY <1>3 DEF Start
  <2> QED BY <1>2, <1>3, <2>1, StartTyped
<1>4. CASE Text
  <2>1. text' = text /\ forced' = forced /\ status' = "run"
    BY <1>4, LineRead DEF Text
  <2> QED BY <1>2, <1>4, <2>1, TextTyped
<1>5. CASE Conditional
  <2>1. text' = text /\ forced' = forced /\ status' = "run"
    BY <1>5, LineRead DEF Conditional
  <2> QED BY <1>2, <1>5, <2>1, ConditionalTyped
<1>6. CASE Define
  <2>1. text' = text /\ forced' = forced /\ status' = "run"
    BY <1>6, LineRead DEF Define
  <2> QED BY <1>2, <1>6, <2>1, DefineTyped
<1>7. CASE Pragma
  <2>1. text' = text /\ forced' = forced /\ status' = "run"
    BY <1>7, LineRead DEF Pragma
  <2> QED BY <1>2, <1>7, <2>1, PragmaTyped
<1>8. CASE Include
  <2>1. text' = text /\ forced' = forced /\ status' = "run"
    BY <1>8, LineRead DEF Include
  <2> QED BY <1>2, <1>8, <2>1, IncludeTyped
<1>9. CASE EndOfFile
  <2>1. text' = text /\ forced' = forced /\ status' = "run"
    BY <1>9 DEF EndOfFile
  <2> QED BY <1>2, <1>9, <2>1, EndOfFileTyped
<1>10. CASE EndOfMain
  <2>1. /\ text' = text /\ forced' = forced /\ main' = main /\ UNCHANGED tables /\ frames' = << >>
        /\ status' \in {"done", "error"}
    BY <1>10 DEF EndOfMain
  <2>2. TablesOK' /\ MainOK'
    BY <2>1, TablesKept DEF TInv, MainOK
  <2> QED BY <1>1, <2>1, <2>2 DEF TInv
<1>11. CASE UNCHANGED vars
  <2>1. /\ text' = text /\ forced' = forced /\ main' = main /\ UNCHANGED tables
        /\ frames' = frames /\ status' = status
    BY <1>11 DEF vars, tables
  <2>2. TablesOK' /\ MainOK'
    BY <2>1, TablesKept DEF TInv, MainOK
  <2>3. status = "run" => Nested(frames')
    BY <2>1 DEF TInv
  <2> QED BY <1>1, <2>1, <2>2, <2>3, NestedPrime DEF TInv
<1> QED BY <1>3, <1>4, <1>5, <1>6, <1>7, <1>8, <1>9, <1>10, <1>11 DEF Next, Done

(* Of handle_include: a file is never being read more often than           *)
(* MAX_INCLUDE_DEPTH allows, so headers that include each other in a       *)
(* circle end, at a depth bounded by the number of files; and push_macro,  *)
(* guards and #pragma once only ever speak of macros and files there are.  *)
THEOREM DepthIsBounded == Spec => []TypeOK
<1>1. TInv => TypeOK
  BY TypedByInv
<1> QED BY <1>1, TInvInit, TInvStep, PTL DEF Spec

=============================================================================
