--------------------------- MODULE ScopeRunProofs ---------------------------
(***************************************************************************)
(* Proofs about the block builder and about executions of what it makes,   *)
(* for bodies of any size: every jump lands, every pending patch is owed   *)
(* by one construct, and storage is live where C says a local lives, on    *)
(* every path, jumps included.                                             *)
(***************************************************************************)
EXTENDS ScopeRun, SequenceTheorems, FiniteSetTheorems, TLAPS

-----------------------------------------------------------------------------
(* Lemmas about sequences whose elements may be anything.                  *)
IsSeq(s) == \E S : s \in Seq(S)

LEMMA SeqLen == ASSUME NEW s, IsSeq(s) PROVE Len(s) \in Nat
BY DEF IsSeq

LEMMA EmptyIsSeq == IsSeq(<< >>) /\ Len(<< >>) = 0
<1>1. << >> \in Seq({}) OBVIOUS
<1> QED BY <1>1 DEF IsSeq

LEMMA SingletonIsSeq == ASSUME NEW e PROVE IsSeq(<<e>>) /\ Len(<<e>>) = 1 /\ <<e>>[1] = e
<1>1. <<e>> \in Seq({e}) OBVIOUS
<1> QED BY <1>1 DEF IsSeq

LEMMA AppendIsSeq ==
  ASSUME NEW s, IsSeq(s), NEW e
  PROVE  /\ IsSeq(Append(s, e)) /\ Len(Append(s, e)) = Len(s) + 1
         /\ Append(s, e)[Len(s) + 1] = e
         /\ \A i \in 1 .. Len(s) : Append(s, e)[i] = s[i]
<1>1. PICK S : s \in Seq(S) BY DEF IsSeq
<1> DEFINE T == S \cup {e}
<1>2. s \in Seq(T) /\ e \in T BY <1>1
<1> HIDE DEF T
<1>3. Append(s, e) \in Seq(T) BY <1>2
<1> QED BY <1>2, <1>3 DEF IsSeq

LEMMA FrontIsSeq ==
  ASSUME NEW s, IsSeq(s), Len(s) > 0
  PROVE  /\ IsSeq(Front(s)) /\ Len(Front(s)) = Len(s) - 1
         /\ \A i \in 1 .. Len(s) - 1 : Front(s)[i] = s[i]
         /\ Last(s) = s[Len(s)]
<1>1. PICK S : s \in Seq(S) BY DEF IsSeq
<1> DEFINE f == SubSeq(s, 1, Len(s) - 1)
<1>2. f \in Seq(S) /\ Len(f) = Len(s) - 1 /\ \A i \in 1 .. Len(s) - 1 : f[i] = s[i]
  <2>1. Len(s) \in Nat /\ \A i \in 1 .. Len(s) - 1 : s[i] \in S BY <1>1
  <2>2. 1 \in Int /\ Len(s) - 1 \in Int BY <2>1
  <2>3. /\ f \in Seq(S)
        /\ Len(f) = IF 1 <= Len(s) - 1 THEN (Len(s) - 1) - 1 + 1 ELSE 0
        /\ \A i \in 1 .. (Len(s) - 1) - 1 + 1 : f[i] = s[1 + i - 1]
    BY <2>1, <2>2, SubSeqProperties
  <2> HIDE DEF f
  <2>4. Len(s) - 1 \in Nat /\ (Len(s) - 1) - 1 + 1 = Len(s) - 1 BY <2>1
  <2>5. Len(f) = Len(s) - 1
    <3> DEFINE m == Len(s) - 1
    <3>1. m \in Nat /\ Len(f) = IF 1 <= m THEN m - 1 + 1 ELSE 0 BY <2>3, <2>4
    <3> HIDE DEF m
    <3>2. Len(f) = m BY <3>1
    <3> QED BY <3>2 DEF m
  <2>6. \A i \in 1 .. Len(s) - 1 : 1 + i - 1 = i BY <2>4
  <2>7. \A i \in 1 .. Len(s) - 1 : f[i] = s[i] BY <2>3, <2>4, <2>6
  <2> QED BY <2>3, <2>5, <2>7
<1>3. IsSeq(f) BY <1>2 DEF IsSeq
<1>4. Front(s) = f /\ Last(s) = s[Len(s)] BY DEF Front, Last
<1> HIDE DEF f
<1> QED BY <1>2, <1>3, <1>4

LEMMA SetLastIsSeq ==
  ASSUME NEW s, IsSeq(s), Len(s) > 0, NEW e
  PROVE  /\ IsSeq(SetLast(s, e)) /\ Len(SetLast(s, e)) = Len(s)
         /\ SetLast(s, e)[Len(s)] = e
         /\ \A i \in 1 .. Len(s) - 1 : SetLast(s, e)[i] = s[i]
         /\ Last(s) = s[Len(s)]
<1>1. /\ IsSeq(Front(s)) /\ Len(Front(s)) = Len(s) - 1
      /\ \A i \in 1 .. Len(s) - 1 : Front(s)[i] = s[i]
      /\ Last(s) = s[Len(s)]
  BY FrontIsSeq
<1>2. /\ IsSeq(Append(Front(s), e)) /\ Len(Append(Front(s), e)) = Len(Front(s)) + 1
      /\ Append(Front(s), e)[Len(Front(s)) + 1] = e
      /\ \A i \in 1 .. Len(Front(s)) : Append(Front(s), e)[i] = Front(s)[i]
  BY <1>1, AppendIsSeq
<1>3. Len(s) \in Nat BY SeqLen
<1> QED BY <1>1, <1>2, <1>3 DEF SetLast

LEMMA TailIsSeq ==
  ASSUME NEW s, IsSeq(s), Len(s) > 0
  PROVE  /\ IsSeq(Tail(s)) /\ Len(Tail(s)) = Len(s) - 1
         /\ \A i \in 1 .. Len(s) - 1 : Tail(s)[i] = s[i + 1]
         /\ Head(s) = s[1]
<1>1. PICK S : s \in Seq(S) BY DEF IsSeq
<1>2. s # << >> BY EmptyIsSeq
<1>3. Tail(s) \in Seq(S) BY <1>1, <1>2
<1> QED BY <1>1, <1>2, <1>3 DEF IsSeq

LEMMA SetFirstIsSeq ==
  ASSUME NEW s, IsSeq(s), Len(s) > 0, NEW e
  PROVE  /\ IsSeq(<<e>> \o Tail(s)) /\ Len(<<e>> \o Tail(s)) = Len(s)
         /\ (<<e>> \o Tail(s))[1] = e
         /\ \A i \in 2 .. Len(s) : (<<e>> \o Tail(s))[i] = s[i]
<1>1. PICK S : s \in Seq(S) BY DEF IsSeq
<1> DEFINE T == S \cup {e}
<1>2. s \in Seq(T) /\ <<e>> \in Seq(T) BY <1>1
<1> HIDE DEF T
<1>3. Len(s) \in Nat /\ s # << >> BY <1>2, EmptyIsSeq
<1>4. /\ Tail(s) \in Seq(T) /\ Len(Tail(s)) = Len(s) - 1
      /\ \A i \in 1 .. Len(s) - 1 : Tail(s)[i] = s[i + 1] BY <1>2, <1>3
<1> DEFINE r == <<e>> \o Tail(s)
<1>5. /\ r \in Seq(T) /\ Len(r) = Len(<<e>>) + Len(Tail(s))
      /\ \A i \in 1 .. Len(<<e>>) + Len(Tail(s)) :
            r[i] = IF i <= Len(<<e>>) THEN <<e>>[i] ELSE Tail(s)[i - Len(<<e>>)]
  BY <1>2, <1>4, ConcatProperties
<1>6. Len(<<e>>) = 1 /\ <<e>>[1] = e OBVIOUS
<1>7. IsSeq(r) BY <1>5 DEF IsSeq
<1> HIDE DEF r
<1>8. Len(r) = Len(s) BY <1>3, <1>4, <1>5, <1>6
<1>9. r[1] = e BY <1>3, <1>4, <1>5, <1>6
<1>10. ASSUME NEW i \in 2 .. Len(s) PROVE r[i] = s[i]
  <2>1. i - 1 \in 1 .. Len(s) - 1 /\ (i - 1) + 1 = i /\ ~(i <= 1) BY <1>3
  <2>2. r[i] = Tail(s)[i - 1] BY <2>1, <1>3, <1>4, <1>5, <1>6
  <2> QED BY <2>1, <2>2, <1>4
<1> QED BY <1>7, <1>8, <1>9, <1>10 DEF r

LEMMA SeqFrom ==
  ASSUME NEW s, IsSeq(s), NEW S, \A i \in 1 .. Len(s) : s[i] \in S PROVE s \in Seq(S)
<1>1. PICK T : s \in Seq(T) BY DEF IsSeq
<1>2. s = [i \in 1 .. Len(s) |-> s[i]] /\ Len(s) \in Nat BY <1>1
<1> QED BY <1>2, SeqDef

LEMMA NonEmpty == ASSUME NEW s, IsSeq(s), s # << >> PROVE Len(s) > 0
<1>1. PICK S : s \in Seq(S) BY DEF IsSeq
<1> QED BY <1>1

-----------------------------------------------------------------------------
(* Lemmas about the blocks.                                                *)
LEMMA PushTerm ==
  ASSUME NEW ts \in Seq(Term), NEW k \in {"goto", "switch", "call", "return"},
         NEW to \in SUBSET Int
  PROVE  LET ts2 == Append(ts, [kind |-> k, to |-> to])
         IN  /\ ts2 \in Seq(Term) /\ Len(ts2) = Len(ts) + 1
             /\ ts2[Len(ts) + 1].to = to
             /\ \A b \in 1 .. Len(ts) : ts2[b] = ts[b]
<1>1. [kind |-> k, to |-> to] \in Term BY DEF Term
<1> QED BY <1>1

LEMMA PatchTerm ==
  ASSUME NEW ts \in Seq(Term), NEW b \in 0 .. Len(ts) - 1, NEW to \in SUBSET Int
  PROVE  /\ Patched(ts, b, to) \in Seq(Term) /\ Len(Patched(ts, b, to)) = Len(ts)
         /\ Patched(ts, b, to)[b + 1].to = to
         /\ \A c \in 1 .. Len(ts) : c # b + 1 => Patched(ts, b, to)[c] = ts[c]
<1>1. ts[b + 1] \in Term BY ElementOfSeq
<1> DEFINE e == [ts[b + 1] EXCEPT !.to = to]
<1>2. e \in Term /\ e.to = to BY <1>1 DEF Term
<1>3. Patched(ts, b, to) = [ts EXCEPT ![b + 1] = e] BY DEF Patched
<1>4. b + 1 \in 1 .. Len(ts) OBVIOUS
<1> HIDE DEF e
<1> QED BY <1>2, <1>3, <1>4, ExceptSeq

-----------------------------------------------------------------------------
(***************************************************************************)
(* The inductive invariant behind JumpsLand.  While the body is lowered a  *)
(* jump may name the block about to be built, number NumBlocks, or wait to *)
(* be patched; it waits only while something that will patch it does.      *)
(***************************************************************************)
Span == IF phase = "lower" THEN NumBlocks ELSE NumBlocks - 1
Indices == 0 .. NumBlocks - 1

TermsLand == \A b \in 1 .. NumBlocks : term[b].to \subseteq {Unpatched} \cup 1 .. Span

TargetsLand ==
  /\ targets = [l \in Labels |-> targets[l]]
  /\ \A l \in Labels : targets[l] # Unbound => targets[l].block \in 1 .. Span

PendingLand ==
  /\ IsSeq(gotos) /\ IsSeq(indirect)
  /\ \A i \in 1 .. Len(gotos) : gotos[i].block \in Indices /\ gotos[i].label \in Labels
  /\ \A i \in 1 .. Len(indirect) :
       indirect[i].block \in Indices /\ indirect[i].to \subseteq 1 .. Span

FrameOK(f, n) ==
  /\ f.kind \in {"block", "expr", "then", "else"}
  /\ f.kind \in {"block", "expr"} => f.entry = Unpatched /\ f.thenExit = Unpatched
  /\ f.kind = "then" => /\ f.entry \in 0 .. n - 1 /\ f.thenStart \in 1 .. n
                        /\ f.thenExit = Unpatched
  /\ f.kind = "else" => /\ f.entry \in 0 .. n - 1 /\ f.thenStart \in 1 .. n
                        /\ f.thenExit \in 0 .. n - 1

FramesOK ==
  /\ fresh \subseteq Locals
  /\ frames \in Seq(Frames) /\ Len(frames) > 0 /\ frames[1].kind = "block"
  /\ \A i \in 1 .. Len(frames) : FrameOK(frames[i], NumBlocks)

Owed(b) ==
  \/ \E i \in 1 .. Len(gotos) : gotos[i].block = b
  \/ \E i \in 1 .. Len(indirect) : indirect[i].block = b
  \/ \E i \in 1 .. Len(frames) : b = frames[i].entry \/ b = frames[i].thenExit

AllOwed == \A b \in Indices : Unpatched \in term[b + 1].to => Owed(b)

Stage ==
  /\ phase \in {"lower", "patch", "done"}
  /\ phase \in {"patch", "done"} => Len(frames) = 1
  /\ phase = "done" => gotos = << >> /\ indirect = << >>

Good == /\ term \in Seq(Term) /\ Stage /\ TermsLand /\ TargetsLand
        /\ PendingLand /\ FramesOK /\ AllOwed

JInv == phase \in {"vla", "unresolved", "noLabels"} \/ Good

LEMMA LandsAtEnd == JInv => JumpsLand
<1> SUFFICES ASSUME Good, phase = "done", NEW b \in 1 .. NumBlocks
             PROVE  term[b].to \subseteq 1 .. NumBlocks - 1
  BY DEF JInv, JumpsLand
<1>1. Len(frames) = 1 /\ Len(gotos) = 0 /\ Len(indirect) = 0
  BY EmptyIsSeq DEF Good, Stage
<1>2. frames[1].entry = Unpatched /\ frames[1].thenExit = Unpatched
  BY <1>1 DEF Good, FramesOK, FrameOK
<1>3. b - 1 \in Indices /\ NumBlocks \in Nat BY DEF Good, Indices, NumBlocks
<1>4. ~Owed(b - 1) BY <1>1, <1>2, <1>3 DEF Owed, Unpatched, Indices
<1>5. Unpatched \notin term[b].to BY <1>3, <1>4 DEF Good, AllOwed
<1> QED BY <1>5, <1>3 DEF Good, TermsLand, Span

LEMMA InitGood == Init => JInv
<1> SUFFICES ASSUME NEW ds \in SUBSET Locals,
                    term = << >>, targets = [l \in Labels |-> Unbound],
                    gotos = << >>, indirect = << >>,
                    frames = <<Frame("block", ds)>>, phase = "lower",
                    fresh = Locals \ ds
             PROVE  Good
  BY DEF Init, JInv
<1>1. Frame("block", ds) \in Frames BY DEF Frame, Frames
<1>2. NumBlocks = 0 BY DEF NumBlocks
<1>3. FramesOK BY <1>1, <1>2 DEF FramesOK, FrameOK, Frame
<1>4. PendingLand BY EmptyIsSeq DEF PendingLand
<1> QED BY <1>2, <1>3, <1>4 DEF Good, Stage, TermsLand, TargetsLand, AllOwed, Indices, Owed

-----------------------------------------------------------------------------
(* Statements that end no block.                                           *)
LEMMA PlainStep ==
  ASSUME Good, phase = "lower", phase' = phase,
         term' = term, targets' = targets, gotos' = gotos, indirect' = indirect,
         FramesOK', \A i \in 1 .. Len(frames) : frames[i].kind \in {"then", "else"} =>
                      i \in 1 .. Len(frames') /\ frames'[i].entry = frames[i].entry
                                            /\ frames'[i].thenExit = frames[i].thenExit
  PROVE  Good'
<1>1. NumBlocks' = NumBlocks /\ Span' = Span /\ Indices' = Indices /\ NumBlocks \in Nat
  BY DEF NumBlocks, Span, Indices, Good
<1>2. AllOwed'
  <2> SUFFICES ASSUME NEW b \in Indices, Unpatched \in term[b + 1].to PROVE Owed(b)'
    BY <1>1 DEF AllOwed
  <2>1. Owed(b) BY DEF Good, AllOwed
  <2>2. CASE \E i \in 1 .. Len(frames) : b = frames[i].entry \/ b = frames[i].thenExit
    <3>1. PICK i \in 1 .. Len(frames) : b = frames[i].entry \/ b = frames[i].thenExit BY <2>2
    <3>2. b # Unpatched BY <1>1 DEF Indices, Unpatched
    <3>3. frames[i].kind \in {"then", "else"} BY <3>1, <3>2 DEF Good, FramesOK, FrameOK
    <3> QED BY <3>1, <3>3 DEF Owed
  <2> QED BY <2>1, <2>2 DEF Owed
<1> QED BY <1>1, <1>2 DEF Good, Stage, TermsLand, TargetsLand, PendingLand

LEMMA PlainSteps ==
  ASSUME JInv,
         \/ \E ds \in SUBSET fresh : EnterBlock(ds)
         \/ ExitBlock \/ EnterExpr \/ ExitExpr
         \/ \E x \in Locals : Decl(x) \/ Use(x)
  PROVE  JInv'
<1>1. Good /\ phase = "lower" /\ phase' = phase
  BY DEF JInv, EnterBlock, ExitBlock, EnterExpr, ExitExpr, Decl, Use, Choose
<1>2. /\ term' = term /\ targets' = targets /\ gotos' = gotos /\ indirect' = indirect
      /\ NumBlocks' = NumBlocks
  BY DEF EnterBlock, ExitBlock, EnterExpr, ExitExpr, Decl, Use, NumBlocks
<1> DEFINE Kept == \A i \in 1 .. Len(frames) : frames[i].kind \in {"then", "else"} =>
                      i \in 1 .. Len(frames') /\ frames'[i].entry = frames[i].entry
                                            /\ frames'[i].thenExit = frames[i].thenExit
<1>3. frames \in Seq(Frames) /\ Len(frames) \in Nat /\ Len(frames) > 0 /\ IsSeq(frames)
  BY <1>1 DEF Good, FramesOK, IsSeq
<1>4. FramesOK' /\ Kept
  <2>5. fresh \subseteq Locals BY <1>1 DEF Good, FramesOK
  <2>6. fresh' \subseteq Locals
    BY <2>5 DEF EnterBlock, ExitBlock, EnterExpr, ExitExpr, Decl, Use
  <2>1. CASE \E f \in Frames : f.kind \in {"block", "expr"} /\ FrameOK(f, NumBlocks)
                               /\ frames' = Append(frames, f)
    <3>1. PICK f \in Frames : f.kind \in {"block", "expr"} /\ FrameOK(f, NumBlocks)
                               /\ frames' = Append(frames, f) BY <2>1
    <3>2. /\ frames' \in Seq(Frames) /\ Len(frames') = Len(frames) + 1
          /\ frames'[Len(frames) + 1] = f
          /\ \A i \in 1 .. Len(frames) : frames'[i] = frames[i] BY <3>1, <1>3
    <3> QED BY <3>1, <3>2, <2>6, <1>1, <1>2, <1>3 DEF Good, FramesOK
  <2>2. CASE Len(frames) > 1 /\ frames' = Front(frames) /\ Last(frames).kind \in {"block", "expr"}
    <3>1. /\ IsSeq(frames') /\ Len(frames') = Len(frames) - 1
          /\ \A i \in 1 .. Len(frames) - 1 : frames'[i] = frames[i]
          /\ Last(frames) = frames[Len(frames)] BY <2>2, <1>3, FrontIsSeq
    <3>2. frames' \in Seq(Frames) BY <3>1, <1>3, SeqFrom
    <3> QED BY <3>1, <3>2, <2>2, <2>6, <1>1, <1>2, <1>3 DEF Good, FramesOK
  <2>3. CASE \E x \in Locals :
               /\ Last(frames).kind \in {"block", "expr"}
               /\ frames' = SetLast(frames, [Last(frames) EXCEPT !.todo = @ \ {x},
                                                               !.seen = @ \cup {x}])
    <3>1. PICK x \in Locals :
               /\ Last(frames).kind \in {"block", "expr"}
               /\ frames' = SetLast(frames, [Last(frames) EXCEPT !.todo = @ \ {x},
                                                               !.seen = @ \cup {x}]) BY <2>3
    <3>2. /\ IsSeq(frames') /\ Len(frames') = Len(frames)
          /\ frames'[Len(frames)] = [Last(frames) EXCEPT !.todo = @ \ {x}, !.seen = @ \cup {x}]
          /\ \A i \in 1 .. Len(frames) - 1 : frames'[i] = frames[i]
          /\ Last(frames) = frames[Len(frames)] BY <3>1, <1>3, SetLastIsSeq
    <3>3. frames[Len(frames)] \in Frames BY <1>3
    <3> DEFINE f == frames[Len(frames)]
               e == [f EXCEPT !.todo = @ \ {x}, !.seen = @ \cup {x}]
    <3>6. e \in Frames /\ e.kind = f.kind /\ e.entry = f.entry /\ e.thenExit = f.thenExit
          /\ e.thenStart = f.thenStart
      <4>1. e = [f EXCEPT !.todo = f.todo \ {x}, !.seen = f.seen \cup {x}] BY <3>3 DEF Frames
      <4> QED BY <3>3, <4>1 DEF Frames
    <3>4. /\ frames'[Len(frames)] \in Frames
          /\ frames'[Len(frames)].kind = frames[Len(frames)].kind
          /\ frames'[Len(frames)].entry = frames[Len(frames)].entry
          /\ frames'[Len(frames)].thenExit = frames[Len(frames)].thenExit
          /\ frames'[Len(frames)].thenStart = frames[Len(frames)].thenStart
      BY <3>2, <3>6
    <3>5. frames' \in Seq(Frames) BY <3>2, <3>4, <1>3, SeqFrom
    <3>7. FrameOK(frames[Len(frames)], NumBlocks) /\ frames[Len(frames)].kind \in {"block", "expr"}
      BY <3>1, <3>2, <1>1, <1>3 DEF Good, FramesOK
    <3>8. FrameOK(frames'[Len(frames)], NumBlocks) BY <3>4, <3>7 DEF FrameOK
    <3> HIDE DEF f, e
    <3>9. \A i \in 1 .. Len(frames) : FrameOK(frames'[i], NumBlocks)
      <4> SUFFICES ASSUME NEW i \in 1 .. Len(frames) PROVE FrameOK(frames'[i], NumBlocks) OBVIOUS
      <4>1. CASE i = Len(frames) BY <4>1, <3>8
      <4>2. CASE i # Len(frames)
        <5>1. i \in 1 .. Len(frames) - 1 BY <4>2, <1>3
        <5> QED BY <5>1, <3>2, <1>1 DEF Good, FramesOK
      <4> QED BY <4>1, <4>2
    <3>10. frames'[1].kind = "block"
      <4>1. CASE Len(frames) = 1 BY <4>1, <3>4, <1>1 DEF Good, FramesOK
      <4>2. CASE Len(frames) # 1
        <5>1. 1 \in 1 .. Len(frames) - 1
          <6>1. \A n \in Nat : n > 0 /\ n # 1 => 1 \in 1 .. n - 1 OBVIOUS
          <6> QED BY ONLY <4>2, <1>3, <6>1
        <5> QED BY <5>1, <3>2, <1>1 DEF Good, FramesOK
      <4> QED BY <4>1, <4>2
    <3>11. FramesOK' BY <3>2, <3>5, <3>9, <3>10, <2>6, <1>2, <1>3 DEF FramesOK
    <3>12. Kept
      <4> SUFFICES ASSUME NEW i \in 1 .. Len(frames), frames[i].kind \in {"then", "else"}
                   PROVE  i \in 1 .. Len(frames') /\ frames'[i] = frames[i]
        OBVIOUS
      <4>1. i # Len(frames) BY <3>7
      <4>2. i \in 1 .. Len(frames) - 1 BY <4>1, <1>3
      <4> QED BY <4>2, <3>2
    <3> QED BY <3>11, <3>12
  <2>4. CASE UNCHANGED frames
    BY <2>4, <2>6, <1>1, <1>2, <1>3 DEF Good, FramesOK
  <2>7. ASSUME NEW ds \in SUBSET fresh, EnterBlock(ds) PROVE FramesOK' /\ Kept
    <3>1. Frame("block", ds) \in Frames /\ Frame("block", ds).kind = "block"
          /\ FrameOK(Frame("block", ds), NumBlocks)
      BY <2>5 DEF Frame, Frames, FrameOK
    <3> QED BY <2>7, <3>1, <2>1 DEF EnterBlock
  <2>8. ASSUME EnterExpr PROVE FramesOK' /\ Kept
    <3>1. Frame("expr", {}) \in Frames /\ Frame("expr", {}).kind = "expr"
          /\ FrameOK(Frame("expr", {}), NumBlocks)
      BY DEF Frame, Frames, FrameOK
    <3> QED BY <2>8, <3>1, <2>1 DEF EnterExpr
  <2>9. ASSUME ExitBlock \/ ExitExpr PROVE FramesOK' /\ Kept
    <3>1. Last(frames) = frames[Len(frames)] BY <1>3, FrontIsSeq
    <3>2. frames[1].kind = "block" BY <1>1 DEF Good, FramesOK
    <3>3. Last(frames).kind \in {"block", "expr"} /\ frames' = Front(frames)
      BY <2>9 DEF ExitBlock, ExitExpr
    <3>4. Len(frames) > 1 BY <2>9, <3>1, <3>2, <1>3 DEF ExitBlock, ExitExpr
    <3> QED BY <3>3, <3>4, <2>2
  <2>10. ASSUME NEW x \in Locals, Decl(x) PROVE FramesOK' /\ Kept
    BY <2>10, <2>3 DEF Decl
  <2>11. ASSUME NEW x \in Locals, Use(x) PROVE FramesOK' /\ Kept
    BY <2>11, <2>4 DEF Use
  <2> QED BY <2>7, <2>8, <2>9, <2>10, <2>11
<1> QED BY <1>1, <1>2, <1>4, PlainStep DEF JInv

-----------------------------------------------------------------------------
(* Statements that end a block: nothing that was owed is forgotten, and    *)
(* every jump that may name a block still may.                             *)
LEMMA PushStep ==
  ASSUME Good, phase = "lower", phase' = phase, UNCHANGED <<frames, fresh>>,
         NEW k \in {"goto", "switch", "call", "return"},
         NEW to \in SUBSET ({Unpatched} \cup 1 .. NumBlocks + 1),
         PushTerminator(k, to),
         TargetsLand', PendingLand',
         \A b \in Indices : Owed(b) => Owed(b)',
         NEW n, n = NumBlocks, Unpatched \in to => Owed(n)'
  PROVE  Good'
<1>1. term \in Seq(Term) /\ NumBlocks \in Nat BY DEF Good, NumBlocks
<1>2. to \in SUBSET Int BY <1>1 DEF Unpatched
<1>3. /\ term' \in Seq(Term) /\ NumBlocks' = NumBlocks + 1
      /\ term'[NumBlocks + 1].to = to
      /\ \A b \in 1 .. NumBlocks : term'[b] = term[b]
  BY <1>1, <1>2, PushTerm DEF PushTerminator, NumBlocks
<1>4. Span' = NumBlocks + 1 /\ Span = NumBlocks BY <1>3 DEF Span
<1>5. TermsLand' BY <1>1, <1>3, <1>4 DEF Good, TermsLand
<1>6. FramesOK'
  <2>1. \A f : FrameOK(f, NumBlocks) => FrameOK(f, NumBlocks + 1) BY <1>1 DEF FrameOK
  <2> QED BY <2>1, <1>3 DEF Good, FramesOK
<1>7. AllOwed'
  <2> SUFFICES ASSUME NEW b \in 0 .. NumBlocks, Unpatched \in term'[b + 1].to PROVE Owed(b)'
    BY <1>1, <1>3 DEF AllOwed, Indices
  <2>1. CASE b = n BY <2>1, <1>3
  <2>2. CASE b # n
    <3>1. b \in Indices /\ b + 1 \in 1 .. NumBlocks BY <2>2, <1>1 DEF Indices
    <3> QED BY <3>1, <1>3 DEF Good, AllOwed
  <2> QED BY <2>1, <2>2
<1> QED BY <1>3, <1>5, <1>6, <1>7 DEF Good, Stage

(* What one more block leaves true of labels and pending jumps.            *)
LEMMA PushKeeps ==
  ASSUME Good, phase = "lower", phase' = phase, NumBlocks' = NumBlocks + 1
  PROVE  /\ targets' = targets => TargetsLand'
         /\ UNCHANGED <<gotos, indirect>> => PendingLand'
         /\ UNCHANGED <<gotos, indirect, frames>> => \A b \in Indices : Owed(b) => Owed(b)'
<1>1. Span = NumBlocks /\ Span' = NumBlocks + 1 /\ NumBlocks \in Nat
  BY DEF Span, Good, NumBlocks
<1>2. Indices \subseteq Indices' BY <1>1 DEF Indices
<1>3. 1 .. Span \subseteq 1 .. Span' BY <1>1
<1>4. targets' = targets => TargetsLand' BY <1>3 DEF Good, TargetsLand
<1>5. UNCHANGED <<gotos, indirect>> => PendingLand' BY <1>2, <1>3 DEF Good, PendingLand
<1>6. UNCHANGED <<gotos, indirect, frames>> => \A b \in Indices : Owed(b) => Owed(b)'
  BY DEF Owed
<1> QED BY <1>4, <1>5, <1>6

LEMMA PushSteps ==
  ASSUME JInv,
         \/ \E l \in Labels : BindLabel(l) \/ Goto(l)
         \/ IndirectGoto \/ Return
         \/ \E diverges \in BOOLEAN : Call(diverges)
  PROVE  JInv'
<1>1. Good /\ phase = "lower" /\ phase' = phase
  BY DEF JInv, BindLabel, Goto, IndirectGoto, Return, Call, Choose
<1>2. NumBlocks \in Nat /\ Span = NumBlocks /\ term \in Seq(Term) BY <1>1 DEF Good, NumBlocks, Span
<1>3. ASSUME NEW k \in {"goto", "switch", "call", "return"},
             NEW to \in SUBSET ({Unpatched} \cup 1 .. NumBlocks + 1), PushTerminator(k, to)
      PROVE  NumBlocks' = NumBlocks + 1
  <2>1. to \in SUBSET Int BY <1>2 DEF Unpatched
  <2> QED BY <2>1, <1>2, <1>3, PushTerm DEF PushTerminator, NumBlocks
<1>4. ASSUME NEW l \in Labels, BindLabel(l) PROVE Good'
  <2>1. UNCHANGED <<gotos, indirect, frames, fresh>> BY <1>4 DEF BindLabel
  <2> DEFINE T(n) == [targets EXCEPT ![l] = [block |-> n, scopes |-> scopes]]
  <2>2. ASSUME NEW n \in 1 .. Span', targets' = T(n), 1 .. Span \subseteq 1 .. Span'
        PROVE  TargetsLand'
    <3>1. targets = [m \in Labels |-> targets[m]] BY <1>1 DEF Good, TargetsLand
    <3>2. targets' = [m \in Labels |-> IF m = l THEN [block |-> n, scopes |-> scopes]
                                       ELSE targets[m]] BY <3>1, <2>2
    <3>3. \A m \in Labels : targets[m] # Unbound => targets[m].block \in 1 .. Span
      BY <1>1 DEF Good, TargetsLand
    <3>4. [block |-> n, scopes |-> scopes].block = n OBVIOUS
    <3>5. \A m \in Labels : targets'[m] # Unbound => targets'[m].block \in 1 .. Span'
      BY <3>2, <3>3, <3>4, <2>2
    <3>6. targets' = [m \in Labels |-> targets'[m]] BY <3>2
    <3> QED BY <3>5, <3>6 DEF TargetsLand
  <2>3. CASE StartsBlock
    <3>1. term' = term /\ targets' = T(NumBlocks) /\ NumBlocks > 0
      BY <1>4, <2>3 DEF BindLabel, StartsBlock
    <3>2. NumBlocks' = NumBlocks /\ Span' = Span /\ Indices' = Indices
      BY <3>1, <1>1 DEF NumBlocks, Span, Indices
    <3>8. PICK n : n = NumBlocks OBVIOUS
    <3>9. n \in 1 .. Span' /\ targets' = T(n) /\ 1 .. Span \subseteq 1 .. Span'
      BY <3>8, <3>1, <3>2, <1>2
    <3>3. TargetsLand' BY <3>9, <2>2
    <3>4. TermsLand' BY <1>1, <3>1, <3>2 DEF Good, TermsLand
    <3>5. PendingLand' BY <1>1, <2>1, <3>2 DEF Good, PendingLand
    <3>6. FramesOK' BY <1>1, <2>1, <3>2 DEF Good, FramesOK
    <3>7. AllOwed' BY <1>1, <2>1, <3>1, <3>2 DEF Good, AllOwed, Owed
    <3> QED BY <1>1, <2>1, <3>1, <3>3, <3>4, <3>5, <3>6, <3>7 DEF Good, Stage
  <2>4. CASE ~StartsBlock
    <3>1. PushTerminator("goto", {NumBlocks + 1}) /\ targets' = T(NumBlocks + 1)
      BY <1>4, <2>4 DEF BindLabel
    <3>2. {NumBlocks + 1} \in SUBSET ({Unpatched} \cup 1 .. NumBlocks + 1) BY <1>2
    <3>3. NumBlocks' = NumBlocks + 1 BY <3>1, <3>2, <1>3
    <3>4. Span' = NumBlocks + 1 BY <1>1, <3>3 DEF Span
    <3>7. PICK n : n = NumBlocks OBVIOUS
    <3>8. n + 1 \in 1 .. Span' /\ targets' = T(n + 1) /\ 1 .. Span \subseteq 1 .. Span'
      BY <3>7, <3>1, <3>4, <1>2
    <3>5. TargetsLand' BY <3>8, <2>2
    <3>6. Unpatched \notin {NumBlocks + 1} BY <1>2 DEF Unpatched
    <3> QED BY <1>1, <2>1, <3>1, <3>2, <3>3, <3>5, <3>6, PushKeeps, PushStep
  <2> QED BY <2>3, <2>4
<1>5. ASSUME NEW l \in Labels, Goto(l) PROVE Good'
  <2> DEFINE g == [block |-> NumBlocks, label |-> l, scopes |-> scopes]
  <2>1. /\ PushTerminator("goto", {Unpatched}) /\ gotos' = Append(gotos, g)
        /\ UNCHANGED <<targets, indirect, frames, fresh>> BY <1>5 DEF Goto
  <2>2. {Unpatched} \in SUBSET ({Unpatched} \cup 1 .. NumBlocks + 1) OBVIOUS
  <2>3. NumBlocks' = NumBlocks + 1 BY <2>1, <2>2, <1>3
  <2>4. g.block = NumBlocks /\ g.label = l OBVIOUS
  <2> HIDE DEF g
  <2>5. /\ IsSeq(gotos') /\ Len(gotos') = Len(gotos) + 1 /\ gotos'[Len(gotos) + 1] = g
        /\ \A i \in 1 .. Len(gotos) : gotos'[i] = gotos[i]
    BY <1>1, <2>1, AppendIsSeq DEF Good, PendingLand
  <2>6. Len(gotos) \in Nat BY <1>1, SeqLen DEF Good, PendingLand
  <2>7. Indices \subseteq Indices' /\ NumBlocks \in Indices' /\ 1 .. Span \subseteq 1 .. Span'
    BY <1>1, <1>2, <2>3 DEF Indices, Span
  <2>8. PendingLand' BY <1>1, <2>1, <2>4, <2>5, <2>6, <2>7 DEF Good, PendingLand
  <2>11. PICK n : n = NumBlocks OBVIOUS
  <2>9. Owed(n)' BY <2>4, <2>5, <2>6, <2>11 DEF Owed
  <2>10. \A b \in Indices : Owed(b) => Owed(b)' BY <2>1, <2>5, <2>6 DEF Owed
  <2> QED BY <1>1, <2>1, <2>2, <2>3, <2>8, <2>9, <2>10, <2>11, PushKeeps, PushStep
<1>6. ASSUME IndirectGoto PROVE Good'
  <2> DEFINE g == [block |-> NumBlocks, scopes |-> scopes, resolved |-> {}, to |-> {}]
  <2>1. /\ PushTerminator("switch", {Unpatched}) /\ indirect' = Append(indirect, g)
        /\ UNCHANGED <<targets, gotos, frames, fresh>> BY <1>6 DEF IndirectGoto
  <2>2. {Unpatched} \in SUBSET ({Unpatched} \cup 1 .. NumBlocks + 1) OBVIOUS
  <2>3. NumBlocks' = NumBlocks + 1 BY <2>1, <2>2, <1>3
  <2>4. g.block = NumBlocks /\ g.to = {} OBVIOUS
  <2> HIDE DEF g
  <2>5. /\ IsSeq(indirect') /\ Len(indirect') = Len(indirect) + 1
        /\ indirect'[Len(indirect) + 1] = g
        /\ \A i \in 1 .. Len(indirect) : indirect'[i] = indirect[i]
    BY <1>1, <2>1, AppendIsSeq DEF Good, PendingLand
  <2>6. Len(indirect) \in Nat BY <1>1, SeqLen DEF Good, PendingLand
  <2>7. Indices \subseteq Indices' /\ NumBlocks \in Indices' /\ 1 .. Span \subseteq 1 .. Span'
    BY <1>1, <1>2, <2>3 DEF Indices, Span
  <2>8. PendingLand' BY <1>1, <2>1, <2>4, <2>5, <2>6, <2>7 DEF Good, PendingLand
  <2>11. PICK n : n = NumBlocks OBVIOUS
  <2>9. Owed(n)' BY <2>4, <2>5, <2>6, <2>11 DEF Owed
  <2>10. \A b \in Indices : Owed(b) => Owed(b)' BY <2>1, <2>5, <2>6 DEF Owed
  <2> QED BY <1>1, <2>1, <2>2, <2>3, <2>8, <2>9, <2>10, <2>11, PushKeeps, PushStep
<1>7. ASSUME Return \/ \E diverges \in BOOLEAN : Call(diverges) PROVE Good'
  <2>1. /\ \E k \in {"call", "return"}, to \in {{}, {NumBlocks + 1}} : PushTerminator(k, to)
        /\ UNCHANGED <<targets, gotos, indirect, frames, fresh>> BY <1>7 DEF Return, Call
  <2>2. PICK k \in {"call", "return"}, to \in {{}, {NumBlocks + 1}} : PushTerminator(k, to)
    BY <2>1
  <2>3. to \in SUBSET ({Unpatched} \cup 1 .. NumBlocks + 1) /\ Unpatched \notin to
    BY <1>2 DEF Unpatched
  <2>4. NumBlocks' = NumBlocks + 1 BY <2>2, <2>3, <1>3
  <2> QED BY <1>1, <2>1, <2>2, <2>3, <2>4, PushKeeps, PushStep
<1> QED BY <1>4, <1>5, <1>6, <1>7 DEF JInv

-----------------------------------------------------------------------------
(* The two sides of an If, and the end of the body.                        *)
LEMMA FrameGrows ==
  ASSUME NEW f, NEW n \in Nat, FrameOK(f, n) PROVE FrameOK(f, n + 1)
BY DEF FrameOK

LEMMA EnterThenStep == ASSUME JInv, NEW c \in Conditions, EnterThen(c) PROVE JInv'
<1>1. Good /\ phase = "lower" /\ phase' = phase BY DEF JInv, EnterThen, Choose
<1>2. NumBlocks \in Nat /\ Span = NumBlocks /\ term \in Seq(Term) BY <1>1 DEF Good, NumBlocks, Span
<1> DEFINE f == [Frame("then", {}) EXCEPT !.entry = NumBlocks, !.cond = c,
                                          !.thenStart = NumBlocks + 1]
           to == {Unpatched}
<1>3. /\ \E k \in {"goto", "switch"} : PushTerminator(k, to)
      /\ frames' = Append(frames, f) /\ UNCHANGED <<targets, gotos, indirect, fresh>>
  BY DEF EnterThen
<1>4. PICK k \in {"goto", "switch"} : PushTerminator(k, to) BY <1>3
<1>5. /\ f \in Frames /\ f.kind = "then" /\ f.entry = NumBlocks /\ f.thenStart = NumBlocks + 1
      /\ f.thenExit = Unpatched
  <2>1. c \in {"true", "false", "runtime"} BY ConstantsAssumption
  <2>2. NumBlocks \in Nat /\ NumBlocks + 1 \in Nat BY <1>2
  <2> DEFINE b == Frame("then", {})
  <2>3. b \in Frames /\ b.kind = "then" /\ b.thenExit = Unpatched BY DEF Frame, Frames
  <2> HIDE DEF b
  <2>4. [b EXCEPT !.entry = NumBlocks, !.cond = c, !.thenStart = NumBlocks + 1] \in Frames
    BY <2>1, <2>2, <2>3 DEF Frames
  <2> QED BY <2>3, <2>4 DEF b, Frames
<1> HIDE DEF f
<1>6. to \in SUBSET Int BY DEF Unpatched
<1>7. /\ term' \in Seq(Term) /\ NumBlocks' = NumBlocks + 1
      /\ term'[NumBlocks + 1].to = to
      /\ \A b \in 1 .. NumBlocks : term'[b] = term[b]
  BY <1>2, <1>4, <1>6, PushTerm DEF PushTerminator, NumBlocks
<1>8. /\ frames \in Seq(Frames) /\ Len(frames) \in Nat /\ Len(frames) > 0
      /\ frames[1].kind = "block" /\ fresh \subseteq Locals
      /\ \A i \in 1 .. Len(frames) : FrameOK(frames[i], NumBlocks)
  BY <1>1 DEF Good, FramesOK
<1>9. /\ frames' \in Seq(Frames) /\ Len(frames') = Len(frames) + 1
      /\ frames'[Len(frames) + 1] = f
      /\ \A i \in 1 .. Len(frames) : frames'[i] = frames[i]
  BY <1>3, <1>5, <1>8
<1>10. FrameOK(f, NumBlocks + 1) BY <1>2, <1>5 DEF FrameOK
<1>11. FramesOK'
  <2>1. \A i \in 1 .. Len(frames') : FrameOK(frames'[i], NumBlocks + 1)
    BY <1>2, <1>8, <1>9, <1>10, FrameGrows
  <2> QED BY <1>3, <1>7, <1>8, <1>9, <2>1 DEF FramesOK
<1>12. TargetsLand' /\ PendingLand' BY <1>1, <1>3, <1>7, PushKeeps
<1>13. Span' = NumBlocks + 1 BY <1>1, <1>7 DEF Span
<1>14. TermsLand' BY <1>1, <1>2, <1>7, <1>13 DEF Good, TermsLand
<1>15. AllOwed'
  <2> SUFFICES ASSUME NEW b \in 0 .. NumBlocks, Unpatched \in term'[b + 1].to PROVE Owed(b)'
    BY <1>2, <1>7 DEF AllOwed, Indices
  <2>1. CASE b = f.entry
    <3>1. Len(frames) + 1 \in 1 .. Len(frames') BY <1>8, <1>9
    <3> QED BY <2>1, <3>1, <1>9 DEF Owed
  <2>2. CASE b # f.entry
    <3>1. b \in Indices /\ b + 1 \in 1 .. NumBlocks BY <2>2, <1>2, <1>5 DEF Indices
    <3>2. Owed(b) BY <3>1, <1>1, <1>7 DEF Good, AllOwed
    <3> QED BY <3>2, <1>3, <1>8, <1>9 DEF Owed
  <2> QED BY <2>1, <2>2
<1> QED BY <1>1, <1>7, <1>11, <1>12, <1>14, <1>15 DEF JInv, Good, Stage

LEMMA EnterElseStep == ASSUME JInv, EnterElse PROVE JInv'
<1>1. Good /\ phase = "lower" /\ phase' = phase BY DEF JInv, EnterElse
<1>2. NumBlocks \in Nat /\ Span = NumBlocks /\ term \in Seq(Term) BY <1>1 DEF Good, NumBlocks, Span
<1> DEFINE n == Len(frames)
           f == [Last(frames) EXCEPT !.kind = "else", !.thenExit = NumBlocks]
           to == {Unpatched}
<1>3. /\ PushTerminator("goto", to) /\ frames' = SetLast(frames, f)
      /\ Last(frames).kind = "then" /\ UNCHANGED <<targets, gotos, indirect, fresh>>
  BY DEF EnterElse
<1>4. /\ frames \in Seq(Frames) /\ n \in Nat /\ n > 0 /\ IsSeq(frames)
      /\ frames[1].kind = "block" /\ fresh \subseteq Locals
      /\ \A i \in 1 .. n : FrameOK(frames[i], NumBlocks)
  BY <1>1 DEF Good, FramesOK, IsSeq
<1>5. Last(frames) = frames[n] BY <1>4, FrontIsSeq
<1>6. frames[n] \in Frames /\ FrameOK(frames[n], NumBlocks) /\ frames[n].kind = "then" /\ n > 1
  BY <1>3, <1>4, <1>5
<1>7. /\ f \in Frames /\ f.kind = "else" /\ f.entry = frames[n].entry
      /\ f.thenStart = frames[n].thenStart /\ f.thenExit = NumBlocks
  BY <1>2, <1>5, <1>6 DEF Frames
<1> HIDE DEF f
<1>8. to \in SUBSET Int BY DEF Unpatched
<1>9. /\ term' \in Seq(Term) /\ NumBlocks' = NumBlocks + 1
      /\ term'[NumBlocks + 1].to = to
      /\ \A b \in 1 .. NumBlocks : term'[b] = term[b]
  BY <1>2, <1>3, <1>8, PushTerm DEF PushTerminator, NumBlocks
<1>10. /\ IsSeq(frames') /\ Len(frames') = n /\ frames'[n] = f
       /\ \A i \in 1 .. n - 1 : frames'[i] = frames[i]
  BY <1>3, <1>4, SetLastIsSeq
<1>11. FrameOK(f, NumBlocks + 1) BY <1>2, <1>6, <1>7 DEF FrameOK
<1>12. FramesOK'
  <2>1. \A i \in 1 .. n : frames'[i] \in Frames BY <1>4, <1>7, <1>10
  <2>2. frames' \in Seq(Frames) BY <2>1, <1>10, SeqFrom
  <2>3. \A i \in 1 .. n : FrameOK(frames'[i], NumBlocks + 1)
    <3> SUFFICES ASSUME NEW i \in 1 .. n PROVE FrameOK(frames'[i], NumBlocks + 1) OBVIOUS
    <3>1. CASE i = n BY <3>1, <1>10, <1>11
    <3>2. CASE i # n
      <4>1. i \in 1 .. n - 1 BY <3>2, <1>4
      <4>2. FrameOK(frames'[i], NumBlocks) BY <4>1, <1>4, <1>10
      <4> QED BY <4>2, <1>2, FrameGrows
    <3> QED BY <3>1, <3>2
  <2> QED BY <1>3, <1>4, <1>6, <1>9, <1>10, <2>2, <2>3 DEF FramesOK
<1>13. TargetsLand' /\ PendingLand' BY <1>1, <1>3, <1>9, PushKeeps
<1>14. Span' = NumBlocks + 1 BY <1>1, <1>9 DEF Span
<1>15. TermsLand' BY <1>1, <1>2, <1>9, <1>14 DEF Good, TermsLand
<1>16. AllOwed'
  <2> SUFFICES ASSUME NEW b \in 0 .. NumBlocks, Unpatched \in term'[b + 1].to PROVE Owed(b)'
    BY <1>2, <1>9 DEF AllOwed, Indices
  <2>1. CASE b = f.thenExit
    <3>1. n \in 1 .. Len(frames') BY <1>4, <1>10
    <3> QED BY <2>1, <3>1, <1>10 DEF Owed
  <2>2. CASE b # f.thenExit
    <3>1. b \in Indices /\ b + 1 \in 1 .. NumBlocks /\ b # Unpatched
      BY <2>2, <1>2, <1>7 DEF Indices, Unpatched
    <3>2. Owed(b) BY <3>1, <1>1, <1>9 DEF Good, AllOwed
    <3>3. CASE \E i \in 1 .. n : b = frames[i].entry \/ b = frames[i].thenExit
      <4>1. PICK i \in 1 .. n : b = frames[i].entry \/ b = frames[i].thenExit BY <3>3
      <4>2. CASE i = n
        <5>1. b = frames[n].entry BY <4>1, <4>2, <3>1, <1>6 DEF FrameOK
        <5> QED BY <5>1, <1>4, <1>7, <1>10 DEF Owed
      <4>3. CASE i # n
        <5>1. i \in 1 .. n - 1 /\ i \in 1 .. Len(frames') BY <4>3, <1>4, <1>10
        <5> QED BY <5>1, <4>1, <1>10 DEF Owed
      <4> QED BY <4>2, <4>3
    <3> QED BY <3>2, <3>3, <1>3 DEF Owed
  <2> QED BY <2>1, <2>2
<1> QED BY <1>1, <1>9, <1>10, <1>12, <1>13, <1>15, <1>16 DEF JInv, Good, Stage

(* The blocks an If leaves: no jump of its own waits any longer.           *)
LEMMA ExitIfTerms ==
  ASSUME Good, ExitIf, NEW n, n = Len(frames), NEW f, f = frames[n]
  PROVE  /\ phase = "lower" /\ phase' = phase /\ UNCHANGED <<targets, gotos, indirect, fresh>>
         /\ n \in Nat /\ n > 1 /\ IsSeq(frames') /\ Len(frames') = n - 1 /\ Last(frames) = f
         /\ \A i \in 1 .. n - 1 : frames'[i] = frames[i]
         /\ term' \in Seq(Term) /\ NumBlocks' = NumBlocks + 1
         /\ \A b \in 1 .. NumBlocks + 1 :
              \/ term'[b].to \subseteq 1 .. NumBlocks + 1
              \/ /\ b \in 1 .. NumBlocks /\ term'[b] = term[b]
                 /\ b # f.entry + 1 /\ b # f.thenExit + 1
         /\ f.entry \in Indices /\ f.thenExit \in Indices
         /\ \A b \in 1 .. NumBlocks : b = f.entry + 1 \/ b = f.thenExit + 1 \/ term'[b] = term[b]
<1>1. Good /\ phase = "lower" /\ phase' = phase BY DEF ExitIf
<1>2. NumBlocks \in Nat /\ Span = NumBlocks /\ term \in Seq(Term) BY <1>1 DEF Good, NumBlocks, Span
<1> DEFINE join == NumBlocks + 1
           closed == Append(term, [kind |-> "goto", to |-> {join}])
           joined == Patched(closed, f.thenExit, {join})
<1>4. /\ frames \in Seq(Frames) /\ n \in Nat /\ n > 0 /\ IsSeq(frames)
      /\ frames[1].kind = "block" /\ fresh \subseteq Locals
      /\ \A i \in 1 .. n : FrameOK(frames[i], NumBlocks)
  BY <1>1 DEF Good, FramesOK, IsSeq
<1>5. /\ IsSeq(frames') /\ Len(frames') = n - 1 /\ Last(frames) = f
      /\ \A i \in 1 .. n - 1 : frames'[i] = frames[i]
  BY <1>4, FrontIsSeq DEF ExitIf
<1>3. /\ term' = Patched(joined, f.entry, Branches(f)) /\ f.kind = "else"
      /\ UNCHANGED <<targets, gotos, indirect, fresh>>
  BY <1>5 DEF ExitIf
<1>6. /\ n > 1 /\ f \in Frames
      /\ f.entry \in 0 .. NumBlocks - 1 /\ f.thenStart \in 1 .. NumBlocks
      /\ f.thenExit \in 0 .. NumBlocks - 1
  BY <1>3, <1>4 DEF FrameOK
<1>7. Branches(f) \in SUBSET (1 .. NumBlocks)
  <2>1. f.cond \in {"true", "false", "runtime"} BY <1>6 DEF Frames
  <2> QED BY <1>2, <1>6, <2>1 DEF Branches
<1>8. /\ closed \in Seq(Term) /\ Len(closed) = NumBlocks + 1
      /\ closed[NumBlocks + 1].to = {join}
      /\ \A b \in 1 .. NumBlocks : closed[b] = term[b]
  BY <1>2, PushTerm DEF NumBlocks
<1> HIDE DEF closed
<1>9. /\ joined \in Seq(Term) /\ Len(joined) = NumBlocks + 1
      /\ joined[f.thenExit + 1].to = {join}
      /\ \A b \in 1 .. NumBlocks + 1 : b # f.thenExit + 1 => joined[b] = closed[b]
  <2>1. f.thenExit \in 0 .. Len(closed) - 1 BY <1>2, <1>6, <1>8
  <2>2. {join} \in SUBSET Int BY <1>2
  <2> QED BY <1>8, <2>1, <2>2, PatchTerm
<1> HIDE DEF joined
<1>10. /\ term' \in Seq(Term) /\ NumBlocks' = NumBlocks + 1
       /\ term'[f.entry + 1].to = Branches(f)
       /\ \A b \in 1 .. NumBlocks + 1 : b # f.entry + 1 => term'[b] = joined[b]
  <2>1. f.entry \in 0 .. Len(joined) - 1 BY <1>2, <1>6, <1>9
  <2>2. Branches(f) \in SUBSET Int BY <1>7
  <2> PICK p, to : p = Patched(joined, f.entry, to) /\ to = Branches(f) OBVIOUS
  <2>3. /\ p \in Seq(Term) /\ Len(p) = Len(joined) /\ p[f.entry + 1].to = to
        /\ \A b \in 1 .. Len(joined) : b # f.entry + 1 => p[b] = joined[b]
    <3>1. joined \in Seq(Term) /\ to \in SUBSET Int BY <1>9, <2>2
    <3> QED BY ONLY <2>1, <3>1, p = Patched(joined, f.entry, to), PatchTerm
  <2>4. term' = p /\ Len(joined) = NumBlocks + 1 BY <1>3, <1>9
  <2> QED BY <2>3, <2>4 DEF NumBlocks
<1>11. \A b \in 1 .. NumBlocks + 1 :
         \/ term'[b].to \subseteq 1 .. NumBlocks + 1
         \/ /\ b \in 1 .. NumBlocks /\ term'[b] = term[b]
            /\ b # f.entry + 1 /\ b # f.thenExit + 1
  <2> SUFFICES ASSUME NEW b \in 1 .. NumBlocks + 1
               PROVE  \/ term'[b].to \subseteq 1 .. NumBlocks + 1
                      \/ /\ b \in 1 .. NumBlocks /\ term'[b] = term[b]
                         /\ b # f.entry + 1 /\ b # f.thenExit + 1
    OBVIOUS
  <2>1. {join} \subseteq 1 .. NumBlocks + 1 /\ 1 .. NumBlocks \subseteq 1 .. NumBlocks + 1 BY <1>2
  <2>2. CASE b = f.entry + 1 BY <2>1, <2>2, <1>7, <1>10
  <2>3. CASE b # f.entry + 1 /\ b = f.thenExit + 1 BY <2>1, <2>3, <1>9, <1>10
  <2>4. CASE b # f.entry + 1 /\ b # f.thenExit + 1 /\ b = NumBlocks + 1
    BY <2>1, <2>4, <1>8, <1>9, <1>10
  <2>5. CASE b # f.entry + 1 /\ b # f.thenExit + 1 /\ b # NumBlocks + 1
    <3>1. b \in 1 .. NumBlocks BY <2>5, <1>2
    <3> QED BY <2>5, <3>1, <1>8, <1>9, <1>10
  <2> QED BY <2>2, <2>3, <2>4, <2>5
<1>12. \A b \in 1 .. NumBlocks : b = f.entry + 1 \/ b = f.thenExit + 1 \/ term'[b] = term[b]
  <2>1. 1 .. NumBlocks \subseteq 1 .. NumBlocks + 1 BY <1>2
  <2> QED BY <1>8, <1>9, <1>10, <2>1
<1>13. f.entry \in Indices /\ f.thenExit \in Indices BY <1>6 DEF Indices
<1> QED BY <1>1, <1>3, <1>4, <1>5, <1>6, <1>10, <1>11, <1>12, <1>13

LEMMA ExitIfStep == ASSUME JInv, ExitIf PROVE JInv'
<1> PICK n : n = Len(frames)
  OBVIOUS
<1> PICK f : f = frames[n]
  OBVIOUS
<1>1. Good BY DEF JInv, ExitIf
<1>2. NumBlocks \in Nat /\ Span = NumBlocks /\ term \in Seq(Term)
  BY <1>1 DEF Good, NumBlocks, Span, ExitIf
<1>3. /\ phase = "lower" /\ phase' = phase /\ UNCHANGED <<targets, gotos, indirect, fresh>>
      /\ n \in Nat /\ n > 1 /\ IsSeq(frames') /\ Len(frames') = n - 1 /\ Last(frames) = f
      /\ \A i \in 1 .. n - 1 : frames'[i] = frames[i]
      /\ term' \in Seq(Term) /\ NumBlocks' = NumBlocks + 1
  BY <1>1, ExitIfTerms
<1>4. \A b \in 1 .. NumBlocks + 1 :
        \/ term'[b].to \subseteq 1 .. NumBlocks + 1
        \/ /\ b \in 1 .. NumBlocks /\ term'[b] = term[b]
           /\ b # f.entry + 1 /\ b # f.thenExit + 1
  BY <1>1, ExitIfTerms
<1>5. /\ frames \in Seq(Frames) /\ IsSeq(frames) /\ frames[1].kind = "block" /\ fresh \subseteq Locals
      /\ \A i \in 1 .. n : FrameOK(frames[i], NumBlocks)
  BY <1>1 DEF Good, FramesOK, IsSeq
<1>6. f.entry \in Int /\ f.thenExit \in Int
  <2>1. f \in Frames BY <1>3, <1>5
  <2> QED BY <2>1 DEF Frames, Unpatched
<1>7. Span' = NumBlocks + 1 BY <1>3 DEF Span
<1>8. TermsLand'
  <2>1. 1 .. Span \subseteq 1 .. NumBlocks + 1 BY <1>2
  <2> QED BY <1>1, <1>3, <1>4, <1>7, <2>1 DEF Good, TermsLand
<1>9. TargetsLand' /\ PendingLand' BY <1>1, <1>3, PushKeeps
<1>10. FramesOK'
  <2>1. \A i \in 1 .. n - 1 : frames'[i] \in Frames BY <1>3, <1>5
  <2>2. frames' \in Seq(Frames) BY <2>1, <1>3, SeqFrom
  <2>3. ASSUME NEW i \in 1 .. n - 1 PROVE FrameOK(frames'[i], NumBlocks + 1)
    <3>1. i \in 1 .. n BY <1>3
    <3>2. FrameOK(frames[i], NumBlocks) BY <3>1, <1>5
    <3>3. FrameOK(frames[i], NumBlocks + 1) BY <3>2, <1>2, FrameGrows
    <3> QED BY <3>3, <1>3
  <2> QED BY <1>3, <1>5, <2>2, <2>3 DEF FramesOK
<1>11. AllOwed'
  <2> SUFFICES ASSUME NEW b \in 0 .. NumBlocks, Unpatched \in term'[b + 1].to PROVE Owed(b)'
    BY <1>2, <1>3 DEF AllOwed, Indices
  <2>1. /\ b + 1 \in 1 .. NumBlocks /\ term'[b + 1] = term[b + 1]
        /\ b # f.entry /\ b # f.thenExit
    <3>1. b + 1 \in 1 .. NumBlocks + 1 BY <1>2
    <3>2. Unpatched \notin 1 .. NumBlocks + 1 BY DEF Unpatched
    <3> QED BY <3>1, <3>2, <1>4, <1>6
  <2>2. Owed(b) BY <2>1, <1>1, <1>2 DEF Good, AllOwed, Indices
  <2>3. ASSUME NEW i \in 1 .. n, b = frames[i].entry \/ b = frames[i].thenExit
        PROVE  i \in 1 .. n - 1 /\ frames'[i] = frames[i]
    BY <2>1, <2>3, <1>3
  <2> QED BY <2>2, <2>3, <1>3 DEF Owed
<1> QED BY <1>1, <1>3, <1>8, <1>9, <1>10, <1>11 DEF JInv, Good, Stage

LEMMA FinishStep == ASSUME JInv, Finish PROVE JInv'
<1>1. /\ Good /\ phase = "lower" /\ phase' = "patch" /\ Len(frames) = 1
      /\ PushTerminator("return", {}) /\ UNCHANGED <<targets, gotos, indirect, frames, fresh>>
  BY DEF JInv, Finish
<1>2. NumBlocks \in Nat /\ Span = NumBlocks /\ term \in Seq(Term) BY <1>1 DEF Good, NumBlocks, Span
<1>3. /\ term' \in Seq(Term) /\ NumBlocks' = NumBlocks + 1
      /\ term'[NumBlocks + 1].to = {}
      /\ \A b \in 1 .. NumBlocks : term'[b] = term[b]
  BY <1>1, <1>2, PushTerm DEF PushTerminator, NumBlocks
<1>4. Span' = Span /\ Indices \subseteq Indices' BY <1>1, <1>2, <1>3 DEF Span, Indices
<1>5. TermsLand' BY <1>1, <1>2, <1>3, <1>4 DEF Good, TermsLand
<1>6. TargetsLand' /\ PendingLand' BY <1>1, <1>4 DEF Good, TargetsLand, PendingLand
<1>7. FramesOK' BY <1>1, <1>2, <1>3, FrameGrows DEF Good, FramesOK
<1>8. AllOwed'
  <2> SUFFICES ASSUME NEW b \in 0 .. NumBlocks, Unpatched \in term'[b + 1].to PROVE Owed(b)'
    BY <1>2, <1>3 DEF AllOwed, Indices
  <2>1. b \in Indices /\ b + 1 \in 1 .. NumBlocks BY <1>2, <1>3 DEF Indices
  <2> QED BY <2>1, <1>1, <1>3 DEF Good, AllOwed, Owed
<1> QED BY <1>1, <1>3, <1>5, <1>6, <1>7, <1>8 DEF JInv, Good, Stage

-----------------------------------------------------------------------------
(* Patching.  A transition block jumps to a label's block, and the jump it *)
(* was made for to the transition block.                                   *)
LEMMA TransitLands ==
  ASSUME Good, phase = "patch", NEW from, NEW l \in Labels, targets[l] # Unbound,
         NEW t, t = Transit(from, l)
  PROVE  /\ t.term \in Seq(Term) /\ Len(t.term) \in {NumBlocks, NumBlocks + 1}
         /\ t.to \in 1 .. Len(t.term) - 1
         /\ \A b \in 1 .. NumBlocks : t.term[b] = term[b]
         /\ \A b \in 1 .. Len(t.term) :
              b \in 1 .. NumBlocks \/ t.term[b].to \subseteq 1 .. Len(t.term) - 1
<1>1. /\ NumBlocks \in Nat /\ Len(term) = NumBlocks /\ term \in Seq(Term)
      /\ targets[l].block \in 1 .. NumBlocks - 1
  BY DEF Good, NumBlocks, TargetsLand, Span
<1>2. CASE Storage(from, targets[l].scopes) = << >>
  <2>1. t.term = term /\ t.to = targets[l].block BY <1>2 DEF Transit
  <2> QED BY <1>1, <2>1
<1>3. CASE Storage(from, targets[l].scopes) # << >>
  <2> DEFINE to == {targets[l].block}
             ts == Append(term, [kind |-> "goto", to |-> to])
  <2>1. t.term = ts /\ t.to = NumBlocks BY <1>3 DEF Transit
  <2>2. to \in SUBSET Int /\ to \subseteq 1 .. NumBlocks BY <1>1
  <2>3. /\ ts \in Seq(Term) /\ Len(ts) = NumBlocks + 1 /\ ts[NumBlocks + 1].to = to
        /\ \A b \in 1 .. NumBlocks : ts[b] = term[b]
    BY <1>1, <2>2, PushTerm
  <2> HIDE DEF ts, to
  <2>4. NumBlocks \in 1 .. (NumBlocks + 1) - 1 BY <1>1
  <2>5. \A b \in 1 .. NumBlocks + 1 : b \in 1 .. NumBlocks \/ b = NumBlocks + 1 BY <1>1
  <2>6. 1 .. NumBlocks = 1 .. (NumBlocks + 1) - 1 BY <1>1
  <2> QED BY <2>1, <2>2, <2>3, <2>4, <2>5, <2>6
<1> QED BY <1>2, <1>3

LEMMA PatchStep ==
  ASSUME Good, phase = "patch", phase' = phase, term' \in Seq(Term),
         NumBlocks' \in {NumBlocks, NumBlocks + 1},
         UNCHANGED <<targets, frames, fresh>>, PendingLand',
         \A b \in 1 .. NumBlocks' :
           \/ term'[b].to \subseteq 1 .. NumBlocks' - 1
           \/ /\ b \in 1 .. NumBlocks /\ term'[b] = term[b]
              /\ Owed(b - 1) => Owed(b - 1)'
  PROVE  Good'
<1>1. /\ NumBlocks \in Nat /\ NumBlocks' \in Nat /\ NumBlocks <= NumBlocks'
      /\ Span = NumBlocks - 1 /\ Span' = NumBlocks' - 1
  BY DEF Good, NumBlocks, Span
<1>2. 1 .. Span \subseteq 1 .. Span' /\ \A b \in 0 .. NumBlocks' - 1 : b + 1 \in 1 .. NumBlocks'
  <2>1. PICK m, n : m = NumBlocks /\ n = NumBlocks' OBVIOUS
  <2>2. m \in Nat /\ n \in Nat /\ m <= n BY <1>1, <2>1
  <2>3. 1 .. m - 1 \subseteq 1 .. n - 1 /\ \A b \in 0 .. n - 1 : b + 1 \in 1 .. n BY <2>2
  <2> QED BY <1>1, <2>1, <2>3
<1>3. TermsLand' BY <1>1, <1>2 DEF Good, TermsLand
<1>4. TargetsLand' BY <1>2 DEF Good, TargetsLand
<1>5. FramesOK' BY <1>1, FrameGrows DEF Good, FramesOK
<1>6. AllOwed'
  <2> SUFFICES ASSUME NEW b \in 0 .. NumBlocks' - 1, Unpatched \in term'[b + 1].to PROVE Owed(b)'
    BY DEF AllOwed, Indices
  <2>1. b + 1 \in 1 .. NumBlocks' /\ (b + 1) - 1 = b
    <3>1. b \in Int BY <1>1
    <3> QED BY <3>1, <1>2
  <2>2. Unpatched \notin 1 .. NumBlocks' - 1 BY DEF Unpatched
  <2>3. /\ b + 1 \in 1 .. NumBlocks /\ term'[b + 1] = term[b + 1]
        /\ Owed(b) => Owed(b)'
    BY <2>1, <2>2
  <2>4. b \in Indices BY <2>3, <1>1 DEF Indices
  <2> QED BY <2>3, <2>4 DEF Good, AllOwed
<1> QED BY <1>3, <1>4, <1>5, <1>6 DEF Good, Stage

LEMMA FailStep ==
  ASSUME NEW e \in {"vla", "unresolved", "noLabels"}, Fail(e) PROVE JInv'
BY DEF Fail, JInv

(* The blocks a goto leaves when its target is known.                      *)
LEMMA PatchGotoTerms ==
  ASSUME Good, PatchGoto, NEW g, g = Head(gotos), NEW t, t = Transit(g.scopes, g.label),
         Rejected(g.scopes, g.label) = "no", NEW n, n = Len(t.term)
  PROVE  /\ phase = "patch" /\ phase' = phase /\ UNCHANGED <<targets, indirect, frames, fresh>>
         /\ IsSeq(gotos) /\ Len(gotos) > 0 /\ gotos' = Tail(gotos) /\ g = gotos[1]
         /\ g.block \in Indices /\ g.label \in Labels
         /\ term' \in Seq(Term) /\ NumBlocks' = n /\ n \in {NumBlocks, NumBlocks + 1}
         /\ \A b \in 1 .. n : \/ term'[b].to \subseteq 1 .. n - 1
                              \/ /\ b \in 1 .. NumBlocks /\ term'[b] = term[b]
                                 /\ b # g.block + 1
         /\ \A b \in 1 .. NumBlocks : b = g.block + 1 \/ term'[b] = term[b]
<1>1. /\ phase = "patch" /\ phase' = phase /\ gotos # << >>
      /\ term' = Patched(t.term, g.block, {t.to}) /\ gotos' = Tail(gotos)
      /\ UNCHANGED <<targets, indirect, frames, fresh>>
  BY DEF PatchGoto
<1>2. IsSeq(gotos) /\ Len(gotos) > 0 /\ Len(gotos) \in Nat
  BY <1>1, NonEmpty, SeqLen DEF Good, PendingLand
<1>3. g = gotos[1] BY <1>2, TailIsSeq
<1>4. g.block \in Indices /\ g.label \in Labels BY <1>2, <1>3 DEF Good, PendingLand
<1>5. targets[g.label] # Unbound BY DEF Rejected
<1>6. /\ t.term \in Seq(Term) /\ n \in {NumBlocks, NumBlocks + 1} /\ t.to \in 1 .. n - 1
      /\ \A b \in 1 .. NumBlocks : t.term[b] = term[b]
      /\ \A b \in 1 .. n : b \in 1 .. NumBlocks \/ t.term[b].to \subseteq 1 .. n - 1
  BY <1>1, <1>4, <1>5, TransitLands
<1>7. NumBlocks \in Nat BY DEF Good, NumBlocks
<1>8. /\ term' \in Seq(Term) /\ Len(term') = n /\ term'[g.block + 1].to = {t.to}
      /\ \A b \in 1 .. n : b # g.block + 1 => term'[b] = t.term[b]
  <2>1. g.block \in 0 .. n - 1 BY <1>4, <1>6, <1>7 DEF Indices
  <2>2. {t.to} \in SUBSET Int BY <1>6
  <2> PICK ts, to : ts = t.term /\ to = {t.to} OBVIOUS
  <2>3. ts \in Seq(Term) /\ g.block \in 0 .. Len(ts) - 1 /\ to \in SUBSET Int BY <1>6, <2>1, <2>2
  <2> PICK p : p = Patched(ts, g.block, to) OBVIOUS
  <2>4. /\ p \in Seq(Term) /\ Len(p) = Len(ts) /\ p[g.block + 1].to = to
        /\ \A b \in 1 .. Len(ts) : b # g.block + 1 => p[b] = ts[b]
    BY ONLY <2>3, p = Patched(ts, g.block, to), PatchTerm
  <2>5. term' = p BY <1>1
  <2> QED BY <2>4, <2>5
<1>9. NumBlocks' = n BY <1>8 DEF NumBlocks
<1>10. \A b \in 1 .. n : \/ term'[b].to \subseteq 1 .. n - 1
                         \/ /\ b \in 1 .. NumBlocks /\ term'[b] = term[b]
                            /\ b # g.block + 1
  BY <1>6, <1>8
<1>11. \A b \in 1 .. NumBlocks : b = g.block + 1 \/ term'[b] = term[b]
  <2>1. 1 .. NumBlocks \subseteq 1 .. n BY <1>6, <1>7
  <2> QED BY <1>6, <1>8, <2>1
<1> QED BY <1>1, <1>2, <1>3, <1>4, <1>6, <1>8, <1>9, <1>10, <1>11

LEMMA PatchGotoStep == ASSUME JInv, PatchGoto PROVE JInv'
<1> PICK g : g = Head(gotos)
  OBVIOUS
<1> PICK t : t = Transit(g.scopes, g.label)
  OBVIOUS
<1>1. CASE Rejected(g.scopes, g.label) # "no"
  <2>1. Rejected(g.scopes, g.label) \in {"vla", "unresolved"} BY <1>1 DEF Rejected
  <2> QED BY <1>1, <2>1, FailStep DEF PatchGoto
<1>2. CASE Rejected(g.scopes, g.label) = "no"
  <2> PICK n : n = Len(t.term)
    OBVIOUS
  <2>1. Good BY DEF JInv, PatchGoto
  <2>2. /\ phase = "patch" /\ phase' = phase /\ UNCHANGED <<targets, indirect, frames, fresh>>
        /\ IsSeq(gotos) /\ Len(gotos) > 0 /\ gotos' = Tail(gotos) /\ g = gotos[1]
        /\ g.block \in Indices /\ g.label \in Labels
        /\ term' \in Seq(Term) /\ NumBlocks' = n /\ n \in {NumBlocks, NumBlocks + 1}
        /\ \A b \in 1 .. n : \/ term'[b].to \subseteq 1 .. n - 1
                             \/ /\ b \in 1 .. NumBlocks /\ term'[b] = term[b]
                                /\ b # g.block + 1
    BY <1>2, <2>1, PatchGotoTerms
  <2>3. /\ IsSeq(gotos') /\ Len(gotos') = Len(gotos) - 1 /\ Len(gotos) \in Nat
        /\ \A i \in 1 .. Len(gotos) - 1 : gotos'[i] = gotos[i + 1]
    BY <2>2, TailIsSeq, SeqLen
  <2>4. NumBlocks \in Nat BY <2>1 DEF Good, NumBlocks
  <2>5. PendingLand'
    <3>1. Indices \subseteq Indices' /\ 1 .. Span \subseteq 1 .. Span'
      BY <2>2, <2>4 DEF Indices, Span
    <3>2. \A i \in 1 .. Len(gotos') : gotos'[i].block \in Indices' /\ gotos'[i].label \in Labels
      <4>1. \A i \in 1 .. Len(gotos') : i + 1 \in 1 .. Len(gotos) BY <2>3
      <4> QED BY <2>1, <2>3, <3>1, <4>1 DEF Good, PendingLand
    <3> QED BY <2>1, <2>2, <2>3, <3>1, <3>2 DEF Good, PendingLand
  <2>6. ASSUME NEW b \in 1 .. NumBlocks, b # g.block + 1, Owed(b - 1) PROVE Owed(b - 1)'
    <3>1. ASSUME NEW i \in 1 .. Len(gotos), gotos[i].block = b - 1
          PROVE  i - 1 \in 1 .. Len(gotos') /\ gotos'[i - 1].block = b - 1
      <4>1. i # 1 BY <3>1, <2>6, <2>2, <2>4 DEF Indices
      <4>2. i - 1 \in 1 .. Len(gotos) - 1 /\ (i - 1) + 1 = i BY <4>1, <2>3
      <4> QED BY <3>1, <4>2, <2>3
    <3> QED BY <2>6, <3>1, <2>2 DEF Owed
  <2>7. Good' BY <2>1, <2>2, <2>5, <2>6, PatchStep
  <2> QED BY <2>7 DEF JInv
<1> QED BY <1>1, <1>2

LEMMA PatchIndirectLabelStep == ASSUME JInv, NEW l \in Labels, PatchIndirectLabel(l) PROVE JInv'
<1> DEFINE g == Head(indirect)
           t == Transit(g.scopes, l)
           h == [block |-> g.block, scopes |-> g.scopes,
                 resolved |-> g.resolved \cup {l}, to |-> g.to \cup {t.to}]
<1>1. CASE Rejected(g.scopes, l) # "no"
  <2>1. Rejected(g.scopes, l) \in {"vla", "unresolved"} BY <1>1 DEF Rejected
  <2> QED BY <1>1, <2>1, FailStep DEF PatchIndirectLabel
<1>2. CASE Rejected(g.scopes, l) = "no"
  <2>1. /\ Good /\ phase = "patch" /\ phase' = phase /\ indirect # << >>
        /\ term' = t.term /\ indirect' = <<h>> \o Tail(indirect)
        /\ UNCHANGED <<targets, gotos, frames, fresh>>
    BY <1>2 DEF JInv, PatchIndirectLabel
  <2>2. Len(indirect) \in Nat /\ Len(indirect) > 0
    BY <2>1, NonEmpty, SeqLen DEF Good, PendingLand
  <2>3. Head(indirect) = indirect[1] BY <2>1, <2>2, TailIsSeq DEF Good, PendingLand
  <2>4. /\ IsSeq(indirect') /\ Len(indirect') = Len(indirect) /\ indirect'[1] = h
        /\ \A i \in 2 .. Len(indirect) : indirect'[i] = indirect[i]
    BY <2>1, <2>2, SetFirstIsSeq DEF Good, PendingLand
  <2>5. targets[l] # Unbound BY <1>2 DEF Rejected
  <2> DEFINE n == Len(t.term)
  <2>6. /\ t.term \in Seq(Term) /\ n \in {NumBlocks, NumBlocks + 1} /\ t.to \in 1 .. n - 1
        /\ \A b \in 1 .. NumBlocks : t.term[b] = term[b]
        /\ \A b \in 1 .. n : b \in 1 .. NumBlocks \/ t.term[b].to \subseteq 1 .. n - 1
    BY <2>1, <2>5, TransitLands
  <2>7. NumBlocks \in Nat BY <2>1 DEF Good, NumBlocks
  <2>8. h.block = g.block /\ h.to = g.to \cup {t.to} OBVIOUS
  <2>9. g = indirect[1] BY <2>3
  <2> HIDE DEF t, g, h
  <2>10. NumBlocks' = n BY <2>1 DEF NumBlocks
  <2>11. Indices \subseteq Indices' /\ 1 .. Span \subseteq 1 .. Span' /\ Span' = n - 1
    BY <2>1, <2>6, <2>7, <2>10 DEF Indices, Span
  <2>12. \A i \in 1 .. Len(indirect) : indirect'[i].block = indirect[i].block
    BY <2>2, <2>4, <2>8, <2>9
  <2>13. PendingLand'
    <3>1. \A i \in 1 .. Len(indirect) : indirect[i].block \in Indices /\ indirect[i].to \subseteq 1 .. Span
      BY <2>1 DEF Good, PendingLand
    <3>2. h.to \subseteq 1 .. Span' BY <3>1, <2>2, <2>6, <2>8, <2>9, <2>11
    <3>3. \A i \in 1 .. Len(indirect) : indirect'[i].to \subseteq 1 .. Span'
      BY <3>1, <3>2, <2>2, <2>4, <2>11
    <3> QED BY <3>1, <3>3, <2>1, <2>4, <2>11, <2>12 DEF Good, PendingLand
  <2>14. ASSUME NEW b \in 1 .. NumBlocks, Owed(b - 1) PROVE Owed(b - 1)'
    BY <2>1, <2>4, <2>12, <2>14 DEF Owed
  <2>15. Good' BY <2>1, <2>6, <2>10, <2>13, <2>14, PatchStep
  <2> QED BY <2>15 DEF JInv
<1> QED BY <1>1, <1>2

LEMMA PatchIndirectStep == ASSUME JInv, PatchIndirect PROVE JInv'
<1> DEFINE g == Head(indirect)
<1>1. CASE g.to = {} BY <1>1, FailStep DEF PatchIndirect
<1>2. CASE g.to # {}
  <2>1. /\ Good /\ phase = "patch" /\ phase' = phase /\ indirect # << >> /\ gotos = << >>
        /\ term' = Patched(term, g.block, g.to) /\ indirect' = Tail(indirect)
        /\ UNCHANGED <<targets, gotos, frames, fresh>>
    BY <1>2 DEF JInv, PatchIndirect
  <2>2. Len(indirect) \in Nat /\ Len(indirect) > 0
    BY <2>1, NonEmpty, SeqLen DEF Good, PendingLand
  <2>3. /\ IsSeq(indirect') /\ Len(indirect') = Len(indirect) - 1 /\ g = indirect[1]
        /\ \A i \in 1 .. Len(indirect) - 1 : indirect'[i] = indirect[i + 1]
    BY <2>1, <2>2, TailIsSeq DEF Good, PendingLand
  <2>4. /\ NumBlocks \in Nat /\ Span = NumBlocks - 1 /\ g.block \in 0 .. NumBlocks - 1
        /\ g.to \subseteq 1 .. NumBlocks - 1
    BY <2>1, <2>2, <2>3 DEF Good, PendingLand, Span, NumBlocks, Indices
  <2> HIDE DEF g
  <2>5. /\ term' \in Seq(Term) /\ Len(term') = NumBlocks /\ term'[g.block + 1].to = g.to
        /\ \A b \in 1 .. NumBlocks : b # g.block + 1 => term'[b] = term[b]
    <3>1. g.to \in SUBSET Int BY <2>4
    <3>2. term \in Seq(Term) /\ Len(term) = NumBlocks BY <2>1 DEF Good, NumBlocks
    <3> PICK p, to : p = Patched(term, g.block, to) /\ to = g.to OBVIOUS
    <3>3. g.block \in 0 .. Len(term) - 1 /\ to \in SUBSET Int BY <2>4, <3>1, <3>2
    <3>4. /\ p \in Seq(Term) /\ Len(p) = Len(term) /\ p[g.block + 1].to = to
          /\ \A b \in 1 .. Len(term) : b # g.block + 1 => p[b] = term[b]
      BY ONLY <3>2, <3>3, p = Patched(term, g.block, to), PatchTerm
    <3> QED BY <2>1, <3>2, <3>4
  <2>6. NumBlocks' = NumBlocks /\ Span' = Span /\ Indices' = Indices
    BY <2>1, <2>5 DEF NumBlocks, Span, Indices
  <2>7. PendingLand'
    <3>1. \A i \in 1 .. Len(indirect') : i + 1 \in 1 .. Len(indirect) BY <2>2, <2>3
    <3> QED BY <3>1, <2>1, <2>3, <2>6 DEF Good, PendingLand
  <2>8. ASSUME NEW b \in 1 .. NumBlocks, b # g.block + 1, Owed(b - 1) PROVE Owed(b - 1)'
    <3>1. ASSUME NEW i \in 1 .. Len(indirect), indirect[i].block = b - 1
          PROVE  i - 1 \in 1 .. Len(indirect') /\ indirect'[i - 1].block = b - 1
      <4>1. i # 1 BY <3>1, <2>8, <2>3, <2>4
      <4>2. i - 1 \in 1 .. Len(indirect) - 1 /\ (i - 1) + 1 = i BY <4>1, <2>2
      <4> QED BY <3>1, <4>2, <2>3
    <3> QED BY <2>8, <3>1, <2>1 DEF Owed
  <2>9. Good' BY <2>1, <2>4, <2>5, <2>6, <2>7, <2>8, PatchStep
  <2> QED BY <2>9 DEF JInv
<1> QED BY <1>1, <1>2

LEMMA CompleteStep == ASSUME JInv, Complete PROVE JInv'
BY DEF JInv, Complete, Good, Stage, TermsLand, TargetsLand, PendingLand, FramesOK,
       AllOwed, Owed, Span, Indices, NumBlocks

-----------------------------------------------------------------------------
LEMMA StepGood == JInv /\ [Next]_vars => JInv'
<1> SUFFICES ASSUME JInv, [Next]_vars PROVE JInv' OBVIOUS
<1>1. CASE UNCHANGED vars
  BY <1>1 DEF vars, JInv, Good, Stage, TermsLand, TargetsLand, PendingLand, FramesOK,
              AllOwed, Owed, Span, Indices, NumBlocks
<1>2. CASE Lower
  <2>1. CASE \/ \E ds \in SUBSET fresh : EnterBlock(ds)
             \/ ExitBlock \/ EnterExpr \/ ExitExpr
             \/ \E x \in Locals : Decl(x) \/ Use(x)
    BY <2>1, PlainSteps
  <2>2. CASE \/ \E l \in Labels : BindLabel(l) \/ Goto(l)
             \/ IndirectGoto \/ Return
             \/ \E diverges \in BOOLEAN : Call(diverges)
    BY <2>2, PushSteps
  <2>3. ASSUME NEW c \in Conditions, EnterThen(c) PROVE JInv' BY <2>3, EnterThenStep
  <2>4. CASE EnterElse BY <2>4, EnterElseStep
  <2>5. CASE ExitIf BY <2>5, ExitIfStep
  <2>6. CASE Finish BY <2>6, FinishStep
  <2> QED BY <1>2, <2>1, <2>2, <2>3, <2>4, <2>5, <2>6 DEF Lower
<1>3. CASE Patch
  <2>1. CASE PatchGoto BY <2>1, PatchGotoStep
  <2>2. ASSUME NEW l \in Labels, PatchIndirectLabel(l) PROVE JInv'
    BY <2>2, PatchIndirectLabelStep
  <2>3. CASE PatchIndirect BY <2>3, PatchIndirectStep
  <2>4. CASE Complete BY <2>4, CompleteStep
  <2> QED BY <1>3, <2>1, <2>2, <2>3, <2>4 DEF Patch
<1> QED BY <1>1, <1>2, <1>3 DEF Next

(* However long a body is and however its jumps are nested, the MIR built  *)
(* for it has no jump left unpatched, none outside its blocks and none to  *)
(* its entry block.                                                        *)
THEOREM JumpsAlwaysLand == Spec => []JumpsLand
<1>1. Spec => []JInv BY InitGood, StepGood, PTL DEF Spec
<1> QED BY <1>1, LandsAtEnd, PTL

-----------------------------------------------------------------------------
(***************************************************************************)
(* Snapshots of the scopes.  Every snapshot was the stack of scopes once,  *)
(* and a later stack is a prefix of it, a copy of it or has a scope of an  *)
(* id never used before.                                                   *)
(***************************************************************************)
Shaped(s, n) == IsSeq(s) /\ \A i \in 1 .. Len(s) : s[i].id \in 0 .. n - 1

Agree(s, t) ==
  \A i \in DOMAIN s, j \in DOMAIN t :
    s[i].id = t[j].id => i = j /\ \A k \in 1 .. i : s[k].id = t[k].id /\ s[k].locals = t[k].locals

(* The same scopes as a prefix of s, but for the VLAs seen in them.        *)
Copies(x, s) ==
  IsSeq(x) /\ Len(x) <= Len(s) /\ \A i \in 1 .. Len(x) : x[i].id = s[i].id /\ x[i].locals = s[i].locals

LEMMA SeqDomain == ASSUME NEW s, IsSeq(s) PROVE DOMAIN s = 1 .. Len(s)
<1>1. PICK S : s \in Seq(S)
  BY DEF IsSeq
<1> QED BY <1>1

LEMMA CopiesItself == ASSUME NEW s, IsSeq(s) PROVE Copies(s, s)
BY SeqLen DEF Copies

LEMMA CopiesShaped ==
  ASSUME NEW n \in Nat, NEW s, Shaped(s, n), NEW x, Copies(x, s) PROVE Shaped(x, n)
<1>1. Len(x) \in Nat /\ Len(s) \in Nat
  BY SeqLen DEF Shaped, Copies
<1>2. 1 .. Len(x) \subseteq 1 .. Len(s)
  BY <1>1 DEF Copies
<1> QED BY <1>2 DEF Shaped, Copies

LEMMA CopiesAgree ==
  ASSUME NEW s, NEW t, IsSeq(s), IsSeq(t), Agree(s, t), NEW x, NEW y, Copies(x, s), Copies(y, t)
  PROVE  Agree(x, y)
<1>1. /\ DOMAIN s = 1 .. Len(s) /\ DOMAIN t = 1 .. Len(t)
      /\ DOMAIN x = 1 .. Len(x) /\ DOMAIN y = 1 .. Len(y)
      /\ Len(s) \in Nat /\ Len(t) \in Nat /\ Len(x) \in Nat /\ Len(y) \in Nat
      /\ Len(x) <= Len(s) /\ Len(y) <= Len(t)
  BY SeqDomain, SeqLen DEF Copies
<1> SUFFICES ASSUME NEW i \in 1 .. Len(x), NEW j \in 1 .. Len(y), x[i].id = y[j].id
             PROVE  i = j /\ \A k \in 1 .. i : x[k].id = y[k].id /\ x[k].locals = y[k].locals
  BY <1>1 DEF Agree
<1>2. i \in DOMAIN s /\ j \in DOMAIN t /\ s[i].id = t[j].id
  BY <1>1 DEF Copies
<1>3. i = j /\ \A k \in 1 .. i : s[k].id = t[k].id /\ s[k].locals = t[k].locals
  BY <1>2 DEF Agree
<1>4. ASSUME NEW k \in 1 .. i PROVE x[k].id = y[k].id /\ x[k].locals = y[k].locals
  <2>1. k \in 1 .. Len(x) /\ k \in 1 .. Len(y)
    BY <1>1, <1>3
  <2> QED BY <1>3, <2>1 DEF Copies
<1> QED BY <1>3, <1>4

SnapInv ==
  /\ nextScope \in Nat
  /\ \A s \in Snapshots : Shaped(s, nextScope)
  /\ \A s, t \in Snapshots : Agree(s, t)

LEMMA SnapCopies ==
  ASSUME SnapInv, nextScope' = nextScope, \A x \in Snapshots' : \E s \in Snapshots : Copies(x, s)
  PROVE  SnapInv'
<1>1. ASSUME NEW x \in Snapshots' PROVE Shaped(x, nextScope)
  <2>1. PICK s \in Snapshots : Copies(x, s)
    OBVIOUS
  <2> QED BY <2>1, CopiesShaped DEF SnapInv
<1>2. ASSUME NEW x \in Snapshots', NEW y \in Snapshots' PROVE Agree(x, y)
  <2>1. PICK s \in Snapshots : Copies(x, s)
    OBVIOUS
  <2>2. PICK t \in Snapshots : Copies(y, t)
    OBVIOUS
  <2>3. IsSeq(s) /\ IsSeq(t) /\ Agree(s, t)
    BY DEF SnapInv, Shaped
  <2> QED BY <2>1, <2>2, <2>3, CopiesAgree
<1>3. nextScope' \in Nat
  BY DEF SnapInv
<1>4. \A x \in Snapshots' : Shaped(x, nextScope')
  BY <1>1
<1>5. \A x, y \in Snapshots' : Agree(x, y)
  BY <1>2
<1>6. (\A x \in Snapshots : Shaped(x, nextScope))'
  BY <1>4 DEF Shaped
<1>7. (\A x, y \in Snapshots : Agree(x, y))'
  BY <1>5 DEF Agree
<1> QED BY <1>3, <1>6, <1>7 DEF SnapInv

LEMMA SnapSubset ==
  ASSUME SnapInv, nextScope' = nextScope, Snapshots' \subseteq Snapshots PROVE SnapInv'
<1>1. \A x \in Snapshots' : \E s \in Snapshots : Copies(x, s)
  BY CopiesItself DEF SnapInv, Shaped
<1> QED BY <1>1, SnapCopies

(* A scope of an id no snapshot has.                                       *)
LEMMA SnapFresh ==
  ASSUME SnapInv, nextScope' = nextScope + 1, NEW e, e.id = nextScope,
         NEW x, x = Append(scopes, e), Snapshots' \subseteq Snapshots \cup {x}
  PROVE  SnapInv'
<1> PICK n : n = nextScope
  OBVIOUS
<1>1. /\ n \in Nat /\ n + 1 \in Nat /\ 0 .. n - 1 \subseteq 0 .. (n + 1) - 1 /\ n \in 0 .. (n + 1) - 1
      /\ n \notin 0 .. n - 1
  BY DEF SnapInv
<1>2. scopes \in Snapshots /\ Shaped(scopes, n) /\ IsSeq(scopes) /\ Len(scopes) \in Nat
  BY SeqLen DEF Snapshots, SnapInv, Shaped
<1>3. /\ IsSeq(x) /\ Len(x) = Len(scopes) + 1 /\ x[Len(scopes) + 1] = e
      /\ \A i \in 1 .. Len(scopes) : x[i] = scopes[i]
  BY <1>2, AppendIsSeq
<1>4. \A s \in Snapshots : Shaped(s, n) /\ IsSeq(s) /\ DOMAIN s = 1 .. Len(s)
  BY SeqDomain DEF SnapInv, Shaped
<1>5. DOMAIN x = 1 .. Len(scopes) + 1
  BY <1>3, SeqDomain
<1>6. Shaped(x, n + 1)
  BY <1>1, <1>2, <1>3 DEF Shaped
<1>7. ASSUME NEW s \in Snapshots \cup {x} PROVE Shaped(s, n + 1)
  BY <1>1, <1>4, <1>6 DEF Shaped
<1>8. ASSUME NEW t \in Snapshots PROVE Agree(x, t) /\ Agree(t, x)
  <2>1. Agree(scopes, t) /\ Agree(t, scopes)
    BY <1>2 DEF SnapInv
  <2>2. \A j \in DOMAIN t : t[j].id # e.id
    BY <1>1, <1>4 DEF Shaped
  <2>3. DOMAIN scopes = 1 .. Len(scopes)
    BY <1>2, SeqDomain
  <2>4. ASSUME NEW i \in DOMAIN x, NEW j \in DOMAIN t, x[i].id = t[j].id
        PROVE  /\ i = j /\ j = i
               /\ \A k \in 1 .. i : x[k].id = t[k].id /\ x[k].locals = t[k].locals
               /\ \A k \in 1 .. j : t[k].id = x[k].id /\ t[k].locals = x[k].locals
    <3>1. i \in 1 .. Len(scopes) /\ x[i] = scopes[i]
      BY <1>2, <1>3, <1>5, <2>2, <2>4
    <3>2. i = j /\ \A k \in 1 .. i : scopes[k].id = t[k].id /\ scopes[k].locals = t[k].locals
      BY <2>1, <2>3, <2>4, <3>1 DEF Agree
    <3>3. \A k \in 1 .. i : x[k] = scopes[k]
      BY <1>2, <1>3, <3>1
    <3> QED BY <3>2, <3>3
  <2>5. Agree(x, t)
    BY <2>4 DEF Agree
  <2>6. Agree(t, x)
    BY <2>4 DEF Agree
  <2> QED BY <2>5, <2>6
<1>9. Agree(x, x)
  <2>1. Agree(scopes, scopes) /\ DOMAIN scopes = 1 .. Len(scopes)
    BY <1>2, SeqDomain DEF SnapInv
  <2> SUFFICES ASSUME NEW i \in DOMAIN x, NEW j \in DOMAIN x, x[i].id = x[j].id PROVE i = j
    BY DEF Agree
  <2>2. \A k \in 1 .. Len(scopes) : x[k] = scopes[k] /\ scopes[k].id # e.id
    BY <1>1, <1>2, <1>3 DEF Shaped
  <2>3. CASE i \in 1 .. Len(scopes) /\ j \in 1 .. Len(scopes)
    BY <2>1, <2>2, <2>3 DEF Agree
  <2>4. CASE ~(i \in 1 .. Len(scopes) /\ j \in 1 .. Len(scopes))
    BY <1>2, <1>3, <1>5, <2>2, <2>4
  <2> QED BY <2>3, <2>4
<1>10. \A s, t \in Snapshots \cup {x} : Agree(s, t)
  BY <1>8, <1>9 DEF SnapInv
<1>11. (\A s \in Snapshots : Shaped(s, nextScope))'
  BY <1>7 DEF Shaped
<1>12. (\A s, t \in Snapshots : Agree(s, t))'
  BY <1>10 DEF Agree
<1> QED BY <1>1, <1>11, <1>12 DEF SnapInv

-----------------------------------------------------------------------------
(* The blocks being lowered and the active scopes go together.             *)
BlockFrames(fs) == { i \in 1 .. Len(fs) : fs[i].kind = "block" }

ScopePerBlock == phase = "lower" => Len(scopes) = Cardinality(BlockFrames(frames))

LEMMA BlockFramesFinite ==
  ASSUME NEW fs, IsSeq(fs)
  PROVE  IsFiniteSet(BlockFrames(fs)) /\ Cardinality(BlockFrames(fs)) \in Nat
<1>1. IsFiniteSet(1 .. Len(fs))
  BY SeqLen, FS_Interval
<1>2. BlockFrames(fs) \in SUBSET (1 .. Len(fs))
  BY DEF BlockFrames
<1>3. IsFiniteSet(BlockFrames(fs))
  BY <1>1, <1>2, FS_Subset
<1> QED BY <1>3, FS_CardinalityType

LEMMA AppendFrame ==
  ASSUME NEW fs, IsSeq(fs), NEW f
  PROVE  Cardinality(BlockFrames(Append(fs, f))) =
           IF f.kind = "block" THEN Cardinality(BlockFrames(fs)) + 1
           ELSE Cardinality(BlockFrames(fs))
<1> DEFINE gs == Append(fs, f)
<1>1. /\ Len(gs) = Len(fs) + 1 /\ gs[Len(fs) + 1] = f /\ Len(fs) \in Nat
      /\ \A i \in 1 .. Len(fs) : gs[i] = fs[i]
  BY AppendIsSeq, SeqLen
<1> HIDE DEF gs
<1>2. 1 .. Len(gs) = (1 .. Len(fs)) \cup {Len(fs) + 1}
  BY <1>1
<1>3. BlockFrames(gs) = IF f.kind = "block" THEN BlockFrames(fs) \cup {Len(fs) + 1}
                        ELSE BlockFrames(fs)
  BY <1>1, <1>2 DEF BlockFrames
<1>4. Len(fs) + 1 \notin BlockFrames(fs)
  BY <1>1 DEF BlockFrames
<1>5. IsFiniteSet(BlockFrames(fs))
  BY BlockFramesFinite
<1>6. Cardinality(BlockFrames(fs) \cup {Len(fs) + 1}) = Cardinality(BlockFrames(fs)) + 1
  BY <1>4, <1>5, FS_AddElement
<1> QED BY <1>3, <1>6 DEF gs

LEMMA FrontFrame ==
  ASSUME NEW fs, IsSeq(fs), Len(fs) > 0
  PROVE  Cardinality(BlockFrames(Front(fs))) =
           IF Last(fs).kind = "block" THEN Cardinality(BlockFrames(fs)) - 1
           ELSE Cardinality(BlockFrames(fs))
<1>1. /\ Len(Front(fs)) = Len(fs) - 1 /\ Len(fs) \in Nat /\ Last(fs) = fs[Len(fs)]
      /\ \A i \in 1 .. Len(fs) - 1 : Front(fs)[i] = fs[i]
  BY FrontIsSeq, SeqLen
<1>2. 1 .. Len(fs) - 1 = (1 .. Len(fs)) \ {Len(fs)}
  BY <1>1
<1>3. BlockFrames(Front(fs)) = BlockFrames(fs) \ {Len(fs)}
  BY <1>1, <1>2 DEF BlockFrames
<1>4. Len(fs) \in BlockFrames(fs) <=> Last(fs).kind = "block"
  BY <1>1 DEF BlockFrames
<1>5. IsFiniteSet(BlockFrames(fs))
  BY BlockFramesFinite
<1> QED BY <1>3, <1>4, <1>5, FS_RemoveElement

LEMMA SetLastFrame ==
  ASSUME NEW fs, IsSeq(fs), Len(fs) > 0, NEW f, f.kind = "block" <=> Last(fs).kind = "block"
  PROVE  BlockFrames(SetLast(fs, f)) = BlockFrames(fs)
<1>1. /\ Len(SetLast(fs, f)) = Len(fs) /\ Len(fs) \in Nat /\ Last(fs) = fs[Len(fs)]
      /\ SetLast(fs, f)[Len(fs)] = f
      /\ \A i \in 1 .. Len(fs) - 1 : SetLast(fs, f)[i] = fs[i]
  BY SetLastIsSeq, SeqLen
<1>2. \A i \in 1 .. Len(fs) : SetLast(fs, f)[i].kind = "block" <=> fs[i].kind = "block"
  BY <1>1
<1> QED BY <1>1, <1>2 DEF BlockFrames

(* The function's own block is never left.                                 *)
LEMMA ScopesOpen ==
  ASSUME Good, ScopePerBlock, phase = "lower"
  PROVE  IsSeq(frames) /\ Len(frames) > 0 /\ Len(scopes) > 0
<1>1. IsSeq(frames) /\ Len(frames) > 0 /\ Len(frames) \in Nat /\ frames[1].kind = "block"
  BY SeqLen DEF Good, FramesOK, IsSeq
<1>2. 1 \in BlockFrames(frames)
  BY <1>1 DEF BlockFrames
<1>3. IsFiniteSet(BlockFrames(frames)) /\ Cardinality(BlockFrames(frames)) \in Nat
  BY <1>1, BlockFramesFinite
<1>4. Cardinality(BlockFrames(frames)) # 0
  BY <1>2, <1>3, FS_EmptySet
<1> QED BY <1>1, <1>3, <1>4 DEF ScopePerBlock

LEMMA InitSnap == Init => ScopePerBlock /\ SnapInv
<1> SUFFICES ASSUME NEW ds \in SUBSET Locals,
                    scopes = <<OpenScope(0, ds)>>, nextScope = 1,
                    targets = [l \in Labels |-> Unbound], gotos = << >>, indirect = << >>,
                    frames = <<Frame("block", ds)>>
             PROVE  ScopePerBlock /\ SnapInv
  BY DEF Init
<1>1. IsSeq(scopes) /\ Len(scopes) = 1 /\ scopes[1].id = 0
  BY SingletonIsSeq DEF OpenScope
<1>2. ScopePerBlock
  <2>1. Len(frames) = 1 /\ frames[1].kind = "block"
    BY DEF Frame
  <2>2. BlockFrames(frames) = {1}
    BY <2>1 DEF BlockFrames
  <2> QED BY <1>1, <2>2, FS_Singleton DEF ScopePerBlock
<1>3. \A s \in Snapshots : s = scopes \/ s = << >>
  BY EmptyIsSeq DEF Snapshots, Unbound
<1>4. Shaped(scopes, 1) /\ Shaped(<< >>, 1)
  BY <1>1, EmptyIsSeq DEF Shaped
<1>5. DOMAIN scopes = {1} /\ DOMAIN << >> = {}
  BY <1>1, SeqDomain, EmptyIsSeq
<1>6. \A s, t \in {scopes, << >>} : Agree(s, t)
  BY <1>5 DEF Agree
<1> QED BY <1>2, <1>3, <1>4, <1>6 DEF SnapInv

(* What an action does to the snapshots, and to the blocks being lowered.  *)
LEMMA EnterBlockSnap ==
  ASSUME Good, ScopePerBlock, SnapInv, NEW ds \in SUBSET fresh, EnterBlock(ds)
  PROVE  ScopePerBlock' /\ SnapInv'
<1>1. /\ phase = "lower" /\ nextScope' = nextScope + 1
      /\ scopes' = Append(scopes, OpenScope(nextScope, ds))
      /\ frames' = Append(frames, Frame("block", ds))
      /\ UNCHANGED <<targets, gotos, indirect>>
  BY DEF EnterBlock, Choose
<1>2. OpenScope(nextScope, ds).id = nextScope /\ Frame("block", ds).kind = "block"
  BY DEF OpenScope, Frame
<1>3. Snapshots' \subseteq Snapshots \cup {scopes'}
  BY <1>1 DEF Snapshots
<1>4. SnapInv'
  BY <1>1, <1>2, <1>3, SnapFresh
<1>5. IsSeq(scopes) /\ IsSeq(frames)
  BY DEF SnapInv, Shaped, Snapshots, Good, FramesOK, IsSeq
<1>6. Len(scopes') = Len(scopes) + 1
  BY <1>1, <1>5, AppendIsSeq
<1>7. Cardinality(BlockFrames(frames')) = Cardinality(BlockFrames(frames)) + 1
  BY <1>1, <1>2, <1>5, AppendFrame
<1>8. ScopePerBlock'
  BY <1>1, <1>6, <1>7 DEF ScopePerBlock
<1> QED BY <1>4, <1>8

LEMMA ExitBlockSnap ==
  ASSUME Good, ScopePerBlock, SnapInv, ExitBlock PROVE ScopePerBlock' /\ SnapInv'
<1>1. /\ phase = "lower" /\ nextScope' = nextScope /\ Last(frames).kind = "block"
      /\ scopes' = Front(scopes) /\ frames' = Front(frames)
      /\ UNCHANGED <<targets, gotos, indirect>>
  BY DEF ExitBlock
<1>2. IsSeq(frames) /\ Len(frames) > 0 /\ Len(scopes) > 0
  BY <1>1, ScopesOpen
<1>3. scopes \in Snapshots /\ \A s \in Snapshots : IsSeq(s)
  BY DEF Snapshots, SnapInv, Shaped
<1>4. /\ IsSeq(scopes') /\ Len(scopes') = Len(scopes) - 1 /\ Len(scopes) \in Nat
      /\ \A i \in 1 .. Len(scopes) - 1 : scopes'[i] = scopes[i]
  BY <1>1, <1>2, <1>3, FrontIsSeq, SeqLen
<1>5. Copies(scopes', scopes)
  BY <1>4 DEF Copies
<1>6. Snapshots' \subseteq Snapshots \cup {scopes'}
  BY <1>1 DEF Snapshots
<1>7. \A x \in Snapshots' : \E s \in Snapshots : Copies(x, s)
  BY <1>3, <1>5, <1>6, CopiesItself
<1>8. SnapInv'
  BY <1>1, <1>7, SnapCopies
<1>9. Cardinality(BlockFrames(frames')) = Cardinality(BlockFrames(frames)) - 1
  BY <1>1, <1>2, FrontFrame
<1>10. ScopePerBlock'
  BY <1>1, <1>4, <1>9 DEF ScopePerBlock
<1> QED BY <1>8, <1>10

LEMMA DeclSnap ==
  ASSUME Good, ScopePerBlock, SnapInv, NEW x \in Locals, Decl(x) PROVE ScopePerBlock' /\ SnapInv'
<1> DEFINE sc == [Last(scopes) EXCEPT !.vlas = @ \cup {x}]
           fr == [Last(frames) EXCEPT !.todo = @ \ {x}, !.seen = @ \cup {x}]
<1>1. /\ phase = "lower" /\ nextScope' = nextScope
      /\ scopes' = scopes \/ scopes' = SetLast(scopes, sc)
      /\ frames' = SetLast(frames, fr)
      /\ UNCHANGED <<targets, gotos, indirect>>
  BY DEF Decl, RecordVla
<1>2. IsSeq(frames) /\ Len(frames) > 0 /\ Len(scopes) > 0
  BY <1>1, ScopesOpen
<1>3. scopes \in Snapshots /\ IsSeq(scopes) /\ \A s \in Snapshots : IsSeq(s)
  BY DEF Snapshots, SnapInv, Shaped
<1>4. sc.id = Last(scopes).id /\ sc.locals = Last(scopes).locals
  OBVIOUS
<1>5. fr.kind = Last(frames).kind
  OBVIOUS
<1> HIDE DEF sc, fr
<1>6. /\ IsSeq(SetLast(scopes, sc)) /\ Len(SetLast(scopes, sc)) = Len(scopes)
      /\ SetLast(scopes, sc)[Len(scopes)] = sc /\ Last(scopes) = scopes[Len(scopes)]
      /\ \A i \in 1 .. Len(scopes) - 1 : SetLast(scopes, sc)[i] = scopes[i]
  BY <1>2, <1>3, SetLastIsSeq
<1>7. Len(scopes) \in Nat
  BY <1>3, SeqLen
<1>8. \A i \in 1 .. Len(scopes) : /\ SetLast(scopes, sc)[i].id = scopes[i].id
                                  /\ SetLast(scopes, sc)[i].locals = scopes[i].locals
  BY <1>4, <1>6, <1>7
<1>9. Copies(SetLast(scopes, sc), scopes)
  BY <1>6, <1>7, <1>8 DEF Copies
<1>10. Copies(scopes', scopes) /\ Len(scopes') = Len(scopes)
  BY <1>1, <1>3, <1>6, <1>9, CopiesItself
<1>11. Snapshots' \subseteq Snapshots \cup {scopes'}
  BY <1>1 DEF Snapshots
<1>12. \A y \in Snapshots' : \E s \in Snapshots : Copies(y, s)
  BY <1>3, <1>10, <1>11, CopiesItself
<1>13. SnapInv'
  BY <1>1, <1>12, SnapCopies
<1>14. BlockFrames(frames') = BlockFrames(frames)
  BY <1>1, <1>2, <1>5, SetLastFrame
<1>15. ScopePerBlock'
  BY <1>1, <1>10, <1>14 DEF ScopePerBlock
<1> QED BY <1>13, <1>15

(* Every other statement leaves the scopes and the blocks entered alone;   *)
(* the snapshot a label or a jump takes is of the scopes as they are.      *)
LEMMA OtherLowerSnapshots ==
  ASSUME Good, Lower,
         ~(\E ds \in SUBSET fresh : EnterBlock(ds)), ~ExitBlock, ~(\E x \in Locals : Decl(x))
  PROVE  phase = "lower" /\ nextScope' = nextScope /\ scopes' = scopes /\ Snapshots' \subseteq Snapshots
<1>1. IsSeq(gotos) /\ IsSeq(indirect) /\ targets = [l \in Labels |-> targets[l]]
  BY DEF Good, PendingLand, TargetsLand
<1>2. phase = "lower" /\ nextScope' = nextScope /\ scopes' = scopes
  BY DEF Lower, Use, EnterExpr, ExitExpr, BindLabel, Goto, IndirectGoto, Return, Call, EnterThen,
         EnterElse, ExitIf, Finish, Choose
<1>3. Snapshots' \subseteq Snapshots
  <2>1. scopes' \in Snapshots
    BY <1>2 DEF Snapshots
  <2>2. ASSUME NEW l \in Labels PROVE targets'[l].scopes \in Snapshots
    <3>1. CASE targets' = targets
      BY <3>1 DEF Snapshots
    <3>2. ASSUME NEW m \in Labels, BindLabel(m) PROVE targets'[l].scopes \in Snapshots
      <4>1. PICK n : targets' = [targets EXCEPT ![m] = [block |-> n, scopes |-> scopes]]
        BY <3>2 DEF BindLabel
      <4>2. targets'[l] = targets[l] \/ targets'[l] = [block |-> n, scopes |-> scopes]
        BY <1>1, <4>1
      <4> QED BY <4>2 DEF Snapshots
    <3> QED BY <3>1, <3>2 DEF Lower, Use, EnterExpr, ExitExpr, Goto, IndirectGoto, Return, Call,
                              EnterThen, EnterElse, ExitIf, Finish
  <2>3. ASSUME NEW i \in DOMAIN gotos' PROVE gotos'[i].scopes \in Snapshots
    <3>1. CASE gotos' = gotos
      BY <3>1 DEF Snapshots
    <3>2. ASSUME NEW m \in Labels, Goto(m) PROVE gotos'[i].scopes \in Snapshots
      <4> DEFINE g == [block |-> NumBlocks, label |-> m, scopes |-> scopes]
      <4>1. gotos' = Append(gotos, g)
        BY <3>2 DEF Goto
      <4>2. g.scopes \in Snapshots
        BY DEF Snapshots
      <4> HIDE DEF g
      <4>3. /\ DOMAIN gotos' = 1 .. Len(gotos) + 1 /\ DOMAIN gotos = 1 .. Len(gotos)
            /\ Len(gotos) \in Nat /\ gotos'[Len(gotos) + 1] = g
            /\ \A j \in 1 .. Len(gotos) : gotos'[j] = gotos[j]
        BY <1>1, <4>1, AppendIsSeq, SeqDomain, SeqLen
      <4>4. CASE i \in DOMAIN gotos
        BY <4>3, <4>4 DEF Snapshots
      <4>5. CASE i = Len(gotos) + 1
        BY <4>2, <4>3, <4>5
      <4> QED BY <4>3, <4>4, <4>5
    <3> QED BY <3>1, <3>2 DEF Lower, Use, EnterExpr, ExitExpr, BindLabel, IndirectGoto, Return, Call,
                              EnterThen, EnterElse, ExitIf, Finish
  <2>4. ASSUME NEW i \in DOMAIN indirect' PROVE indirect'[i].scopes \in Snapshots
    <3>1. CASE indirect' = indirect
      BY <3>1 DEF Snapshots
    <3>2. CASE IndirectGoto
      <4> DEFINE g == [block |-> NumBlocks, scopes |-> scopes, resolved |-> {}, to |-> {}]
      <4>1. indirect' = Append(indirect, g)
        BY <3>2 DEF IndirectGoto
      <4>2. g.scopes \in Snapshots
        BY DEF Snapshots
      <4> HIDE DEF g
      <4>3. /\ DOMAIN indirect' = 1 .. Len(indirect) + 1 /\ DOMAIN indirect = 1 .. Len(indirect)
            /\ Len(indirect) \in Nat /\ indirect'[Len(indirect) + 1] = g
            /\ \A j \in 1 .. Len(indirect) : indirect'[j] = indirect[j]
        BY <1>1, <4>1, AppendIsSeq, SeqDomain, SeqLen
      <4>4. CASE i \in DOMAIN indirect
        BY <4>3, <4>4 DEF Snapshots
      <4>5. CASE i = Len(indirect) + 1
        BY <4>2, <4>3, <4>5
      <4> QED BY <4>3, <4>4, <4>5
    <3> QED BY <3>1, <3>2 DEF Lower, Use, EnterExpr, ExitExpr, BindLabel, Goto, Return, Call,
                              EnterThen, EnterElse, ExitIf, Finish
  <2>5. Snapshots' = {scopes'} \cup { targets'[l].scopes : l \in Labels }
                       \cup { gotos'[i].scopes : i \in DOMAIN gotos' }
                       \cup { indirect'[i].scopes : i \in DOMAIN indirect' }
    BY DEF Snapshots
  <2> QED BY <2>1, <2>2, <2>3, <2>4, <2>5
<1> QED BY <1>2, <1>3

LEMMA OtherLowerSnap ==
  ASSUME Good, ScopePerBlock, SnapInv, Lower,
         ~(\E ds \in SUBSET fresh : EnterBlock(ds)), ~ExitBlock, ~(\E x \in Locals : Decl(x))
  PROVE  ScopePerBlock' /\ SnapInv'
<1>1. phase = "lower" /\ nextScope' = nextScope /\ scopes' = scopes /\ Snapshots' \subseteq Snapshots
  BY OtherLowerSnapshots
<1>4. SnapInv'
  BY <1>1, SnapSubset
<1>5. IsSeq(frames) /\ Len(frames) > 0
  BY <1>1, ScopesOpen
<1>6. phase' = "lower" => Cardinality(BlockFrames(frames')) = Cardinality(BlockFrames(frames))
  <2>1. CASE UNCHANGED frames
    BY <2>1
  <2>2. CASE EnterExpr
    <3>1. frames' = Append(frames, Frame("expr", {})) /\ Frame("expr", {}).kind = "expr"
      BY <2>2 DEF EnterExpr, Frame
    <3> QED BY <1>5, <3>1, AppendFrame
  <2>3. ASSUME NEW c \in Conditions, EnterThen(c)
        PROVE  Cardinality(BlockFrames(frames')) = Cardinality(BlockFrames(frames))
    <3> DEFINE f == [Frame("then", {}) EXCEPT !.entry = NumBlocks, !.cond = c, !.thenStart = NumBlocks + 1]
    <3>1. frames' = Append(frames, f) /\ f.kind = "then"
      BY <2>3 DEF EnterThen, Frame
    <3> HIDE DEF f
    <3> QED BY <1>5, <3>1, AppendFrame
  <2>4. CASE ExitExpr \/ ExitIf
    <3>1. frames' = Front(frames) /\ Last(frames).kind # "block"
      BY <2>4 DEF ExitExpr, ExitIf
    <3> QED BY <1>5, <3>1, FrontFrame
  <2>5. CASE EnterElse
    <3> DEFINE f == [Last(frames) EXCEPT !.kind = "else", !.thenExit = NumBlocks]
    <3>1. frames' = SetLast(frames, f) /\ Last(frames).kind = "then"
      BY <2>5 DEF EnterElse
    <3>2. f.kind # "block"
      <4>1. frames \in Seq(Frames) /\ Len(frames) \in 1 .. Len(frames)
        BY <1>5, SeqLen DEF Good, FramesOK
      <4>2. Last(frames) \in Frames
        BY <4>1 DEF Last
      <4>3. f.kind = "else"
        BY <4>2 DEF Frames
      <4> QED BY <4>3
    <3> HIDE DEF f
    <3> QED BY <1>5, <3>1, <3>2, SetLastFrame
  <2>6. CASE Finish
    BY <2>6 DEF Finish
  <2> QED BY <2>1, <2>2, <2>3, <2>4, <2>5, <2>6
          DEF Lower, Use, BindLabel, Goto, IndirectGoto, Return, Call
<1>7. ScopePerBlock'
  BY <1>1, <1>6 DEF ScopePerBlock
<1> QED BY <1>4, <1>7

LEMMA PatchSnapshots ==
  ASSUME Good, Patch
  PROVE  /\ phase' # "lower" /\ UNCHANGED <<nextScope, scopes, targets>>
         /\ Snapshots' \subseteq Snapshots
<1>1. IsSeq(gotos) /\ IsSeq(indirect)
  BY DEF Good, PendingLand
<1>2. phase' # "lower" /\ nextScope' = nextScope /\ scopes' = scopes /\ targets' = targets
  BY DEF Patch, PatchGoto, PatchIndirectLabel, PatchIndirect, Complete, Fail, Rejected
<1>3. Snapshots' \subseteq Snapshots
  <2>1. ASSUME NEW i \in DOMAIN gotos' PROVE gotos'[i].scopes \in Snapshots
    <3>1. CASE gotos' = gotos
      BY <3>1 DEF Snapshots
    <3>2. CASE gotos # << >> /\ gotos' = Tail(gotos)
      <4>1. /\ Len(gotos) > 0 /\ DOMAIN gotos' = 1 .. Len(gotos) - 1 /\ Len(gotos) \in Nat
            /\ DOMAIN gotos = 1 .. Len(gotos)
            /\ \A j \in 1 .. Len(gotos) - 1 : gotos'[j] = gotos[j + 1]
        BY <1>1, <3>2, NonEmpty, TailIsSeq, SeqDomain, SeqLen
      <4>2. i + 1 \in DOMAIN gotos /\ gotos'[i] = gotos[i + 1]
        BY <4>1
      <4> QED BY <4>2 DEF Snapshots
    <3> QED BY <3>1, <3>2 DEF Patch, PatchGoto, PatchIndirectLabel, PatchIndirect, Complete, Fail
  <2>2. ASSUME NEW i \in DOMAIN indirect' PROVE indirect'[i].scopes \in Snapshots
    <3>1. CASE indirect' = indirect
      BY <3>1 DEF Snapshots
    <3>2. CASE indirect # << >> /\ indirect' = Tail(indirect)
      <4>1. /\ Len(indirect) > 0 /\ DOMAIN indirect' = 1 .. Len(indirect) - 1 /\ Len(indirect) \in Nat
            /\ DOMAIN indirect = 1 .. Len(indirect)
            /\ \A j \in 1 .. Len(indirect) - 1 : indirect'[j] = indirect[j + 1]
        BY <1>1, <3>2, NonEmpty, TailIsSeq, SeqDomain, SeqLen
      <4>2. i + 1 \in DOMAIN indirect /\ indirect'[i] = indirect[i + 1]
        BY <4>1
      <4> QED BY <4>2 DEF Snapshots
    <3>3. CASE /\ indirect # << >>
               /\ \E g : g.scopes = Head(indirect).scopes /\ indirect' = <<g>> \o Tail(indirect)
      <4>1. PICK g : g.scopes = Head(indirect).scopes /\ indirect' = <<g>> \o Tail(indirect)
        BY <3>3
      <4>2. Len(indirect) > 0
        BY <1>1, <3>3, NonEmpty
      <4>3. /\ DOMAIN indirect' = 1 .. Len(indirect) /\ DOMAIN indirect = 1 .. Len(indirect)
            /\ indirect'[1] = g /\ Len(indirect) \in Nat /\ Head(indirect) = indirect[1]
            /\ \A j \in 2 .. Len(indirect) : indirect'[j] = indirect[j]
        BY <1>1, <4>1, <4>2, SetFirstIsSeq, TailIsSeq, SeqDomain, SeqLen
      <4>4. i \in DOMAIN indirect /\ indirect'[i].scopes = indirect[i].scopes
        BY <4>1, <4>3
      <4> QED BY <4>4 DEF Snapshots
    <3>4. ASSUME NEW l \in Labels, PatchIndirectLabel(l), indirect' # indirect
          PROVE  \E g : g.scopes = Head(indirect).scopes /\ indirect' = <<g>> \o Tail(indirect)
      <4> DEFINE h == Head(indirect)
                 g(to) == [block |-> h.block, scopes |-> h.scopes,
                           resolved |-> h.resolved \cup {l}, to |-> h.to \cup {to}]
      <4>1. PICK to : indirect' = <<g(to)>> \o Tail(indirect)
        BY <3>4 DEF PatchIndirectLabel, Fail
      <4>2. g(to).scopes = h.scopes
        OBVIOUS
      <4> QED BY <4>1, <4>2
    <3>5. ASSUME NEW l \in Labels, PatchIndirectLabel(l) PROVE indirect # << >>
      BY <3>5 DEF PatchIndirectLabel
    <3>6. CASE \E l \in Labels : PatchIndirectLabel(l)
      BY <3>1, <3>3, <3>4, <3>5, <3>6
    <3>7. CASE PatchGoto \/ PatchIndirect \/ Complete
      BY <3>1, <3>2, <3>7 DEF PatchGoto, PatchIndirect, Complete, Fail
    <3> QED BY <3>6, <3>7 DEF Patch
  <2>3. Snapshots' = {scopes'} \cup { targets'[l].scopes : l \in Labels }
                       \cup { gotos'[i].scopes : i \in DOMAIN gotos' }
                       \cup { indirect'[i].scopes : i \in DOMAIN indirect' }
    BY DEF Snapshots
  <2>4. {scopes'} \cup { targets'[l].scopes : l \in Labels } \subseteq Snapshots
    BY <1>2 DEF Snapshots
  <2> QED BY <2>1, <2>2, <2>3, <2>4
<1> QED BY <1>2, <1>3

LEMMA PatchSnap ==
  ASSUME Good, SnapInv, Patch PROVE ScopePerBlock' /\ SnapInv'
<1>1. phase' # "lower" /\ nextScope' = nextScope /\ Snapshots' \subseteq Snapshots
  BY PatchSnapshots
<1>2. SnapInv'
  BY <1>1, SnapSubset
<1> QED BY <1>1, <1>2 DEF ScopePerBlock

LEMMA StepSnap ==
  JInv /\ ScopePerBlock /\ SnapInv /\ [Next]_vars => ScopePerBlock' /\ SnapInv'
<1> SUFFICES ASSUME JInv, ScopePerBlock, SnapInv, [Next]_vars PROVE ScopePerBlock' /\ SnapInv'
  OBVIOUS
<1>1. CASE UNCHANGED vars
  <2>1. UNCHANGED <<phase, scopes, frames, nextScope, targets, gotos, indirect>>
    BY <1>1 DEF vars
  <2>2. Snapshots' = Snapshots
    BY <2>1 DEF Snapshots
  <2>3. SnapInv'
    BY <2>1, <2>2, SnapSubset
  <2> QED BY <2>1, <2>3 DEF ScopePerBlock
<1>2. CASE Lower
  <2>1. Good
    BY <1>2 DEF JInv, Lower, EnterBlock, ExitBlock, Decl, Use, EnterExpr, ExitExpr, BindLabel, Goto,
                IndirectGoto, Return, Call, EnterThen, EnterElse, ExitIf, Finish, Choose
  <2> QED BY <1>2, <2>1, EnterBlockSnap, ExitBlockSnap, DeclSnap, OtherLowerSnap
<1>3. CASE Patch
  <2>1. Good
    BY <1>3 DEF JInv, Patch, PatchGoto, PatchIndirectLabel, PatchIndirect, Complete
  <2> QED BY <1>3, <2>1, PatchSnap
<1> QED BY <1>1, <1>2, <1>3 DEF Next

(* Whatever a body jumps into and out of, two snapshots that share a scope *)
(* share all of what is around it: the common prefix scope_transition      *)
(* leaves alone is common storage.                                         *)
THEOREM SnapshotsAlwaysAgree == Spec => []SnapshotsAgree
<1>1. JInv /\ ScopePerBlock /\ SnapInv /\ [Next]_vars => (JInv /\ ScopePerBlock /\ SnapInv)'
  BY StepGood, StepSnap
<1>2. SnapInv => SnapshotsAgree
  BY DEF SnapInv, SnapshotsAgree, Agree
<1> QED BY InitGood, InitSnap, <1>1, <1>2, PTL DEF Spec

-----------------------------------------------------------------------------
(***************************************************************************)
(* Who patches what.  The pending jumps from block b, and the Ifs with a   *)
(* jump there; a block that waits has one of them, of its kind, and no     *)
(* other block has any.                                                    *)
(***************************************************************************)
Blocks(gs, b) == { i \in 1 .. Len(gs) : gs[i].block = b }
Ifs(fs, b) == { i \in 1 .. Len(fs) : b = fs[i].entry \/ b = fs[i].thenExit }
IfKind(f, b) == IF f.entry = b /\ f.cond = "runtime" THEN "switch" ELSE "goto"

OwedOnce(t, gs, is, fs, b) ==
  IF Unpatched \in t.to
  THEN \E i \in Nat :
         \/ Blocks(gs, b) = {i} /\ Blocks(is, b) = {} /\ Ifs(fs, b) = {} /\ t.kind = "goto"
         \/ Blocks(gs, b) = {} /\ Blocks(is, b) = {i} /\ Ifs(fs, b) = {} /\ t.kind = "switch"
         \/ /\ Blocks(gs, b) = {} /\ Blocks(is, b) = {} /\ Ifs(fs, b) = {i}
            /\ t.kind = IfKind(fs[i], b)
  ELSE Blocks(gs, b) = {} /\ Blocks(is, b) = {} /\ Ifs(fs, b) = {}

Owners ==
  phase \in {"lower", "patch"} =>
    \A b \in Indices : OwedOnce(term[b + 1], gotos, indirect, frames, b)

LEMMA OwnersOwed == JInv /\ Owners => EveryPatchOwed
<1> SUFFICES ASSUME JInv, Owners, phase \in {"lower", "patch"}, NEW b \in Indices
             PROVE  IF Unpatched \in term[b + 1].to
                    THEN \E p \in PatchOf(b) : PatchOf(b) = {p} /\ Patchable(b, p)
                    ELSE PatchOf(b) = {}
  BY DEF EveryPatchOwed, Indices
<1>1. Good
  BY DEF JInv
<1>2. /\ DOMAIN gotos = 1 .. Len(gotos) /\ DOMAIN indirect = 1 .. Len(indirect)
      /\ DOMAIN frames = 1 .. Len(frames)
  BY <1>1, SeqDomain DEF Good, PendingLand, FramesOK, IsSeq
<1>3. OwedOnce(term[b + 1], gotos, indirect, frames, b)
  BY DEF Owners
<1>4. PatchOf(b) = { <<"goto", i>> : i \in Blocks(gotos, b) }
                     \cup { <<"indirect", i>> : i \in Blocks(indirect, b) }
                     \cup { <<"if", i>> : i \in Ifs(frames, b) }
  BY <1>2 DEF PatchOf, Blocks, Ifs
<1>5. CASE Unpatched \notin term[b + 1].to
  BY <1>3, <1>4, <1>5 DEF OwedOnce
<1>6. CASE Unpatched \in term[b + 1].to
  <2>1. PICK i \in Nat :
          \/ /\ Blocks(gotos, b) = {i} /\ Blocks(indirect, b) = {} /\ Ifs(frames, b) = {}
             /\ term[b + 1].kind = "goto"
          \/ /\ Blocks(gotos, b) = {} /\ Blocks(indirect, b) = {i} /\ Ifs(frames, b) = {}
             /\ term[b + 1].kind = "switch"
          \/ /\ Blocks(gotos, b) = {} /\ Blocks(indirect, b) = {} /\ Ifs(frames, b) = {i}
             /\ term[b + 1].kind = IfKind(frames[i], b)
    BY <1>3, <1>6 DEF OwedOnce
  <2>2. ASSUME NEW k \in {"goto", "indirect", "if"}, PatchOf(b) = {<<k, i>>}, Patchable(b, <<k, i>>)
        PROVE  \E p \in PatchOf(b) : PatchOf(b) = {p} /\ Patchable(b, p)
    BY <2>2
  <2>3. CASE Blocks(gotos, b) = {i} /\ Blocks(indirect, b) = {} /\ Ifs(frames, b) = {}
    <3>1. PatchOf(b) = {<<"goto", i>>}
      BY <1>4, <2>3
    <3>2. term[b + 1].kind = "goto"
      BY <2>1, <2>3
    <3>3. Patchable(b, <<"goto", i>>)
      BY <3>2 DEF Patchable
    <3> QED BY <1>6, <2>2, <3>1, <3>3
  <2>4. CASE Blocks(gotos, b) = {} /\ Blocks(indirect, b) = {i} /\ Ifs(frames, b) = {}
    <3>1. PatchOf(b) = {<<"indirect", i>>}
      BY <1>4, <2>4
    <3>2. term[b + 1].kind = "switch"
      BY <2>1, <2>4
    <3>3. Patchable(b, <<"indirect", i>>)
      BY <3>2 DEF Patchable
    <3> QED BY <1>6, <2>2, <3>1, <3>3
  <2>5. CASE Blocks(gotos, b) = {} /\ Blocks(indirect, b) = {} /\ Ifs(frames, b) = {i}
    <3>1. PatchOf(b) = {<<"if", i>>}
      BY <1>4, <2>5
    <3>2. term[b + 1].kind = IfKind(frames[i], b)
      BY <2>1, <2>5
    <3>3. Patchable(b, <<"if", i>>)
      BY <3>2 DEF Patchable, IfKind
    <3> QED BY <1>6, <2>2, <3>1, <3>3
  <2> QED BY <2>1, <2>3, <2>4, <2>5
<1> QED BY <1>5, <1>6

(* What the sequences of pending jumps and open Ifs do to the owners.      *)
LEMMA BlocksAppend ==
  ASSUME NEW gs, IsSeq(gs), NEW g, NEW b
  PROVE  Blocks(Append(gs, g), b) =
           IF g.block = b THEN Blocks(gs, b) \cup {Len(gs) + 1} ELSE Blocks(gs, b)
<1>1. /\ Len(Append(gs, g)) = Len(gs) + 1 /\ Append(gs, g)[Len(gs) + 1] = g /\ Len(gs) \in Nat
      /\ \A i \in 1 .. Len(gs) : Append(gs, g)[i] = gs[i]
  BY AppendIsSeq, SeqLen
<1>2. 1 .. Len(gs) + 1 = (1 .. Len(gs)) \cup {Len(gs) + 1}
  BY <1>1
<1> QED BY <1>1, <1>2 DEF Blocks

LEMMA BlocksTail ==
  ASSUME NEW gs, IsSeq(gs), Len(gs) > 0, NEW b
  PROVE  Blocks(Tail(gs), b) = { i - 1 : i \in Blocks(gs, b) \ {1} }
<1>1. /\ Len(Tail(gs)) = Len(gs) - 1 /\ Len(gs) \in Nat
      /\ \A i \in 1 .. Len(gs) - 1 : Tail(gs)[i] = gs[i + 1]
  BY TailIsSeq, SeqLen
<1>2. ASSUME NEW i \in Blocks(Tail(gs), b) PROVE i \in { j - 1 : j \in Blocks(gs, b) \ {1} }
  <2>1. i + 1 \in Blocks(gs, b) \ {1} /\ i = (i + 1) - 1
    BY <1>1 DEF Blocks
  <2> QED BY <2>1
<1>3. ASSUME NEW i \in Blocks(gs, b) \ {1} PROVE i - 1 \in Blocks(Tail(gs), b)
  <2>1. i - 1 \in 1 .. Len(gs) - 1 /\ (i - 1) + 1 = i
    BY <1>1 DEF Blocks
  <2> QED BY <1>1, <2>1 DEF Blocks
<1> QED BY <1>2, <1>3

LEMMA BlocksSetFirst ==
  ASSUME NEW gs, IsSeq(gs), Len(gs) > 0, NEW g, g.block = Head(gs).block, NEW b
  PROVE  Blocks(<<g>> \o Tail(gs), b) = Blocks(gs, b)
<1>1. /\ Len(<<g>> \o Tail(gs)) = Len(gs) /\ Len(gs) \in Nat /\ Head(gs) = gs[1]
      /\ (<<g>> \o Tail(gs))[1] = g
      /\ \A i \in 2 .. Len(gs) : (<<g>> \o Tail(gs))[i] = gs[i]
  BY SetFirstIsSeq, TailIsSeq, SeqLen
<1>2. \A i \in 1 .. Len(gs) : (<<g>> \o Tail(gs))[i].block = gs[i].block
  BY <1>1
<1> QED BY <1>1, <1>2 DEF Blocks

(* The same owners, of the same kinds.                                     *)
SameOwners(gs, is, fs, gs2, is2, fs2, b) ==
  /\ Blocks(gs2, b) = Blocks(gs, b) /\ Blocks(is2, b) = Blocks(is, b) /\ Ifs(fs2, b) = Ifs(fs, b)
  /\ \A i \in Ifs(fs, b) : IfKind(fs2[i], b) = IfKind(fs[i], b)

LEMMA SameOnce ==
  ASSUME NEW t, NEW gs, NEW is, NEW fs, NEW gs2, NEW is2, NEW fs2, NEW b,
         OwedOnce(t, gs, is, fs, b), SameOwners(gs, is, fs, gs2, is2, fs2, b)
  PROVE  OwedOnce(t, gs2, is2, fs2, b)
<1>1. \A i : Ifs(fs, b) = {i} => IfKind(fs2[i], b) = IfKind(fs[i], b)
  BY DEF SameOwners
<1> QED BY <1>1 DEF OwedOnce, SameOwners

(* Ifs change as the frames do.                                            *)
LEMMA IfsAppend ==
  ASSUME NEW fs, Len(fs) \in Nat, NEW fs2, Len(fs2) = Len(fs) + 1, NEW f, fs2[Len(fs) + 1] = f,
         \A i \in 1 .. Len(fs) : fs2[i] = fs[i], NEW b
  PROVE  /\ b = f.entry \/ b = f.thenExit => Ifs(fs2, b) = Ifs(fs, b) \cup {Len(fs) + 1}
         /\ ~(b = f.entry \/ b = f.thenExit) => Ifs(fs2, b) = Ifs(fs, b)
         /\ \A i \in Ifs(fs, b) : fs2[i] = fs[i]
<1>1. 1 .. Len(fs) + 1 = (1 .. Len(fs)) \cup {Len(fs) + 1}
  OBVIOUS
<1> QED BY <1>1 DEF Ifs

LEMMA IfsFront ==
  ASSUME NEW fs, IsSeq(fs), Len(fs) > 0, NEW b
  PROVE  /\ Ifs(Front(fs), b) = Ifs(fs, b) \ {Len(fs)}
         /\ \A i \in Ifs(Front(fs), b) : Front(fs)[i] = fs[i]
         /\ Len(fs) \in Ifs(fs, b) <=> b = Last(fs).entry \/ b = Last(fs).thenExit
<1>1. /\ Len(Front(fs)) = Len(fs) - 1 /\ Len(fs) \in Nat /\ Last(fs) = fs[Len(fs)]
      /\ \A i \in 1 .. Len(fs) - 1 : Front(fs)[i] = fs[i]
  BY FrontIsSeq, SeqLen
<1>2. 1 .. Len(fs) - 1 = (1 .. Len(fs)) \ {Len(fs)} /\ Len(fs) \in 1 .. Len(fs)
  BY <1>1
<1>3. Ifs(Front(fs), b) = Ifs(fs, b) \ {Len(fs)}
  BY <1>1, <1>2 DEF Ifs
<1>4. \A i \in Ifs(Front(fs), b) : Front(fs)[i] = fs[i]
  BY <1>1 DEF Ifs
<1>5. Len(fs) \in Ifs(fs, b) <=> b = Last(fs).entry \/ b = Last(fs).thenExit
  BY <1>1, <1>2 DEF Ifs
<1> QED BY <1>3, <1>4, <1>5

LEMMA IfsSetLast ==
  ASSUME NEW fs, IsSeq(fs), Len(fs) > 0, NEW f, NEW b,
         b = f.entry \/ b = f.thenExit <=> b = Last(fs).entry \/ b = Last(fs).thenExit
  PROVE  /\ Ifs(SetLast(fs, f), b) = Ifs(fs, b)
         /\ \A i \in Ifs(fs, b) : SetLast(fs, f)[i] = IF i = Len(fs) THEN f ELSE fs[i]
<1>1. /\ Len(SetLast(fs, f)) = Len(fs) /\ Len(fs) \in Nat /\ Last(fs) = fs[Len(fs)]
      /\ SetLast(fs, f)[Len(fs)] = f
      /\ \A i \in 1 .. Len(fs) - 1 : SetLast(fs, f)[i] = fs[i]
  BY SetLastIsSeq, SeqLen
<1>2. \A i \in 1 .. Len(fs) : SetLast(fs, f)[i] = IF i = Len(fs) THEN f ELSE fs[i]
  BY <1>1
<1>3. \A i \in 1 .. Len(fs) :
        b = SetLast(fs, f)[i].entry \/ b = SetLast(fs, f)[i].thenExit
          <=> b = fs[i].entry \/ b = fs[i].thenExit
  BY <1>1, <1>2
<1>4. Ifs(SetLast(fs, f), b) = Ifs(fs, b)
  BY <1>1, <1>3 DEF Ifs
<1> QED BY <1>2, <1>4 DEF Ifs

(* Nothing is pending at a block that is not built.                        *)
LEMMA NoneAhead ==
  ASSUME Good, NEW n \in Nat, n >= NumBlocks
  PROVE  Blocks(gotos, n) = {} /\ Blocks(indirect, n) = {} /\ Ifs(frames, n) = {}
<1>1. NumBlocks \in Nat /\ n \notin Indices /\ n # Unpatched
  BY DEF Good, NumBlocks, Indices, Unpatched
<1>2. Blocks(gotos, n) = {} /\ Blocks(indirect, n) = {}
  BY <1>1 DEF Good, PendingLand, Blocks
<1>3. \A i \in 1 .. Len(frames) : n # frames[i].entry /\ n # frames[i].thenExit
  BY <1>1 DEF Good, FramesOK, FrameOK, Indices
<1> QED BY <1>2, <1>3 DEF Ifs

(* A step that leaves the blocks alone.                                    *)
LEMMA OwnersKeep ==
  ASSUME Good, Owners, phase \in {"lower", "patch"}, term' = term,
         \A b \in Indices : SameOwners(gotos, indirect, frames, gotos', indirect', frames', b)
  PROVE  Owners'
<1>1. Indices' = Indices
  BY DEF Indices, NumBlocks
<1>2. \A b \in Indices : OwedOnce(term[b + 1], gotos', indirect', frames', b)
  BY SameOnce DEF Owners
<1> QED BY <1>1, <1>2 DEF Owners

(* A step that ends a block.                                               *)
LEMMA OwnersPush ==
  ASSUME Good, Owners, phase = "lower", NEW k \in {"goto", "switch", "call", "return"},
         NEW to \in SUBSET Int, PushTerminator(k, to), NEW n, n = NumBlocks,
         \A b \in Indices : SameOwners(gotos, indirect, frames, gotos', indirect', frames', b),
         OwedOnce([kind |-> k, to |-> to], gotos', indirect', frames', n)
  PROVE  Owners' /\ NumBlocks' = n + 1
<1>1. term \in Seq(Term) /\ n \in Nat /\ Len(term) = n
  BY DEF Good, NumBlocks
<1> DEFINE t == [kind |-> k, to |-> to]
<1>2. t \in Term
  BY DEF Term
<1>3. term' = Append(term, t)
  BY DEF PushTerminator
<1> HIDE DEF t
<1>4. NumBlocks' = n + 1 /\ term'[n + 1] = t /\ \A b \in 1 .. n : term'[b] = term[b]
  BY <1>1, <1>2, <1>3 DEF NumBlocks
<1>5. ASSUME NEW b \in 0 .. n PROVE OwedOnce(term'[b + 1], gotos', indirect', frames', b)
  <2>1. CASE b = n
    BY <1>4, <2>1 DEF t
  <2>2. CASE b # n
    <3>1. b \in Indices /\ term'[b + 1] = term[b + 1]
      BY <1>1, <1>4, <2>2 DEF Indices
    <3>2. OwedOnce(term[b + 1], gotos, indirect, frames, b)
      BY <3>1 DEF Owners
    <3> QED BY <3>1, <3>2, SameOnce
  <2> QED BY <2>1, <2>2
<1>6. Indices' = 0 .. n
  BY <1>1, <1>4 DEF Indices
<1>7. (\A b \in Indices : OwedOnce(term[b + 1], gotos, indirect, frames, b))'
  BY <1>5, <1>6
<1> QED BY <1>4, <1>7 DEF Owners

LEMMA SameAsBefore ==
  ASSUME NEW b PROVE SameOwners(gotos, indirect, frames, gotos, indirect, frames, b)
BY DEF SameOwners

LEMMA PlainOwners ==
  ASSUME Good, Owners,
         \/ \E ds \in SUBSET fresh : EnterBlock(ds)
         \/ ExitBlock \/ EnterExpr \/ ExitExpr
         \/ \E x \in Locals : Decl(x) \/ Use(x)
  PROVE  Owners'
<1>1. phase = "lower" /\ term' = term /\ gotos' = gotos /\ indirect' = indirect
  BY DEF EnterBlock, ExitBlock, EnterExpr, ExitExpr, Decl, Use, Choose
<1>2. /\ frames \in Seq(Frames) /\ IsSeq(frames) /\ Len(frames) > 0 /\ Len(frames) \in Nat
      /\ Last(frames) = frames[Len(frames)] /\ frames[Len(frames)] \in Frames
      /\ FrameOK(frames[Len(frames)], NumBlocks)
  <2>1. frames \in Seq(Frames) /\ IsSeq(frames) /\ Len(frames) > 0 /\ Len(frames) \in Nat
    BY DEF Good, FramesOK, IsSeq
  <2>2. Len(frames) \in 1 .. Len(frames)
    BY <2>1
  <2> QED BY <2>1, <2>2, FrontIsSeq DEF Good, FramesOK
<1>3. \A b \in Indices : b # Unpatched
  BY DEF Indices, Unpatched, NumBlocks
<1>4. ASSUME NEW b \in Indices PROVE SameOwners(gotos, indirect, frames, gotos, indirect, frames', b)
  <2>1. CASE \E f : f.entry = Unpatched /\ f.thenExit = Unpatched /\ frames' = Append(frames, f)
    <3>1. PICK f : f.entry = Unpatched /\ f.thenExit = Unpatched /\ frames' = Append(frames, f)
      BY <2>1
    <3>2. /\ Len(frames') = Len(frames) + 1 /\ frames'[Len(frames) + 1] = f
          /\ \A i \in 1 .. Len(frames) : frames'[i] = frames[i]
      BY <1>2, <3>1, AppendIsSeq
    <3>3. b # f.entry /\ b # f.thenExit
      BY <1>3, <3>1
    <3>4. Ifs(frames', b) = Ifs(frames, b) /\ \A i \in Ifs(frames, b) : frames'[i] = frames[i]
      BY <1>2, <3>2, <3>3, IfsAppend
    <3> QED BY <3>4 DEF SameOwners
  <2>2. CASE Last(frames).kind \in {"block", "expr"} /\ frames' = Front(frames)
    <3>1. Len(frames) \notin Ifs(frames, b)
      BY <1>2, <1>3, <2>2 DEF Ifs, FrameOK
    <3>2. /\ Ifs(frames', b) = Ifs(frames, b) \ {Len(frames)}
          /\ \A i \in Ifs(frames', b) : frames'[i] = frames[i]
      BY <1>2, <2>2, IfsFront
    <3>3. Ifs(frames', b) = Ifs(frames, b)
      BY <3>1, <3>2
    <3> QED BY <3>2, <3>3 DEF SameOwners
  <2>3. ASSUME NEW x \in Locals, Decl(x)
        PROVE  SameOwners(gotos, indirect, frames, gotos, indirect, frames', b)
    <3> DEFINE f == [Last(frames) EXCEPT !.todo = @ \ {x}, !.seen = @ \cup {x}]
    <3>1. frames' = SetLast(frames, f)
      BY <2>3 DEF Decl
    <3>2. f.entry = Last(frames).entry /\ f.thenExit = Last(frames).thenExit /\ f.cond = Last(frames).cond
      OBVIOUS
    <3> HIDE DEF f
    <3>3. /\ Ifs(frames', b) = Ifs(frames, b)
          /\ \A i \in Ifs(frames, b) : frames'[i] = IF i = Len(frames) THEN f ELSE frames[i]
      BY <1>2, <3>1, <3>2, IfsSetLast
    <3>4. \A i \in Ifs(frames, b) : IfKind(frames'[i], b) = IfKind(frames[i], b)
      BY <1>2, <3>2, <3>3 DEF IfKind
    <3> QED BY <3>3, <3>4 DEF SameOwners
  <2>4. CASE UNCHANGED frames
    BY <2>4, SameAsBefore
  <2>5. ASSUME NEW ds \in SUBSET fresh, EnterBlock(ds)
        PROVE  \E f : f.entry = Unpatched /\ f.thenExit = Unpatched /\ frames' = Append(frames, f)
    BY <2>5 DEF EnterBlock, Frame
  <2>6. EnterExpr => \E f : f.entry = Unpatched /\ f.thenExit = Unpatched /\ frames' = Append(frames, f)
    BY DEF EnterExpr, Frame
  <2>7. ExitBlock \/ ExitExpr => Last(frames).kind \in {"block", "expr"} /\ frames' = Front(frames)
    BY DEF ExitBlock, ExitExpr
  <2>8. \A x \in Locals : Use(x) => UNCHANGED frames
    BY DEF Use
  <2> QED BY <2>1, <2>2, <2>3, <2>4, <2>5, <2>6, <2>7, <2>8
<1> QED BY <1>1, <1>4, OwnersKeep

LEMMA PushOwners ==
  ASSUME Good, Owners,
         \/ \E l \in Labels : BindLabel(l) \/ Goto(l)
         \/ IndirectGoto \/ Return \/ Finish
         \/ \E diverges \in BOOLEAN : Call(diverges)
  PROVE  Owners'
<1> PICK n : n = NumBlocks
  OBVIOUS
<1>1. phase = "lower" /\ frames' = frames
  BY DEF BindLabel, Goto, IndirectGoto, Return, Finish, Call, Choose
<1>2. n \in Nat /\ Blocks(gotos, n) = {} /\ Blocks(indirect, n) = {} /\ Ifs(frames, n) = {}
  BY NoneAhead DEF Good, NumBlocks
<1>3. IsSeq(gotos) /\ IsSeq(indirect) /\ Len(gotos) + 1 \in Nat /\ Len(indirect) + 1 \in Nat
  BY SeqLen DEF Good, PendingLand
<1>4. \A b \in Indices : b # n
  BY <1>2 DEF Indices
<1>5. ASSUME NEW k \in {"goto", "return", "call"}, NEW to \in SUBSET Nat, PushTerminator(k, to),
             UNCHANGED <<gotos, indirect>>
      PROVE  Owners'
  <2>1. to \in SUBSET Int /\ Unpatched \notin to
    BY DEF Unpatched
  <2>2. OwedOnce([kind |-> k, to |-> to], gotos, indirect, frames, n)
    BY <1>2, <2>1 DEF OwedOnce
  <2>3. \A b \in Indices : SameOwners(gotos, indirect, frames, gotos', indirect', frames', b)
    BY <1>1, <1>5, SameAsBefore
  <2> QED BY <1>1, <1>5, <2>1, <2>2, <2>3, OwnersPush
<1>6. ASSUME NEW l \in Labels, BindLabel(l) PROVE Owners'
  <2>1. CASE StartsBlock
    <3>1. term' = term /\ UNCHANGED <<gotos, indirect>>
      BY <1>6, <2>1 DEF BindLabel
    <3>2. \A b \in Indices : SameOwners(gotos, indirect, frames, gotos', indirect', frames', b)
      BY <1>1, <3>1, SameAsBefore
    <3> QED BY <1>1, <3>1, <3>2, OwnersKeep
  <2>2. CASE ~StartsBlock
    <3>1. PushTerminator("goto", {n + 1}) /\ UNCHANGED <<gotos, indirect>>
      BY <1>6, <2>2 DEF BindLabel
    <3> QED BY <1>2, <1>5, <3>1
  <2> QED BY <2>1, <2>2
<1>7. ASSUME NEW l \in Labels, Goto(l) PROVE Owners'
  <2> DEFINE g == [block |-> n, label |-> l, scopes |-> scopes]
             to == {Unpatched}
  <2>1. PushTerminator("goto", to) /\ gotos' = Append(gotos, g) /\ indirect' = indirect
    BY <1>7 DEF Goto
  <2>2. g.block = n /\ to \in SUBSET Int /\ Unpatched \in to
    BY DEF Unpatched
  <2> HIDE DEF g, to
  <2>3. \A b : Blocks(gotos', b) = IF n = b THEN Blocks(gotos, b) \cup {Len(gotos) + 1} ELSE Blocks(gotos, b)
    BY <1>3, <2>1, <2>2, BlocksAppend
  <2>4. OwedOnce([kind |-> "goto", to |-> to], gotos', indirect', frames', n)
    BY <1>1, <1>2, <1>3, <2>1, <2>2, <2>3 DEF OwedOnce
  <2>5. \A b \in Indices : SameOwners(gotos, indirect, frames, gotos', indirect', frames', b)
    BY <1>1, <1>4, <2>1, <2>3 DEF SameOwners
  <2> QED BY <1>1, <2>1, <2>2, <2>4, <2>5, OwnersPush
<1>8. CASE IndirectGoto
  <2> DEFINE g == [block |-> n, scopes |-> scopes, resolved |-> {}, to |-> {}]
             to == {Unpatched}
  <2>1. PushTerminator("switch", to) /\ indirect' = Append(indirect, g) /\ gotos' = gotos
    BY <1>8 DEF IndirectGoto
  <2>2. g.block = n /\ to \in SUBSET Int /\ Unpatched \in to
    BY DEF Unpatched
  <2> HIDE DEF g, to
  <2>3. \A b : Blocks(indirect', b) =
                 IF n = b THEN Blocks(indirect, b) \cup {Len(indirect) + 1} ELSE Blocks(indirect, b)
    BY <1>3, <2>1, <2>2, BlocksAppend
  <2>4. OwedOnce([kind |-> "switch", to |-> to], gotos', indirect', frames', n)
    BY <1>1, <1>2, <1>3, <2>1, <2>2, <2>3 DEF OwedOnce
  <2>5. \A b \in Indices : SameOwners(gotos, indirect, frames, gotos', indirect', frames', b)
    BY <1>1, <1>4, <2>1, <2>3 DEF SameOwners
  <2> QED BY <1>1, <2>1, <2>2, <2>4, <2>5, OwnersPush
<1>9. CASE Return \/ Finish
  <2>1. PushTerminator("return", {}) /\ UNCHANGED <<gotos, indirect>>
    BY <1>9 DEF Return, Finish
  <2> QED BY <1>5, <2>1
<1>10. ASSUME NEW d \in BOOLEAN, Call(d) PROVE Owners'
  <2>1. PICK to : /\ to = IF d THEN {} ELSE {n + 1}
                  /\ PushTerminator("call", to) /\ UNCHANGED <<gotos, indirect>>
    BY <1>10 DEF Call
  <2>2. to \in SUBSET Nat
    BY <1>2, <2>1
  <2> QED BY <1>5, <2>1, <2>2
<1> QED BY <1>6, <1>7, <1>8, <1>9, <1>10

LEMMA EnterThenOwners ==
  ASSUME Good, Owners, NEW c \in Conditions, EnterThen(c) PROVE Owners'
<1> PICK n : n = NumBlocks
  OBVIOUS
<1> DEFINE f == [Frame("then", {}) EXCEPT !.entry = n, !.cond = c, !.thenStart = n + 1]
           k == IF c = "runtime" THEN "switch" ELSE "goto"
           to == {Unpatched}
<1>1. /\ phase = "lower" /\ PushTerminator(k, to) /\ frames' = Append(frames, f)
      /\ UNCHANGED <<gotos, indirect>>
  BY DEF EnterThen, Choose
<1>2. n \in Nat /\ Blocks(gotos, n) = {} /\ Blocks(indirect, n) = {} /\ Ifs(frames, n) = {}
  BY NoneAhead DEF Good, NumBlocks
<1>3. f.entry = n /\ f.cond = c /\ f.thenExit = Unpatched
  BY DEF Frame
<1>4. k \in {"goto", "switch"} /\ k = IfKind(f, n) /\ to \in SUBSET Int /\ Unpatched \in to
  BY <1>3 DEF IfKind, Unpatched
<1>5. IsSeq(frames) /\ Len(frames) \in Nat
  BY DEF Good, FramesOK, IsSeq
<1> HIDE DEF f, k, to
<1>6. \A b : /\ b = f.entry \/ b = f.thenExit => Ifs(frames', b) = Ifs(frames, b) \cup {Len(frames) + 1}
             /\ ~(b = f.entry \/ b = f.thenExit) => Ifs(frames', b) = Ifs(frames, b)
             /\ \A i \in Ifs(frames, b) : frames'[i] = frames[i]
             /\ frames'[Len(frames) + 1] = f
  <2>1. /\ Len(frames') = Len(frames) + 1 /\ frames'[Len(frames) + 1] = f
        /\ \A i \in 1 .. Len(frames) : frames'[i] = frames[i]
    BY <1>1, <1>5, AppendIsSeq
  <2> SUFFICES ASSUME NEW b
               PROVE  /\ b = f.entry \/ b = f.thenExit => Ifs(frames', b) = Ifs(frames, b) \cup {Len(frames) + 1}
                      /\ ~(b = f.entry \/ b = f.thenExit) => Ifs(frames', b) = Ifs(frames, b)
                      /\ \A i \in Ifs(frames, b) : frames'[i] = frames[i]
                      /\ frames'[Len(frames) + 1] = f
    OBVIOUS
  <2>2. /\ b = f.entry \/ b = f.thenExit => Ifs(frames', b) = Ifs(frames, b) \cup {Len(frames) + 1}
        /\ ~(b = f.entry \/ b = f.thenExit) => Ifs(frames', b) = Ifs(frames, b)
        /\ \A i \in Ifs(frames, b) : frames'[i] = frames[i]
    BY <1>5, <2>1, IfsAppend
  <2> QED BY <2>1, <2>2
<1>7. \A b \in Indices : b # f.entry /\ b # f.thenExit
  BY <1>2, <1>3 DEF Indices, Unpatched
<1>8. \A b \in Indices : SameOwners(gotos, indirect, frames, gotos', indirect', frames', b)
  BY <1>1, <1>6, <1>7 DEF SameOwners
<1>9. Ifs(frames', n) = {Len(frames) + 1} /\ frames'[Len(frames) + 1] = f /\ Len(frames) + 1 \in Nat
  BY <1>2, <1>3, <1>5, <1>6
<1>10. OwedOnce([kind |-> k, to |-> to], gotos', indirect', frames', n)
  BY <1>1, <1>2, <1>4, <1>9 DEF OwedOnce
<1> QED BY <1>1, <1>4, <1>8, <1>10, OwnersPush

LEMMA EnterElseOwners ==
  ASSUME Good, Owners, EnterElse PROVE Owners'
<1> PICK n, m : n = NumBlocks /\ m = Len(frames)
  OBVIOUS
<1> DEFINE f == [Last(frames) EXCEPT !.kind = "else", !.thenExit = n]
           to == {Unpatched}
<1>1. /\ phase = "lower" /\ PushTerminator("goto", to) /\ frames' = SetLast(frames, f)
      /\ UNCHANGED <<gotos, indirect>> /\ Last(frames).kind = "then"
  BY DEF EnterElse
<1>2. n \in Nat /\ Blocks(gotos, n) = {} /\ Blocks(indirect, n) = {} /\ Ifs(frames, n) = {}
  BY NoneAhead DEF Good, NumBlocks
<1>3. /\ IsSeq(frames) /\ m \in Nat /\ m > 0 /\ Last(frames) = frames[m] /\ frames[m] \in Frames
      /\ FrameOK(frames[m], n)
  <2>1. frames \in Seq(Frames) /\ IsSeq(frames) /\ m \in Nat /\ m > 0
    BY DEF Good, FramesOK, IsSeq
  <2>2. m \in 1 .. Len(frames)
    BY <2>1
  <2> QED BY <2>1, <2>2, FrontIsSeq DEF Good, FramesOK
<1>4. /\ f.entry = frames[m].entry /\ f.cond = frames[m].cond /\ f.thenExit = n
      /\ f.entry \in 0 .. n - 1 /\ frames[m].thenExit = Unpatched
  BY <1>1, <1>3 DEF FrameOK, Frames
<1>5. to \in SUBSET Int /\ Unpatched \in to /\ n # f.entry
  BY <1>2, <1>4 DEF Unpatched
<1> HIDE DEF f, to
<1>6. /\ Len(frames') = m /\ frames'[m] = f
      /\ \A i \in 1 .. m - 1 : frames'[i] = frames[i]
  BY <1>1, <1>3, SetLastIsSeq
<1>7. ASSUME NEW b \in Indices PROVE SameOwners(gotos, indirect, frames, gotos', indirect', frames', b)
  <2>1. b # n /\ b # Unpatched
    BY <1>2 DEF Indices, Unpatched
  <2>2. \A i \in 1 .. m : /\ b = frames'[i].entry \/ b = frames'[i].thenExit
                             <=> b = frames[i].entry \/ b = frames[i].thenExit
                          /\ IfKind(frames'[i], b) = IfKind(frames[i], b)
    BY <1>3, <1>4, <1>6, <2>1 DEF IfKind
  <2>3. Ifs(frames', b) = Ifs(frames, b) /\ \A i \in Ifs(frames, b) : i \in 1 .. m
    BY <1>6, <2>2 DEF Ifs
  <2> QED BY <1>1, <2>2, <2>3 DEF SameOwners
<1>8. Ifs(frames', n) = {m}
  <2>1. \A i \in 1 .. m - 1 : n # frames'[i].entry /\ n # frames'[i].thenExit
    BY <1>2, <1>3, <1>6 DEF Ifs
  <2>2. n = frames'[m].thenExit
    BY <1>4, <1>6
  <2>3. \A i \in 1 .. m : i = m \/ i \in 1 .. m - 1
    BY <1>3
  <2> QED BY <1>3, <1>6, <2>1, <2>2, <2>3 DEF Ifs
<1>9. IfKind(frames'[m], n) = "goto"
  BY <1>5, <1>6 DEF IfKind
<1>10. OwedOnce([kind |-> "goto", to |-> to], gotos', indirect', frames', n)
  BY <1>1, <1>2, <1>3, <1>5, <1>8, <1>9 DEF OwedOnce
<1> QED BY <1>1, <1>5, <1>7, <1>10, OwnersPush

LEMMA ExitIfOwners ==
  ASSUME Good, Owners, ExitIf PROVE Owners'
<1> PICK n, m : n = NumBlocks /\ m = Len(frames)
  OBVIOUS
<1> PICK f : f = frames[m]
  OBVIOUS
<1>1. /\ phase = "lower" /\ UNCHANGED <<gotos, indirect>>
      /\ m \in Nat /\ m > 1 /\ Last(frames) = f /\ NumBlocks' = n + 1
      /\ \A b \in 1 .. n + 1 :
           \/ term'[b].to \subseteq 1 .. n + 1
           \/ b \in 1 .. n /\ term'[b] = term[b] /\ b # f.entry + 1 /\ b # f.thenExit + 1
      /\ f.entry \in Indices /\ f.thenExit \in Indices
      /\ \A b \in 1 .. n : b = f.entry + 1 \/ b = f.thenExit + 1 \/ term'[b] = term[b]
  <2>1. /\ phase = "lower" /\ UNCHANGED <<gotos, indirect>>
        /\ m \in Nat /\ m > 1 /\ Last(frames) = f /\ NumBlocks' = NumBlocks + 1
        /\ f.entry \in Indices /\ f.thenExit \in Indices
    BY ExitIfTerms
  <2>2. \A b \in 1 .. NumBlocks + 1 :
           \/ term'[b].to \subseteq 1 .. NumBlocks + 1
           \/ b \in 1 .. NumBlocks /\ term'[b] = term[b] /\ b # f.entry + 1 /\ b # f.thenExit + 1
    BY ExitIfTerms
  <2>3. \A b \in 1 .. NumBlocks : b = f.entry + 1 \/ b = f.thenExit + 1 \/ term'[b] = term[b]
    BY ExitIfTerms
  <2> QED BY <2>1, <2>2, <2>3
<1>2. n \in Nat /\ Indices = 0 .. n - 1 /\ Indices' = 0 .. n /\ Unpatched \notin 1 .. n + 1
  BY <1>1 DEF Good, NumBlocks, Indices, Unpatched
<1>3. IsSeq(frames) /\ frames' = Front(frames)
  BY DEF Good, FramesOK, IsSeq, ExitIf
<1>4. \A b : /\ Ifs(frames', b) = Ifs(frames, b) \ {m}
             /\ \A i \in Ifs(frames', b) : frames'[i] = frames[i]
             /\ m \in Ifs(frames, b) <=> b = f.entry \/ b = f.thenExit
  <2> SUFFICES ASSUME NEW b
               PROVE  /\ Ifs(frames', b) = Ifs(frames, b) \ {m}
                      /\ \A i \in Ifs(frames', b) : frames'[i] = frames[i]
                      /\ m \in Ifs(frames, b) <=> b = f.entry \/ b = f.thenExit
    OBVIOUS
  <2> QED BY <1>1, <1>3, IfsFront
<1>5. ASSUME NEW b \in 0 .. n PROVE OwedOnce(term'[b + 1], gotos', indirect', frames', b)
  <2>1. CASE b = n
    <3>1. Blocks(gotos, n) = {} /\ Blocks(indirect, n) = {} /\ Ifs(frames, n) = {}
      BY <1>2, NoneAhead
    <3>2. Unpatched \notin term'[b + 1].to
      BY <1>1, <1>2, <2>1
    <3> QED BY <1>1, <1>4, <2>1, <3>1, <3>2 DEF OwedOnce
  <2>2. CASE b = f.entry \/ b = f.thenExit
    <3>1. m \in Ifs(frames, b) /\ b \in Indices
      BY <1>1, <1>4, <2>2
    <3>2. OwedOnce(term[b + 1], gotos, indirect, frames, b)
      BY <1>1, <3>1 DEF Owners
    <3>3. Blocks(gotos, b) = {} /\ Blocks(indirect, b) = {} /\ Ifs(frames, b) = {m}
      BY <3>1, <3>2 DEF OwedOnce
    <3>4. Unpatched \notin term'[b + 1].to
      <4>1. b + 1 \in 1 .. n + 1 /\ (b + 1 = f.entry + 1 \/ b + 1 = f.thenExit + 1)
        BY <1>2, <2>2
      <4>2. term'[b + 1].to \subseteq 1 .. n + 1 BY <1>1, <4>1
      <4> QED BY <1>2, <4>2 DEF Unpatched
    <3>5. Ifs(frames', b) = {}
      BY <1>4, <3>3
    <3> QED BY <1>1, <3>3, <3>4, <3>5 DEF OwedOnce
  <2>3. CASE b # n /\ b # f.entry /\ b # f.thenExit
    <3>1. b \in Indices /\ b + 1 \in 1 .. n /\ b + 1 # f.entry + 1 /\ b + 1 # f.thenExit + 1
      BY <1>1, <1>2, <2>3
    <3>2. term'[b + 1] = term[b + 1]
      BY <1>1, <3>1
    <3>3. Ifs(frames', b) = Ifs(frames, b) /\ \A i \in Ifs(frames, b) : frames'[i] = frames[i]
      <4>1. m \notin Ifs(frames, b)
        BY <1>4, <2>3
      <4> PICK x, y : x = Ifs(frames, b) /\ y = Ifs(frames', b)
        OBVIOUS
      <4>2. y = x \ {m} /\ \A i \in y : frames'[i] = frames[i]
        BY <1>4
      <4>3. y = x
        BY ONLY <4>1, <4>2, x = Ifs(frames, b)
      <4> QED BY ONLY <4>2, <4>3, x = Ifs(frames, b), y = Ifs(frames', b)
    <3>4. SameOwners(gotos, indirect, frames, gotos', indirect', frames', b)
      BY <1>1, <3>3 DEF SameOwners
    <3>5. OwedOnce(term[b + 1], gotos, indirect, frames, b)
      BY <1>1, <3>1 DEF Owners
    <3> QED BY <3>2, <3>4, <3>5, SameOnce
  <2> QED BY <2>1, <2>2, <2>3
<1>6. (\A b \in Indices : OwedOnce(term[b + 1], gotos, indirect, frames, b))'
  BY <1>2, <1>5
<1> QED BY <1>6 DEF Owners

LEMMA OneOfTail ==
  ASSUME NEW gs, IsSeq(gs), Len(gs) > 0, NEW b, NEW B, B = Blocks(gs, b)
  PROVE  /\ B = {} => Blocks(Tail(gs), b) = {}
         /\ \A i \in Nat : B = {i} /\ gs[1].block # b => i - 1 \in Nat /\ Blocks(Tail(gs), b) = {i - 1}
         /\ gs[1].block = b => 1 \in B
         /\ \A i \in Nat : B = {i} /\ gs[1].block = b => Blocks(Tail(gs), b) = {}
<1>1. Blocks(Tail(gs), b) = { i - 1 : i \in B \ {1} }
  BY BlocksTail
<1>2. Len(gs) \in Nat /\ (gs[1].block = b <=> 1 \in B) /\ B \subseteq 1 .. Len(gs)
  BY SeqLen DEF Blocks
<1>3. ASSUME NEW i \in Nat, B = {i}, gs[1].block # b
      PROVE  i - 1 \in Nat /\ Blocks(Tail(gs), b) = {i - 1}
  <2>1. i # 1 /\ i \in 1 .. Len(gs)
    BY <1>2, <1>3
  <2>2. B \ {1} = {i} /\ i - 1 \in Nat
    BY <1>3, <2>1
  <2> QED BY <1>1, <2>2
<1>4. ASSUME NEW i \in Nat, B = {i}, gs[1].block = b PROVE Blocks(Tail(gs), b) = {}
  <2>1. B \ {1} = {}
    BY <1>2, <1>4
  <2> QED BY <1>1, <2>1
<1>5. B = {} => Blocks(Tail(gs), b) = {}
  BY <1>1
<1> QED BY <1>2, <1>3, <1>4, <1>5

LEMMA PatchGotoOwners ==
  ASSUME Good, Owners, PatchGoto PROVE Owners'
<1> PICK g : g = Head(gotos)
  OBVIOUS
<1> PICK t : t = Transit(g.scopes, g.label)
  OBVIOUS
<1> PICK n, N : n = Len(t.term) /\ N = NumBlocks
  OBVIOUS
<1>1. CASE Rejected(g.scopes, g.label) # "no"
  <2>1. phase' \in {"vla", "unresolved"}
    BY <1>1 DEF PatchGoto, Fail, Rejected
  <2> QED BY <2>1 DEF Owners
<1>2. CASE Rejected(g.scopes, g.label) = "no"
  <2>1. /\ phase = "patch" /\ UNCHANGED <<indirect, frames>>
        /\ IsSeq(gotos) /\ Len(gotos) > 0 /\ gotos' = Tail(gotos) /\ g = gotos[1]
        /\ g.block \in Indices /\ NumBlocks' = n /\ n \in {NumBlocks, NumBlocks + 1}
    BY <1>2, PatchGotoTerms
  <2>2. \A b \in 1 .. n : \/ term'[b].to \subseteq 1 .. n - 1
                          \/ /\ b \in 1 .. NumBlocks /\ term'[b] = term[b]
                             /\ b # g.block + 1
    BY <1>2, PatchGotoTerms
  <2>3. \A b \in 1 .. NumBlocks : b = g.block + 1 \/ term'[b] = term[b]
    BY <1>2, PatchGotoTerms
  <2>4. N \in Nat /\ n \in Nat /\ Indices = 0 .. N - 1 /\ Indices' = 0 .. n - 1 /\ Unpatched \notin 1 .. n - 1
    BY <2>1 DEF Good, NumBlocks, Indices, Unpatched
  <2>5. ASSUME NEW b \in 0 .. n - 1 PROVE OwedOnce(term'[b + 1], gotos', indirect', frames', b)
    <3>1. b + 1 \in 1 .. n /\ (b = N \/ (b \in 0 .. N - 1 /\ b + 1 \in 1 .. N))
      BY <2>1, <2>4
    <3> PICK B : B = Blocks(gotos, b)
      OBVIOUS
    <3>2. /\ B = {} => Blocks(gotos', b) = {}
          /\ \A i \in Nat : B = {i} /\ g.block # b => i - 1 \in Nat /\ Blocks(gotos', b) = {i - 1}
          /\ g.block = b => 1 \in B
          /\ \A i \in Nat : B = {i} /\ g.block = b => Blocks(gotos', b) = {}
      BY <2>1, OneOfTail
    <3>3. CASE b = N
      <4>1. B = {} /\ Blocks(indirect, b) = {} /\ Ifs(frames, b) = {}
        BY <2>4, <3>3, NoneAhead
      <4>2. b + 1 \notin 1 .. N
        BY <2>4, <3>3
      <4>3. Unpatched \notin term'[b + 1].to
        BY <2>2, <2>4, <3>1, <4>2
      <4> QED BY <2>1, <3>2, <4>1, <4>3 DEF OwedOnce
    <3>4. CASE b \in 0 .. N - 1 /\ b = g.block
      <4>1. OwedOnce(term[b + 1], gotos, indirect, frames, b)
        BY <2>1, <2>4, <3>4 DEF Owners
      <4>2. 1 \in B
        BY <3>2, <3>4
      <4>3. /\ \E i \in Nat : B = {i}
            /\ Blocks(indirect, b) = {} /\ Ifs(frames, b) = {}
        BY <4>1, <4>2 DEF OwedOnce
      <4>4. Blocks(gotos', b) = {}
        BY <3>2, <3>4, <4>3
      <4>5. Unpatched \notin term'[b + 1].to
        BY <2>2, <2>4, <3>1, <3>4
      <4> QED BY <2>1, <4>3, <4>4, <4>5 DEF OwedOnce
    <3>5. CASE b \in 0 .. N - 1 /\ b # g.block
      <4>1. OwedOnce(term[b + 1], gotos, indirect, frames, b)
        BY <2>1, <2>4, <3>5 DEF Owners
      <4>2. term'[b + 1] = term[b + 1]
        <5>1. b + 1 \in 1 .. N /\ b + 1 # g.block + 1
          BY <2>1, <2>4, <3>5
        <5> QED BY <2>3, <5>1
      <4>3. CASE Unpatched \notin term[b + 1].to
        BY <2>1, <3>2, <4>1, <4>2, <4>3 DEF OwedOnce
      <4>4. CASE Unpatched \in term[b + 1].to
        <5>1. PICK i \in Nat :
                \/ /\ B = {i} /\ Blocks(indirect, b) = {} /\ Ifs(frames, b) = {}
                   /\ term[b + 1].kind = "goto"
                \/ /\ B = {} /\ Blocks(indirect, b) = {i} /\ Ifs(frames, b) = {}
                   /\ term[b + 1].kind = "switch"
                \/ /\ B = {} /\ Blocks(indirect, b) = {} /\ Ifs(frames, b) = {i}
                   /\ term[b + 1].kind = IfKind(frames[i], b)
          BY <4>1, <4>4 DEF OwedOnce
        <5>2. CASE B = {i}
          <6>1. i - 1 \in Nat /\ Blocks(gotos', b) = {i - 1}
            BY <3>2, <3>5, <5>2
          <6> QED BY <2>1, <4>2, <4>4, <5>1, <5>2, <6>1 DEF OwedOnce
        <5>3. CASE B = {}
          <6>1. Blocks(gotos', b) = {}
            BY <3>2, <5>3
          <6> QED BY <2>1, <4>2, <4>4, <5>1, <5>3, <6>1 DEF OwedOnce
        <5> QED BY <5>1, <5>2, <5>3
      <4> QED BY <4>3, <4>4
    <3> QED BY <3>1, <3>3, <3>4, <3>5
  <2>6. (\A b \in Indices : OwedOnce(term[b + 1], gotos, indirect, frames, b))'
    BY <2>4, <2>5
  <2> QED BY <2>6 DEF Owners
<1> QED BY <1>1, <1>2

LEMMA PatchIndirectLabelOwners ==
  ASSUME Good, Owners, NEW l \in Labels, PatchIndirectLabel(l) PROVE Owners'
<1> PICK g : g = Head(indirect)
  OBVIOUS
<1> PICK t : t = Transit(g.scopes, l)
  OBVIOUS
<1> PICK n, N : n = Len(t.term) /\ N = NumBlocks
  OBVIOUS
<1>1. CASE Rejected(g.scopes, l) # "no"
  <2>1. phase' \in {"vla", "unresolved"}
    BY <1>1 DEF PatchIndirectLabel, Fail, Rejected
  <2> QED BY <2>1 DEF Owners
<1>2. CASE Rejected(g.scopes, l) = "no"
  <2> DEFINE h == [block |-> g.block, scopes |-> g.scopes,
                   resolved |-> g.resolved \cup {l}, to |-> g.to \cup {t.to}]
  <2>1. /\ phase = "patch" /\ term' = t.term /\ indirect # << >>
        /\ indirect' = <<h>> \o Tail(indirect) /\ UNCHANGED <<gotos, frames>>
    BY <1>2 DEF PatchIndirectLabel
  <2>2. h.block = g.block
    OBVIOUS
  <2> HIDE DEF h
  <2>3. IsSeq(indirect) /\ Len(indirect) > 0
    BY <2>1, NonEmpty DEF Good, PendingLand
  <2>4. targets[l] # Unbound
    BY <1>2 DEF Rejected
  <2>5. /\ n \in {NumBlocks, NumBlocks + 1}
        /\ \A b \in 1 .. NumBlocks : t.term[b] = term[b]
        /\ \A b \in 1 .. n : b \in 1 .. NumBlocks \/ t.term[b].to \subseteq 1 .. n - 1
    BY <2>1, <2>4, TransitLands
  <2>6. /\ N \in Nat /\ n \in Nat /\ Indices = 0 .. N - 1 /\ Indices' = 0 .. n - 1
        /\ Unpatched \notin 1 .. n - 1
    BY <2>1, <2>5 DEF Good, NumBlocks, Indices, Unpatched
  <2>7. \A b : Blocks(indirect', b) = Blocks(indirect, b)
    BY <2>1, <2>2, <2>3, BlocksSetFirst
  <2>8. ASSUME NEW b \in 0 .. n - 1 PROVE OwedOnce(term'[b + 1], gotos', indirect', frames', b)
    <3>1. CASE b = N
      <4>1. Blocks(gotos, b) = {} /\ Blocks(indirect, b) = {} /\ Ifs(frames, b) = {}
        BY <2>6, <3>1, NoneAhead
      <4>2. b + 1 \in 1 .. n /\ b + 1 \notin 1 .. N
        BY <2>6, <3>1
      <4>3. Unpatched \notin term'[b + 1].to
        BY <2>1, <2>5, <2>6, <4>2
      <4> QED BY <2>1, <2>7, <4>1, <4>3 DEF OwedOnce
    <3>2. CASE b # N
      <4>1. b \in Indices /\ b + 1 \in 1 .. N
        BY <2>5, <2>6, <3>2
      <4>2. OwedOnce(term[b + 1], gotos, indirect, frames, b)
        BY <2>1, <4>1 DEF Owners
      <4>3. term'[b + 1] = term[b + 1]
        BY <2>1, <2>5, <4>1
      <4>4. SameOwners(gotos, indirect, frames, gotos', indirect', frames', b)
        BY <2>1, <2>7 DEF SameOwners
      <4> QED BY <4>2, <4>3, <4>4, SameOnce
    <3> QED BY <3>1, <3>2
  <2>9. (\A b \in Indices : OwedOnce(term[b + 1], gotos, indirect, frames, b))'
    BY <2>6, <2>8
  <2> QED BY <2>9 DEF Owners
<1> QED BY <1>1, <1>2

LEMMA PatchIndirectOwners ==
  ASSUME Good, Owners, PatchIndirect PROVE Owners'
<1> PICK g : g = Head(indirect)
  OBVIOUS
<1> PICK to : to = g.to
  OBVIOUS
<1>1. CASE to = {}
  <2>1. phase' = "noLabels"
    BY <1>1 DEF PatchIndirect, Fail
  <2> QED BY <2>1 DEF Owners
<1>2. CASE to # {}
  <2>1. /\ phase = "patch" /\ indirect # << >> /\ term' = Patched(term, g.block, to)
        /\ indirect' = Tail(indirect) /\ UNCHANGED <<gotos, frames>>
    BY <1>2 DEF PatchIndirect
  <2>2. IsSeq(indirect) /\ Len(indirect) > 0 /\ g = indirect[1] /\ 1 \in 1 .. Len(indirect)
    BY <2>1, NonEmpty, TailIsSeq, SeqLen DEF Good, PendingLand
  <2> PICK N : N = NumBlocks
    OBVIOUS
  <2>3. /\ N \in Nat /\ Indices = 0 .. N - 1 /\ g.block \in 0 .. N - 1 /\ to \subseteq 1 .. N - 1
        /\ Unpatched \notin to /\ Len(term) = N /\ term \in Seq(Term)
    BY <2>1, <2>2 DEF Good, PendingLand, NumBlocks, Indices, Span, Unpatched
  <2>4. /\ Len(term') = N /\ term'[g.block + 1].to = to
        /\ \A c \in 1 .. N : c # g.block + 1 => term'[c] = term[c]
    <3>1. to \in SUBSET Int
      BY <2>3
    <3> PICK p : p = Patched(term, g.block, to) OBVIOUS
    <3>2. g.block \in 0 .. Len(term) - 1 /\ term \in Seq(Term) BY <2>3
    <3>3. /\ Len(p) = Len(term) /\ p[g.block + 1].to = to
          /\ \A c \in 1 .. Len(term) : c # g.block + 1 => p[c] = term[c]
      BY ONLY <3>1, <3>2, p = Patched(term, g.block, to), PatchTerm
    <3> QED BY <2>1, <2>3, <3>3
  <2>5. Indices' = 0 .. N - 1
    BY <2>4 DEF Indices, NumBlocks
  <2>6. ASSUME NEW b \in 0 .. N - 1 PROVE OwedOnce(term'[b + 1], gotos', indirect', frames', b)
    <3> PICK B : B = Blocks(indirect, b)
      OBVIOUS
    <3>1. /\ B = {} => Blocks(indirect', b) = {}
          /\ \A i \in Nat : B = {i} /\ g.block # b => i - 1 \in Nat /\ Blocks(indirect', b) = {i - 1}
          /\ g.block = b => 1 \in B
          /\ \A i \in Nat : B = {i} /\ g.block = b => Blocks(indirect', b) = {}
      BY <2>1, <2>2, OneOfTail
    <3>2. OwedOnce(term[b + 1], gotos, indirect, frames, b)
      BY <2>1, <2>3 DEF Owners
    <3>3. CASE b = g.block
      <4>1. 1 \in B
        BY <3>1, <3>3
      <4>2. /\ \E i \in Nat : B = {i}
            /\ Blocks(gotos, b) = {} /\ Ifs(frames, b) = {}
        BY <3>2, <4>1 DEF OwedOnce
      <4>3. Blocks(indirect', b) = {}
        BY <3>1, <3>3, <4>2
      <4>4. Unpatched \notin term'[b + 1].to
        BY <2>3, <2>4, <3>3
      <4> QED BY <2>1, <4>2, <4>3, <4>4 DEF OwedOnce
    <3>4. CASE b # g.block
      <4>1. term'[b + 1] = term[b + 1]
        <5>1. b + 1 \in 1 .. N /\ b + 1 # g.block + 1
          BY <2>3, <3>4
        <5> QED BY <2>4, <5>1
      <4>2. CASE Unpatched \notin term[b + 1].to
        BY <2>1, <3>1, <3>2, <4>1, <4>2 DEF OwedOnce
      <4>3. CASE Unpatched \in term[b + 1].to
        <5>1. PICK i \in Nat :
                \/ /\ Blocks(gotos, b) = {i} /\ B = {} /\ Ifs(frames, b) = {}
                   /\ term[b + 1].kind = "goto"
                \/ /\ Blocks(gotos, b) = {} /\ B = {i} /\ Ifs(frames, b) = {}
                   /\ term[b + 1].kind = "switch"
                \/ /\ Blocks(gotos, b) = {} /\ B = {} /\ Ifs(frames, b) = {i}
                   /\ term[b + 1].kind = IfKind(frames[i], b)
          BY <3>2, <4>3 DEF OwedOnce
        <5>2. CASE B = {i}
          <6>1. i - 1 \in Nat /\ Blocks(indirect', b) = {i - 1}
            BY <3>1, <3>4, <5>2
          <6> QED BY <2>1, <4>1, <4>3, <5>1, <5>2, <6>1 DEF OwedOnce
        <5>3. CASE B = {}
          <6>1. Blocks(indirect', b) = {}
            BY <3>1, <5>3
          <6> QED BY <2>1, <4>1, <4>3, <5>1, <5>3, <6>1 DEF OwedOnce
        <5> QED BY <5>1, <5>2, <5>3
      <4> QED BY <4>2, <4>3
    <3> QED BY <3>3, <3>4
  <2>7. (\A b \in Indices : OwedOnce(term[b + 1], gotos, indirect, frames, b))'
    BY <2>5, <2>6
  <2> QED BY <2>7 DEF Owners
<1> QED BY <1>1, <1>2

LEMMA StepOwners == JInv /\ Owners /\ [Next]_vars => Owners'
<1> SUFFICES ASSUME JInv, Owners, [Next]_vars PROVE Owners'
  OBVIOUS
<1>1. CASE UNCHANGED vars
  BY <1>1 DEF vars, Owners, Indices, NumBlocks
<1>2. CASE Lower
  <2>1. Good
    BY <1>2 DEF JInv, Lower, EnterBlock, ExitBlock, Decl, Use, EnterExpr, ExitExpr, BindLabel, Goto,
                IndirectGoto, Return, Call, EnterThen, EnterElse, ExitIf, Finish, Choose
  <2>2. CASE \/ \E ds \in SUBSET fresh : EnterBlock(ds)
             \/ ExitBlock \/ EnterExpr \/ ExitExpr
             \/ \E x \in Locals : Decl(x) \/ Use(x)
    BY <2>1, <2>2, PlainOwners
  <2>3. CASE \/ \E l \in Labels : BindLabel(l) \/ Goto(l)
             \/ IndirectGoto \/ Return \/ Finish
             \/ \E diverges \in BOOLEAN : Call(diverges)
    BY <2>1, <2>3, PushOwners
  <2> QED BY <1>2, <2>1, <2>2, <2>3, EnterThenOwners, EnterElseOwners, ExitIfOwners DEF Lower
<1>3. CASE Patch
  <2>1. Good
    BY <1>3 DEF JInv, Patch, PatchGoto, PatchIndirectLabel, PatchIndirect, Complete
  <2>2. Complete => Owners'
    BY DEF Complete, Owners
  <2> QED BY <1>3, <2>1, <2>2, PatchGotoOwners, PatchIndirectLabelOwners, PatchIndirectOwners DEF Patch
<1> QED BY <1>1, <1>2, <1>3 DEF Next

(* Each jump that still has no target is on exactly one list of those that *)
(* will give it one, as the terminator that list patches: the patchers     *)
(* never meet another, and nothing is patched twice.                       *)
THEOREM PatchesAlwaysOwed == Spec => []EveryPatchOwed
<1>1. Init => Owners
  BY DEF Init, Owners, Indices, NumBlocks
<1>2. JInv /\ Owners /\ [Next]_vars => (JInv /\ Owners)'
  BY StepGood, StepOwners
<1> QED BY InitGood, <1>1, <1>2, OwnersOwed, PTL DEF Spec

-----------------------------------------------------------------------------
(***************************************************************************)
(* Executions.                                                             *)
(*                                                                         *)
(* The builder does not know how its blocks will run.  The invariant says  *)
(* there is a trace: what is live, and which VLAs are declared, in front   *)
(* of every statement of every block, the same along each jump as at the   *)
(* block it goes to.  A goto or a label is traced to the scopes it noted,  *)
(* a block being built to the scopes there are, so patching has a block to *)
(* put between two points whose difference it knows.                       *)
(***************************************************************************)

(***************************************************************************)
(* Which locals a scope has, by its id.  home is not in the builder: it    *)
(* remembers the locals of every scope there has been.  A local belongs to *)
(* one scope at most; one a statement expression declared, to none.        *)
(***************************************************************************)
Homed(home) == UNION { home[n] : n \in Nat }
Storable(home) == fresh \cup Homed(home)

NoExpr == "expr" \notin Kinds

Scopes == [id : Nat, locals : SUBSET Locals, vlas : SUBSET Locals]

ScopeOK(home, e) ==
  e \in Scopes /\ e.locals = home[e.id] /\ (NoExpr => e.vlas \subseteq e.locals)

Homes(home) ==
  /\ home \in [Nat -> SUBSET Locals]
  /\ \A m, n \in Nat : m # n => home[m] \cap home[n] = {}
  /\ \A n \in Nat : home[n] \cap fresh = {} /\ (n >= nextScope => home[n] = {})
  /\ \A s \in Snapshots : \A i \in 1 .. Len(s) : ScopeOK(home, s[i])

(***************************************************************************)
(* Which scope a statement being lowered is in: depth[i] scopes are open   *)
(* inside of frame i.                                                      *)
(***************************************************************************)
Deepens(f) == IF f.kind = "block" THEN 1 ELSE 0

IsDepth(depth) == depth \in [Nat -> Nat]

Nested(depth) ==
  /\ IsDepth(depth) /\ depth[0] = 0
  /\ \A i \in 1 .. Len(frames) : depth[i] = depth[i - 1] + Deepens(frames[i])
  /\ \A i, j \in 1 .. Len(frames) : i <= j => depth[i] <= depth[j]
  /\ depth[Len(frames)] = Len(scopes)
  /\ \A k \in 1 .. Len(scopes) :
       \E i \in 1 .. Len(frames) : frames[i].kind = "block" /\ depth[i] = k

Names(K, f, e) ==
  /\ f.seen \cap Vlas \subseteq e.vlas
  /\ f.kind = "block" => f.todo \cup f.seen \subseteq e.locals
  /\ f.kind = "expr" => f.seen \cap K = {}
  /\ f.kind \in {"then", "else"} => f.seen = {}
  /\ NoExpr => /\ f.kind # "expr"
               /\ f.kind = "block" => e.vlas = f.seen \cap Vlas

Sees(home, depth) == \A i \in 1 .. Len(frames) : Names(Storable(home), frames[i], scopes[depth[i]])

Scoped(home, depth) == phase = "lower" => Nested(depth) /\ Sees(home, depth)

LEMMA DepthNat == ASSUME NEW depth, IsDepth(depth), NEW k \in Nat PROVE depth[k] \in Nat
BY DEF IsDepth

LEMMA NestedKept ==
  ASSUME NEW depth, Nested(depth), Len(frames') = Len(frames), Len(scopes') = Len(scopes),
         \A i \in 1 .. Len(frames) :
           frames'[i].kind = frames[i].kind /\ Deepens(frames'[i]) = Deepens(frames[i])
  PROVE  Nested(depth)'
<1>1. \A i \in 1 .. Len(frames') : depth[i] = depth[i - 1] + Deepens(frames'[i])
  BY DEF Nested
<1>2. \A k \in 1 .. Len(scopes') :
        \E i \in 1 .. Len(frames') : frames'[i].kind = "block" /\ depth[i] = k
  BY DEF Nested
<1>3. /\ IsDepth(depth) /\ depth[0] = 0 /\ depth[Len(frames')] = Len(scopes')
      /\ \A i, j \in 1 .. Len(frames') : i <= j => depth[i] <= depth[j]
  BY DEF Nested
<1> QED BY <1>1, <1>2, <1>3 DEF Nested

LEMMA DepthRange ==
  ASSUME Good, NEW depth, Nested(depth), NEW i \in 1 .. Len(frames)
  PROVE  depth[i] \in 1 .. Len(scopes)
<1>1. Len(frames) \in Nat /\ Len(frames) > 0 /\ frames[1].kind = "block"
  BY SeqLen DEF Good, FramesOK, IsSeq
<1>2. depth[1] = 1
  <2>1. depth[1] = depth[1 - 1] + Deepens(frames[1])
    BY <1>1 DEF Nested
  <2> QED BY <1>1, <2>1 DEF Nested, Deepens
<1>3. /\ i \in Nat /\ 1 <= i /\ i <= Len(frames)
      /\ 1 \in 1 .. Len(frames) /\ Len(frames) \in 1 .. Len(frames)
  BY <1>1
<1>4. depth[1] <= depth[i] /\ depth[i] <= depth[Len(frames)] /\ depth[Len(frames)] = Len(scopes)
  BY <1>3 DEF Nested
<1>5. depth[i] \in Nat /\ depth[Len(frames)] \in Nat
  BY <1>1, <1>3 DEF Nested, IsDepth
<1> QED BY <1>2, <1>4, <1>5

-----------------------------------------------------------------------------
(* Entering a block.                                                       *)
(* g is f, but for v at n.                                                 *)
Differs(g, f, n, v) == g[n] = v /\ \A m \in Nat : m # n => g[m] = f[m]

LEMMA HomedNew ==
  ASSUME NEW n \in Nat, NEW home, NEW home2, NEW ds, home[n] = {}, Differs(home2, home, n, ds)
  PROVE  Homed(home2) = Homed(home) \cup ds
<1>1. ASSUME NEW x \in Homed(home2) PROVE x \in Homed(home) \cup ds
  <2>1. PICK m \in Nat : x \in home2[m]
    BY <1>1 DEF Homed
  <2> QED BY <2>1 DEF Homed, Differs
<1>2. ASSUME NEW x \in Homed(home) \cup ds PROVE x \in Homed(home2)
  <2>1. CASE x \in ds
    BY <2>1 DEF Homed, Differs
  <2>2. CASE x \in Homed(home)
    <3>1. PICK m \in Nat : x \in home[m]
      BY <2>2 DEF Homed
    <3>2. m # n
      BY <3>1
    <3> QED BY <3>1, <3>2 DEF Homed, Differs
  <2> QED BY <1>2, <2>1, <2>2
<1> QED BY <1>1, <1>2

LEMMA EnterBlockHomes ==
  ASSUME Good, SnapInv, NEW home, Homes(home), NEW ds \in SUBSET fresh, EnterBlock(ds),
         NEW n, n = nextScope,
         NEW home2 \in [Nat -> SUBSET Locals], Differs(home2, home, n, ds)
  PROVE  /\ Homes(home2)' /\ Homed(home2) = Homed(home) \cup ds
         /\ Storable(home2)' = Storable(home)
<1>1. /\ nextScope' = n + 1 /\ n \in Nat /\ fresh' = fresh \ ds /\ ds \subseteq fresh
      /\ scopes' = Append(scopes, OpenScope(n, ds))
      /\ UNCHANGED <<targets, gotos, indirect>>
  BY DEF EnterBlock, SnapInv
<1>2. home[n] = {}
  <2>1. n >= nextScope
    BY <1>1
  <2> QED BY <1>1, <2>1 DEF Homes
<1>3. /\ home2 \in [Nat -> SUBSET Locals] /\ home2[n] = ds
      /\ \A m \in Nat : m # n => home2[m] = home[m]
      /\ Homed(home2) = Homed(home) \cup ds
  <2>1. Homed(home2) = Homed(home) \cup ds
    BY <1>1, <1>2, HomedNew
  <2> QED BY <2>1 DEF Differs
<1>4. Storable(home2)' = Storable(home)
  BY <1>1, <1>3 DEF Storable
<1>5. ASSUME NEW a \in Nat, NEW b \in Nat, a # b PROVE home2[a] \cap home2[b] = {}
  <2>1. home[a] \cap home[b] = {} /\ home[a] \cap ds = {} /\ home[b] \cap ds = {}
    BY <1>1, <1>5 DEF Homes
  <2> QED BY <1>3, <1>5, <2>1
<1>6. ASSUME NEW a \in Nat PROVE home2[a] \cap fresh' = {} /\ (a >= n + 1 => home2[a] = {})
  <2>1. home[a] \cap fresh = {} /\ (a >= n => home[a] = {})
    BY <1>1 DEF Homes
  <2> QED BY <1>1, <1>3, <2>1
<1>7. ASSUME NEW s \in Snapshots, NEW i \in 1 .. Len(s)
      PROVE  ScopeOK(home2, s[i])
  <2>1. ScopeOK(home, s[i])
    BY DEF Homes
  <2>2. s[i].id \in 0 .. n - 1
    BY <1>1 DEF SnapInv, Shaped
  <2>3. s[i].id \in Nat /\ s[i].id # n
    BY <1>1, <2>2
  <2> QED BY <1>3, <2>1, <2>3 DEF ScopeOK
<1>8. ScopeOK(home2, OpenScope(n, ds))
  BY <1>1, <1>3 DEF ScopeOK, OpenScope, Scopes, Good, FramesOK
<1>9. IsSeq(scopes) /\ scopes \in Snapshots
  BY DEF SnapInv, Shaped, Snapshots
<1>10. Snapshots' \subseteq Snapshots \cup {scopes'}
  BY <1>1 DEF Snapshots
<1>11. ASSUME NEW i \in 1 .. Len(scopes') PROVE ScopeOK(home2, scopes'[i])
  <2>1. /\ Len(scopes') = Len(scopes) + 1 /\ scopes'[Len(scopes) + 1] = OpenScope(n, ds)
        /\ \A k \in 1 .. Len(scopes) : scopes'[k] = scopes[k]
        /\ Len(scopes) \in Nat
    BY <1>1, <1>9, AppendIsSeq, SeqLen
  <2>2. i \in 1 .. Len(scopes) \/ i = Len(scopes) + 1
    BY <2>1
  <2> QED BY <2>1, <2>2, <1>7, <1>8, <1>9
<1>12. \A s \in Snapshots' : \A i \in 1 .. Len(s) : ScopeOK(home2, s[i])
  BY <1>4, <1>7, <1>10, <1>11
<1> QED BY <1>1, <1>3, <1>4, <1>5, <1>6, <1>12 DEF Homes

LEMMA NamesKept ==
  ASSUME NEW K, NEW K2, K2 \subseteq K, NEW f, NEW e, Names(K, f, e) PROVE Names(K2, f, e)
BY DEF Names

LEMMA EnterBlockScoped ==
  ASSUME Good, SnapInv, NEW home, Homes(home), NEW ds \in SUBSET fresh, EnterBlock(ds),
         NEW n, n = nextScope,
         NEW home2 \in [Nat -> SUBSET Locals], Differs(home2, home, n, ds),
         NEW depth, Scoped(home, depth), NEW m, m = Len(frames),
         NEW depth2, IsDepth(depth2), Differs(depth2, depth, m + 1, depth[m] + 1)
  PROVE  Scoped(home2, depth2)'
<1>1. /\ phase = "lower" /\ frames' = Append(frames, Frame("block", ds))
      /\ scopes' = Append(scopes, OpenScope(n, ds))
  BY DEF EnterBlock, Choose
<1>2. /\ IsSeq(frames) /\ IsSeq(scopes) /\ m \in Nat /\ Len(scopes) \in Nat
  BY SeqLen DEF Good, FramesOK, IsSeq, SnapInv, Shaped, Snapshots
<1>3. /\ Len(scopes') = Len(scopes) + 1 /\ scopes'[Len(scopes) + 1] = OpenScope(n, ds)
      /\ \A k \in 1 .. Len(scopes) : scopes'[k] = scopes[k]
  BY <1>1, <1>2, AppendIsSeq
<1>4. /\ Len(frames') = m + 1 /\ frames'[m + 1] = Frame("block", ds)
      /\ \A k \in 1 .. m : frames'[k] = frames[k]
  BY <1>1, <1>2, AppendIsSeq
<1>5. Nested(depth) /\ Sees(home, depth)
  BY <1>1 DEF Scoped
<1>6. /\ depth2[m + 1] = Len(scopes) + 1
      /\ \A i \in 0 .. m : depth2[i] = depth[i]
      /\ depth[m] = Len(scopes)
  <2>1. depth[m] = Len(scopes)
    BY <1>5 DEF Nested
  <2>2. \A i \in 0 .. m : i \in Nat /\ i # m + 1
    BY <1>2
  <2> QED BY <2>1, <2>2 DEF Differs
<1>7. \A i \in 1 .. m : depth[i] \in 1 .. Len(scopes) /\ depth[i] \in Nat
  <2>1. \A i \in 1 .. m : depth[i] \in 1 .. Len(scopes)
    BY <1>5, DepthRange
  <2> QED BY <1>2, <2>1
<1>8. Frame("block", ds).kind = "block" /\ Frame("block", ds).todo = ds /\ Frame("block", ds).seen = {}
  BY DEF Frame
<1>9. Nested(depth2)'
  <2>1. depth2[0] = 0
    BY <1>2, <1>5, <1>6 DEF Nested
  <2>2. ASSUME NEW i \in 1 .. m + 1 PROVE depth2[i] = depth2[i - 1] + Deepens(frames'[i])
    <3>1. CASE i = m + 1
      <4>1. depth2[i - 1] = Len(scopes)
        BY <1>2, <1>6, <3>1
      <4> QED BY <1>4, <1>6, <1>8, <3>1, <4>1 DEF Deepens
    <3>2. CASE i \in 1 .. m
      <4>1. i \in 0 .. m /\ i - 1 \in 0 .. m
        BY <1>2, <3>2
      <4>2. depth[i] = depth[i - 1] + Deepens(frames[i])
        BY <1>5, <3>2 DEF Nested
      <4> QED BY <1>4, <1>6, <3>2, <4>1, <4>2
    <3> QED BY <1>2, <3>1, <3>2
  <2>3. ASSUME NEW i \in 1 .. m + 1, NEW j \in 1 .. m + 1, i <= j PROVE depth2[i] <= depth2[j]
    <3>1. CASE j = m + 1
      BY <1>2, <1>6, <1>7, <2>3, <3>1
    <3>2. CASE j \in 1 .. m
      <4>1. i \in 1 .. m /\ i \in 0 .. m /\ j \in 0 .. m
        BY <1>2, <2>3, <3>2
      <4>2. depth[i] <= depth[j]
        BY <1>5, <2>3, <3>2, <4>1 DEF Nested
      <4> QED BY <1>6, <4>1, <4>2
    <3> QED BY <1>2, <3>1, <3>2
  <2>4. ASSUME NEW k \in 1 .. Len(scopes) + 1
        PROVE  \E i \in 1 .. m + 1 : frames'[i].kind = "block" /\ depth2[i] = k
    <3>1. CASE k = Len(scopes) + 1
      BY <1>2, <1>4, <1>6, <1>8, <3>1
    <3>2. CASE k \in 1 .. Len(scopes)
      <4>1. PICK i \in 1 .. m : frames[i].kind = "block" /\ depth[i] = k
        BY <1>5, <3>2 DEF Nested
      <4> QED BY <1>2, <1>4, <1>6, <4>1
    <3> QED BY <1>2, <3>1, <3>2
  <2> QED BY <1>3, <1>4, <1>6, <2>1, <2>2, <2>3, <2>4 DEF Nested
<1>10. Storable(home2)' = Storable(home)
  BY EnterBlockHomes
<1>11. ASSUME NEW i \in 1 .. m + 1
       PROVE  Names(Storable(home), frames'[i], scopes'[depth2[i]])
  <2>1. CASE i = m + 1
    BY <1>3, <1>4, <1>6, <1>8, <2>1 DEF Names, OpenScope
  <2>2. CASE i \in 1 .. m
    <3>1. frames'[i] = frames[i] /\ scopes'[depth2[i]] = scopes[depth[i]]
      BY <1>2, <1>3, <1>4, <1>6, <1>7, <2>2
    <3> QED BY <1>5, <2>2, <3>1 DEF Sees
  <2> QED BY <1>2, <2>1, <2>2
<1>12. Sees(home2, depth2)'
  BY <1>4, <1>10, <1>11 DEF Sees
<1> QED BY <1>9, <1>12 DEF Scoped

-----------------------------------------------------------------------------
(* Leaving one, and declarations.                                          *)
LEMMA HomesKept ==
  ASSUME NEW home, Homes(home), nextScope' = nextScope, fresh' \subseteq fresh,
         Snapshots' \subseteq Snapshots \cup {scopes'},
         \A i \in 1 .. Len(scopes') : ScopeOK(home, scopes'[i])
  PROVE  Homes(home)'
<1>1. Storable(home)' \subseteq Storable(home)
  BY DEF Storable
<1>2. ASSUME NEW s \in Snapshots, NEW i \in 1 .. Len(s) PROVE ScopeOK(home, s[i])
  <2>1. ScopeOK(home, s[i])
    BY DEF Homes
  <2> QED BY <1>1, <2>1 DEF ScopeOK
<1>3. \A s \in Snapshots' : \A i \in 1 .. Len(s) : ScopeOK(home, s[i])
  BY <1>2
<1>4. \A n \in Nat : home[n] \cap fresh' = {} /\ (n >= nextScope' => home[n] = {})
  BY DEF Homes
<1>5. home \in [Nat -> SUBSET Locals] /\ \A m, n \in Nat : m # n => home[m] \cap home[n] = {}
  BY DEF Homes
<1> QED BY <1>3, <1>4, <1>5 DEF Homes

LEMMA HomesSame ==
  ASSUME NEW home, Homes(home), nextScope' = nextScope, fresh' = fresh,
         Snapshots' \subseteq Snapshots
  PROVE  Homes(home)' /\ Storable(home)' = Storable(home)
<1>1. Storable(home)' = Storable(home)
  BY DEF Storable
<1>2. \A s \in Snapshots' : \A i \in 1 .. Len(s) : ScopeOK(home, s[i])
  BY <1>1 DEF Homes
<1>3. \A n \in Nat : home[n] \cap fresh' = {} /\ (n >= nextScope' => home[n] = {})
  BY DEF Homes
<1>4. home \in [Nat -> SUBSET Locals] /\ \A m, n \in Nat : m # n => home[m] \cap home[n] = {}
  BY DEF Homes
<1> QED BY <1>1, <1>2, <1>3, <1>4 DEF Homes

LEMMA ScopesSeen ==
  ASSUME SnapInv, NEW home, Homes(home)
  PROVE  /\ IsSeq(scopes) /\ Len(scopes) \in Nat
         /\ \A i \in 1 .. Len(scopes) : ScopeOK(home, scopes[i])
<1>1. scopes \in Snapshots
  BY DEF Snapshots
<1>2. IsSeq(scopes)
  BY <1>1 DEF SnapInv, Shaped
<1> QED BY <1>1, <1>2, SeqLen DEF Homes

(* The statements around the innermost one.                                *)
LEMMA NestedFront ==
  ASSUME Good, NEW depth, Nested(depth), frames' = Front(frames),
         scopes' = IF Last(frames).kind = "block" THEN Front(scopes) ELSE scopes,
         IsSeq(scopes)
  PROVE  /\ Nested(depth)'
         /\ \A i \in 1 .. Len(frames') : /\ i \in 1 .. Len(frames) /\ frames'[i] = frames[i]
                                        /\ scopes'[depth[i]] = scopes[depth[i]]
<1> PICK m : m = Len(frames)
  OBVIOUS
<1>1. /\ IsSeq(frames) /\ m \in Nat /\ m > 0 /\ Len(scopes) \in Nat
  BY SeqLen DEF Good, FramesOK, IsSeq
<1>2. /\ Len(frames') = m - 1 /\ Last(frames) = frames[m]
      /\ \A i \in 1 .. m - 1 : frames'[i] = frames[i]
  BY <1>1, FrontIsSeq
<1>3. \A i \in 1 .. m : depth[i] \in 1 .. Len(scopes) /\ depth[i] \in Nat
  <2>1. \A i \in 1 .. m : depth[i] \in 1 .. Len(scopes)
    BY DepthRange
  <2> QED BY <1>1, <2>1
<1>4. /\ depth[m] = Len(scopes) /\ depth[m] = depth[m - 1] + Deepens(frames[m])
      /\ depth[m - 1] \in Nat
  BY <1>1 DEF Nested, IsDepth
<1>5. Len(scopes) > 0
  BY <1>1, <1>3, <1>4
<1>6. /\ Len(scopes') = depth[m - 1]
      /\ \A k \in 1 .. depth[m - 1] : k \in 1 .. Len(scopes) /\ scopes'[k] = scopes[k]
  <2>1. CASE Last(frames).kind = "block"
    <3>1. depth[m - 1] = Len(scopes) - 1
      BY <1>1, <1>2, <1>4, <2>1 DEF Deepens
    <3>2. /\ Len(scopes') = Len(scopes) - 1
          /\ \A k \in 1 .. Len(scopes) - 1 : scopes'[k] = scopes[k]
      BY <1>5, <2>1, FrontIsSeq
    <3> QED BY <1>1, <3>1, <3>2
  <2>2. CASE Last(frames).kind # "block"
    <3>1. depth[m - 1] = Len(scopes)
      BY <1>1, <1>2, <1>4, <2>2 DEF Deepens
    <3>2. scopes' = scopes
      BY <2>2
    <3> QED BY <3>1, <3>2
  <2> QED BY <2>1, <2>2
<1>7. ASSUME NEW i \in 1 .. m - 1 PROVE depth[i] \in 1 .. depth[m - 1] /\ i \in 1 .. m
  <2>1. i \in 1 .. m /\ m - 1 \in 1 .. m /\ i <= m - 1
    BY <1>1
  <2>2. depth[i] <= depth[m - 1]
    BY <2>1 DEF Nested
  <2> QED BY <1>3, <1>4, <2>1, <2>2
<1>8. Nested(depth)'
  <2>1. ASSUME NEW i \in 1 .. m - 1 PROVE depth[i] = depth[i - 1] + Deepens(frames'[i])
    BY <1>2, <1>7 DEF Nested
  <2>2. \A i, j \in 1 .. m - 1 : i <= j => depth[i] <= depth[j]
    BY <1>7 DEF Nested
  <2>3. ASSUME NEW k \in 1 .. depth[m - 1]
        PROVE  \E i \in 1 .. m - 1 : frames'[i].kind = "block" /\ depth[i] = k
    <3>1. PICK i \in 1 .. m : frames[i].kind = "block" /\ depth[i] = k
      BY <1>6 DEF Nested
    <3>2. i # m
      <4> SUFFICES ASSUME i = m PROVE FALSE
        OBVIOUS
      <4>1. depth[m] = depth[m - 1] + 1
        BY <1>4, <3>1 DEF Deepens
      <4> QED BY <1>4, <3>1, <4>1
    <3>3. i \in 1 .. m - 1
      BY <1>1, <3>2
    <3> QED BY <1>2, <3>1, <3>3
  <2> QED BY <1>2, <1>6, <2>1, <2>2, <2>3 DEF Nested
<1> QED BY <1>2, <1>6, <1>7, <1>8

LEMMA ExitBlockHomes ==
  ASSUME Good, SnapInv, NEW home, Homes(home), NEW depth, Scoped(home, depth), ExitBlock
  PROVE  Homes(home)' /\ Scoped(home, depth)' /\ Storable(home)' = Storable(home)
<1>1. /\ phase = "lower" /\ nextScope' = nextScope /\ Last(frames).kind = "block"
      /\ scopes' = Front(scopes) /\ frames' = Front(frames) /\ fresh' = fresh
      /\ UNCHANGED <<targets, gotos, indirect>>
  BY DEF ExitBlock
<1>2. Nested(depth) /\ Sees(home, depth)
  BY <1>1 DEF Scoped
<1>3. /\ IsSeq(scopes) /\ Len(scopes) \in Nat
      /\ \A i \in 1 .. Len(scopes) : ScopeOK(home, scopes[i])
  BY ScopesSeen
<1>4. Storable(home)' = Storable(home)
  BY <1>1 DEF Storable
<1>5. /\ Nested(depth)'
      /\ \A i \in 1 .. Len(frames') : /\ i \in 1 .. Len(frames) /\ frames'[i] = frames[i]
                                     /\ scopes'[depth[i]] = scopes[depth[i]]
  BY <1>1, <1>2, <1>3, NestedFront
<1>6. Sees(home, depth)'
  BY <1>2, <1>4, <1>5 DEF Sees
<1>7. \A i \in 1 .. Len(scopes') : ScopeOK(home, scopes'[i])
  <2>1. Len(frames) \in 1 .. Len(frames)
    BY SeqLen DEF Good, FramesOK, IsSeq
  <2>2. Len(scopes) > 0
    <3>1. depth[Len(frames)] \in 1 .. Len(scopes)
      BY <1>2, <2>1, DepthRange
    <3> QED BY <1>3, <3>1
  <2>3. /\ Len(scopes') = Len(scopes) - 1
        /\ \A k \in 1 .. Len(scopes) - 1 : scopes'[k] = scopes[k]
    BY <1>1, <1>3, <2>2, FrontIsSeq
  <2> QED BY <1>3, <1>4, <2>3
<1>8. Snapshots' \subseteq Snapshots \cup {scopes'}
  BY <1>1 DEF Snapshots
<1>9. Homes(home)'
  BY <1>1, <1>7, <1>8, HomesKept
<1> QED BY <1>4, <1>5, <1>6, <1>9 DEF Scoped

LEMMA DeclHomes ==
  ASSUME Good, SnapInv, NEW home, Homes(home), NEW depth, Scoped(home, depth),
         NEW x \in Locals, Decl(x)
  PROVE  /\ Homes(home)' /\ Scoped(home, depth)' /\ Storable(home)' \subseteq Storable(home)
         /\ \A k \in 1 .. Len(scopes) : scopes'[k].locals = scopes[k].locals
         /\ Len(scopes') = Len(scopes)
         /\ \A k \in 1 .. Len(scopes) - 1 : scopes'[k] = scopes[k]
         /\ scopes'[Len(scopes)].vlas = scopes[Len(scopes)].vlas \cup ({x} \cap Vlas)
         /\ x \in Storable(home)' => x \in scopes[Len(scopes)].locals
         /\ Len(scopes) > 0
<1> PICK m, n : m = Len(frames) /\ n = Len(scopes)
  OBVIOUS
<1>1. /\ phase = "lower" /\ phase' = phase /\ nextScope' = nextScope /\ fresh' = fresh \ {x}
      /\ UNCHANGED <<targets, gotos, indirect>>
  BY DEF Decl
<1>2. Nested(depth) /\ Sees(home, depth)
  BY <1>1 DEF Scoped
<1>3. /\ IsSeq(scopes) /\ n \in Nat
      /\ \A i \in 1 .. n : ScopeOK(home, scopes[i])
  BY ScopesSeen
<1>4. /\ IsSeq(frames) /\ m \in Nat /\ m > 0 /\ m \in 1 .. m /\ frames[m] \in Frames
  <2>1. frames \in Seq(Frames) /\ IsSeq(frames) /\ m > 0
    BY DEF Good, FramesOK, IsSeq
  <2> QED BY <2>1
<1>5. n > 0 /\ n \in 1 .. n /\ depth[m] = n
  <2>1. depth[m] \in 1 .. Len(scopes)
    BY <1>2, <1>4, DepthRange
  <2> QED BY <1>2, <1>3, <2>1 DEF Nested
<1> PICK f, e : f = frames[m] /\ e = scopes[n]
  OBVIOUS
<1>6. Last(frames) = f /\ Last(scopes) = e
  BY <1>3, <1>4, <1>5, FrontIsSeq
<1>7. ScopeOK(home, e) /\ Names(Storable(home), f, e) /\ f \in Frames
  BY <1>2, <1>3, <1>4, <1>5 DEF Sees
<1> DEFINE f2 == [f EXCEPT !.todo = @ \ {x}, !.seen = @ \cup {x}]
           e2 == [e EXCEPT !.vlas = @ \cup {x}]
<1>8. /\ f2.kind = f.kind /\ f2.todo = f.todo \ {x} /\ f2.seen = f.seen \cup {x}
      /\ f2.entry = f.entry
  BY <1>7 DEF Frames
<1>9. e2 \in Scopes /\ e2.id = e.id /\ e2.locals = e.locals /\ e2.vlas = e.vlas \cup {x}
  BY <1>7 DEF ScopeOK, Scopes
<1>10. frames' = SetLast(frames, f2) /\ scopes' = IF x \in Vlas THEN SetLast(scopes, e2) ELSE scopes
  BY <1>6 DEF Decl, RecordVla
<1> HIDE DEF f2, e2
<1>11. /\ Len(frames') = m /\ frames'[m] = f2
       /\ \A i \in 1 .. m - 1 : frames'[i] = frames[i]
  BY <1>4, <1>10, SetLastIsSeq
<1> PICK d : d = scopes'[n]
  OBVIOUS
<1>12. /\ Len(scopes') = n /\ \A k \in 1 .. n - 1 : scopes'[k] = scopes[k]
       /\ d \in Scopes /\ d.id = e.id /\ d.locals = e.locals /\ d.vlas = e.vlas \cup ({x} \cap Vlas)
  <2>1. CASE x \in Vlas
    <3>1. /\ Len(SetLast(scopes, e2)) = n /\ SetLast(scopes, e2)[n] = e2
          /\ \A k \in 1 .. n - 1 : SetLast(scopes, e2)[k] = scopes[k]
      BY <1>3, <1>5, SetLastIsSeq
    <3>2. scopes' = SetLast(scopes, e2)
      BY <1>10, <2>1
    <3>3. {x} \cap Vlas = {x}
      BY <2>1
    <3> QED BY <1>9, <3>1, <3>2, <3>3
  <2>2. CASE x \notin Vlas
    <3>1. scopes' = scopes /\ {x} \cap Vlas = {}
      BY <1>10, <2>2
    <3> QED BY <1>7, <3>1 DEF ScopeOK
  <2> QED BY <2>1, <2>2
<1>13. Storable(home)' \subseteq Storable(home)
  BY <1>1 DEF Storable
<1>14. \/ x \in f.todo /\ f.kind = "block"
       \/ x \in fresh /\ f.kind = "expr"
  <2>1. \/ Last(frames).kind = "block" /\ x \in Last(frames).todo
        \/ Last(frames).kind = "expr" /\ x \in fresh
    BY DEF Decl
  <2> QED BY ONLY <1>6, <2>1
<1>15. x \in Storable(home)' => x \in e.locals
  <2>1. CASE f.kind = "block"
    BY <1>7, <1>14, <2>1 DEF Names
  <2>2. CASE x \in fresh
    <3>1. \A k \in Nat : x \notin home[k]
      BY <2>2 DEF Homes
    <3>2. x \notin Storable(home)'
      BY <1>1, <3>1 DEF Storable, Homed
    <3> QED BY <3>2
  <2> QED BY <1>14, <2>1, <2>2
<1>16. \A k \in 1 .. n : k \in 1 .. n - 1 \/ k = n
  BY <1>3
<1>17. \A k \in 1 .. n : scopes'[k].locals = scopes[k].locals /\ scopes[k].vlas \subseteq scopes'[k].vlas
  BY <1>12, <1>16
<1>18. ScopeOK(home, d)
  <2>1. NoExpr => x \in e.locals
    BY <1>7, <1>14 DEF Names
  <2> QED BY <1>7, <1>12, <2>1 DEF ScopeOK
<1>19. \A k \in 1 .. Len(scopes') : ScopeOK(home, scopes'[k])
  <2>1. \A k \in 1 .. n : ScopeOK(home, scopes[k])
    BY <1>3, <1>13 DEF ScopeOK
  <2>2. \A k \in 1 .. n - 1 : ScopeOK(home, scopes'[k])
    BY <1>12, <1>16, <2>1
  <2> QED BY <1>12, <1>16, <1>18, <2>2
<1>20. Snapshots' \subseteq Snapshots \cup {scopes'}
  BY <1>1 DEF Snapshots
<1>21. Homes(home)'
  BY <1>1, <1>19, <1>20, HomesKept
<1>22. \A i \in 1 .. m : (i \in 1 .. m - 1 \/ i = m) /\ frames'[i].kind = frames[i].kind
  BY <1>4, <1>8, <1>11
<1>23. \A i \in 1 .. m : frames'[i].kind = frames[i].kind /\ Deepens(frames'[i]) = Deepens(frames[i])
  BY <1>22 DEF Deepens
<1>24. Nested(depth)'
  BY <1>2, <1>11, <1>12, <1>23, NestedKept
<1>25. Names(Storable(home)', f2, d)
  <2>1. (f.seen \cup {x}) \cap Vlas \subseteq d.vlas
    BY <1>7, <1>12 DEF Names
  <2>2. f.kind = "block" => (f.todo \ {x}) \cup (f.seen \cup {x}) \subseteq d.locals
    BY <1>7, <1>12, <1>14 DEF Names
  <2>3. f.kind = "expr" => (f.seen \cup {x}) \cap Storable(home)' = {}
    <3> SUFFICES ASSUME f.kind = "expr" PROVE (f.seen \cup {x}) \cap Storable(home)' = {}
      OBVIOUS
    <3>1. f.seen \cap Storable(home)' = {}
      BY <1>7, <1>13 DEF Names
    <3>2. \A k \in Nat : x \notin home[k]
      BY <1>14 DEF Homes
    <3>3. x \notin Storable(home)'
      BY <1>1, <3>2 DEF Storable, Homed
    <3> QED BY <3>1, <3>3
  <2>4. NoExpr => /\ f.kind # "expr"
                  /\ f.kind = "block" => d.vlas = (f.seen \cup {x}) \cap Vlas
    BY <1>7, <1>12 DEF Names
  <2>5. f.kind \notin {"then", "else"}
    BY <1>14
  <2> QED BY <1>8, <2>1, <2>2, <2>3, <2>4, <2>5 DEF Names
<1>26. ASSUME NEW i \in 1 .. m - 1 PROVE Names(Storable(home)', frames'[i], scopes'[depth[i]])
  <2> PICK g, k : g = frames[i] /\ k = depth[i]
    OBVIOUS
  <2>1. i \in 1 .. m /\ i <= m - 1 /\ m - 1 \in 1 .. m
    BY <1>4
  <2>2. k \in 1 .. n
    BY <1>2, <2>1, DepthRange
  <2>3. Names(Storable(home), g, scopes[k])
    BY <1>2, <2>1 DEF Sees
  <2>4. Names(Storable(home)', g, scopes[k])
    BY <1>13, <2>3, NamesKept
  <2>5. CASE k # n
    <3>1. scopes'[k] = scopes[k]
      BY <1>12, <1>16, <2>2, <2>5
    <3> QED BY <1>11, <2>4, <3>1
  <2>6. CASE k = n
    <3>1. NoExpr => f.kind = "block"
      BY <1>7, <1>14 DEF Names
    <3>2. ~NoExpr
      <4> SUFFICES ASSUME f.kind = "block" PROVE FALSE
        BY <3>1
      <4>1. depth[m] = depth[m - 1] + Deepens(frames[m])
        BY <1>2, <1>4 DEF Nested
      <4>2. depth[i] <= depth[m - 1]
        BY <1>2, <2>1 DEF Nested
      <4>3. depth[m - 1] \in Nat
        <5>1. m - 1 \in Nat /\ IsDepth(depth)
          BY <1>2, <1>4 DEF Nested
        <5> QED BY <5>1, DepthNat
      <4>4. Deepens(frames[m]) = 1
        BY DEF Deepens
      <4> QED BY <1>3, <1>5, <2>6, <4>1, <4>2, <4>3, <4>4
    <3>3. scopes'[k].locals = scopes[k].locals /\ scopes[k].vlas \subseteq scopes'[k].vlas
      BY <1>17, <2>2
    <3>4. Names(Storable(home)', g, scopes'[k])
      BY <2>4, <3>2, <3>3 DEF Names
    <3> QED BY <1>11, <3>4
  <2> QED BY <2>5, <2>6
<1>27. Sees(home, depth)'
  <2>1. \A i \in 1 .. m : Names(Storable(home)', frames'[i], scopes'[depth[i]])
    BY <1>5, <1>11, <1>22, <1>25, <1>26
  <2> QED BY <1>11, <2>1 DEF Sees
<1> QED BY <1>5, <1>12, <1>13, <1>15, <1>17, <1>21, <1>24, <1>27 DEF Scoped

(* A statement that is no block is in the scopes around it.                *)
LEMMA PushFrame ==
  ASSUME Good, SnapInv, NEW home, Homes(home), NEW depth, Nested(depth), Sees(home, depth),
         NEW m, m = Len(frames), NEW f, f.kind # "block",
         frames' = Append(frames, f), scopes' = scopes, fresh' = fresh,
         Names(Storable(home), f, scopes[Len(scopes)]),
         NEW depth2, IsDepth(depth2), Differs(depth2, depth, m + 1, depth[m])
  PROVE  Scoped(home, depth2)'
<1>1. /\ IsSeq(frames) /\ IsSeq(scopes) /\ m \in Nat /\ Len(scopes) \in Nat
  BY SeqLen DEF Good, FramesOK, IsSeq, SnapInv, Shaped, Snapshots
<1>2. /\ Len(frames') = m + 1 /\ frames'[m + 1] = f
      /\ \A k \in 1 .. m : frames'[k] = frames[k]
  BY <1>1, AppendIsSeq
<1>3. /\ depth2[m + 1] = Len(scopes) /\ depth[m] = Len(scopes)
      /\ \A i \in 0 .. m : depth2[i] = depth[i]
  <2>1. depth[m] = Len(scopes)
    BY DEF Nested
  <2>2. \A i \in 0 .. m : i \in Nat /\ i # m + 1
    BY <1>1
  <2> QED BY <2>1, <2>2 DEF Differs
<1>4. \A i \in 1 .. m : depth[i] \in 1 .. Len(scopes) /\ depth[i] \in Nat
  <2>1. \A i \in 1 .. m : depth[i] \in 1 .. Len(scopes)
    BY DepthRange
  <2> QED BY <1>1, <2>1
<1>5. Nested(depth2)'
  <2>1. depth2[0] = 0
    BY <1>1, <1>3 DEF Nested
  <2>2. ASSUME NEW i \in 1 .. m + 1 PROVE depth2[i] = depth2[i - 1] + Deepens(frames'[i])
    <3>1. CASE i = m + 1
      <4>1. depth2[i - 1] = Len(scopes) /\ Deepens(f) = 0
        BY <1>1, <1>3, <3>1 DEF Deepens
      <4> QED BY <1>1, <1>2, <1>3, <3>1, <4>1
    <3>2. CASE i \in 1 .. m
      <4>1. i \in 0 .. m /\ i - 1 \in 0 .. m
        BY <1>1, <3>2
      <4>2. depth[i] = depth[i - 1] + Deepens(frames[i])
        BY <3>2 DEF Nested
      <4> QED BY <1>2, <1>3, <3>2, <4>1, <4>2
    <3> QED BY <1>1, <3>1, <3>2
  <2>3. ASSUME NEW i \in 1 .. m + 1, NEW j \in 1 .. m + 1, i <= j PROVE depth2[i] <= depth2[j]
    <3>1. CASE j = m + 1
      BY <1>1, <1>3, <1>4, <2>3, <3>1
    <3>2. CASE j \in 1 .. m
      <4>1. i \in 1 .. m /\ i \in 0 .. m /\ j \in 0 .. m
        BY <1>1, <2>3, <3>2
      <4>2. depth[i] <= depth[j]
        BY <2>3, <3>2, <4>1 DEF Nested
      <4> QED BY <1>3, <4>1, <4>2
    <3> QED BY <1>1, <3>1, <3>2
  <2>4. ASSUME NEW k \in 1 .. Len(scopes)
        PROVE  \E i \in 1 .. m + 1 : frames'[i].kind = "block" /\ depth2[i] = k
    <3>1. PICK i \in 1 .. m : frames[i].kind = "block" /\ depth[i] = k
      BY DEF Nested
    <3> QED BY <1>1, <1>2, <1>3, <3>1
  <2> QED BY <1>2, <1>3, <2>1, <2>2, <2>3, <2>4 DEF Nested
<1>6. Storable(home)' = Storable(home)
  BY DEF Storable
<1>7. ASSUME NEW i \in 1 .. m + 1
      PROVE  Names(Storable(home), frames'[i], scopes[depth2[i]])
  <2>1. CASE i = m + 1
    BY <1>2, <1>3, <2>1
  <2>2. CASE i \in 1 .. m
    <3>1. frames'[i] = frames[i] /\ depth2[i] = depth[i]
      BY <1>1, <1>2, <1>3, <2>2
    <3> QED BY <2>2, <3>1 DEF Sees
  <2> QED BY <1>1, <2>1, <2>2
<1>8. Sees(home, depth2)'
  BY <1>2, <1>6, <1>7 DEF Sees
<1> QED BY <1>5, <1>8 DEF Scoped

LEMMA OtherFresh ==
  ASSUME Lower,
         ~(\E ds \in SUBSET fresh : EnterBlock(ds)), ~ExitBlock, ~(\E x \in Locals : Decl(x))
  PROVE  fresh' = fresh
BY DEF Lower, Use, EnterExpr, ExitExpr, BindLabel, Goto, IndirectGoto, Return, Call, EnterThen,
       EnterElse, ExitIf, Finish

(* Changes depth at one place.                                             *)
LEMMA DepthSet ==
  ASSUME NEW depth, IsDepth(depth), NEW m \in Nat, NEW k \in Nat
  PROVE  \E d : IsDepth(d) /\ Differs(d, depth, m + 1, k)
<1> DEFINE d == [depth EXCEPT ![m + 1] = k]
<1>1. m + 1 \in Nat
  OBVIOUS
<1>2. IsDepth(d)
  BY <1>1 DEF IsDepth
<1>3. Differs(d, depth, m + 1, k)
  BY <1>1 DEF Differs, IsDepth
<1> HIDE DEF d
<1> QED BY <1>2, <1>3

LEMMA OtherScoped ==
  ASSUME Good, SnapInv, Lower,
         ~(\E ds \in SUBSET fresh : EnterBlock(ds)), ~ExitBlock, ~(\E x \in Locals : Decl(x)),
         NEW home, Homes(home), NEW depth, Scoped(home, depth)
  PROVE  /\ Homes(home)' /\ Storable(home)' = Storable(home)
         /\ \E d : Scoped(home, d)' /\ IsDepth(d)
                  /\ \A i \in 1 .. Len(frames) : d[i] = depth[i]
<1>1. /\ phase = "lower" /\ nextScope' = nextScope /\ scopes' = scopes /\ fresh' = fresh
      /\ Snapshots' \subseteq Snapshots
  BY OtherLowerSnapshots, OtherFresh
<1>2. Homes(home)' /\ Storable(home)' = Storable(home)
  BY <1>1, HomesSame
<1>3. Nested(depth) /\ Sees(home, depth) /\ IsDepth(depth)
  BY <1>1 DEF Scoped, Nested
<1> PICK m : m = Len(frames)
  OBVIOUS
<1>4. IsSeq(frames) /\ IsSeq(scopes) /\ m \in Nat /\ m > 0 /\ Len(scopes) \in Nat
  BY SeqLen DEF Good, FramesOK, IsSeq, SnapInv, Shaped, Snapshots
<1>5. ASSUME NEW f, f.kind # "block", frames' = Append(frames, f),
             Names(Storable(home), f, scopes[Len(scopes)])
      PROVE  \E d : Scoped(home, d)' /\ IsDepth(d) /\ \A i \in 1 .. m : d[i] = depth[i]
  <2>1. depth[m] \in Nat
    BY <1>3, <1>4 DEF IsDepth
  <2>2. PICK d : IsDepth(d) /\ Differs(d, depth, m + 1, depth[m])
    BY <1>3, <1>4, <2>1, DepthSet
  <2>3. Scoped(home, d)'
    BY <1>1, <1>3, <1>5, <2>2, PushFrame
  <2>4. \A i \in 1 .. m : i \in Nat /\ i # m + 1
    BY <1>4
  <2>5. \A i \in 1 .. m : d[i] = depth[i]
    BY <2>2, <2>4 DEF Differs
  <2> QED BY <2>2, <2>3, <2>5
<1>6. ASSUME frames' = frames PROVE Scoped(home, depth)'
  BY <1>1, <1>2, <1>3, <1>6 DEF Scoped, Nested, Sees
<1>7. CASE EnterExpr
  <2>1. frames' = Append(frames, Frame("expr", {})) /\ ~NoExpr
    BY <1>7 DEF EnterExpr, Choose, NoExpr
  <2>2. Frame("expr", {}).kind = "expr" /\ Frame("expr", {}).seen = {}
    BY DEF Frame
  <2>3. Names(Storable(home), Frame("expr", {}), scopes[Len(scopes)])
    BY <2>1, <2>2 DEF Names
  <2> QED BY <1>2, <1>5, <2>1, <2>2, <2>3
<1>8. ASSUME NEW c \in Conditions, EnterThen(c)
      PROVE  \E d : Scoped(home, d)' /\ IsDepth(d) /\ \A i \in 1 .. m : d[i] = depth[i]
  <2> DEFINE f == [Frame("then", {}) EXCEPT !.entry = NumBlocks, !.cond = c, !.thenStart = NumBlocks + 1]
  <2>1. frames' = Append(frames, f) /\ f.kind = "then" /\ f.seen = {}
    BY <1>8 DEF EnterThen, Frame
  <2> HIDE DEF f
  <2>2. Names(Storable(home), f, scopes[Len(scopes)])
    BY <2>1 DEF Names
  <2> QED BY <1>5, <2>1, <2>2
<1>9. CASE ExitExpr \/ ExitIf
  <2>1. frames' = Front(frames) /\ Last(frames).kind # "block"
    BY <1>9 DEF ExitExpr, ExitIf
  <2>2. /\ Nested(depth)'
        /\ \A i \in 1 .. Len(frames') : i \in 1 .. Len(frames) /\ frames'[i] = frames[i]
    BY <1>1, <1>3, <1>4, <2>1, NestedFront
  <2>3. Sees(home, depth)'
    BY <1>1, <1>2, <1>3, <2>2 DEF Sees
  <2> QED BY <1>2, <1>3, <2>2, <2>3 DEF Scoped
<1>10. CASE EnterElse
  <2> DEFINE f == [Last(frames) EXCEPT !.kind = "else", !.thenExit = NumBlocks]
  <2>1. frames' = SetLast(frames, f) /\ Last(frames).kind = "then"
    BY <1>10 DEF EnterElse
  <2>2. frames \in Seq(Frames) /\ m \in 1 .. m /\ frames[m] \in Frames
    BY <1>4 DEF Good, FramesOK
  <2>3. /\ Len(frames') = m /\ frames'[m] = f /\ Last(frames) = frames[m]
        /\ \A i \in 1 .. m - 1 : frames'[i] = frames[i]
    BY <1>4, <2>1, SetLastIsSeq
  <2>4. f.kind = "else" /\ f.seen = frames[m].seen
    BY <2>2, <2>3 DEF Frames
  <2> HIDE DEF f
  <2>5. \A i \in 1 .. m : i \in 1 .. m - 1 \/ i = m
    BY <1>4
  <2>6. \A i \in 1 .. m : Deepens(frames'[i]) = Deepens(frames[i])
    BY <2>1, <2>3, <2>4, <2>5 DEF Deepens
  <2>7. \A i \in 1 .. m : frames'[i].kind = "block" <=> frames[i].kind = "block"
    BY <2>1, <2>3, <2>4, <2>5
  <2>8. Nested(depth)'
    BY <1>1, <1>3, <2>3, <2>6, <2>7 DEF Nested
  <2>9. Names(Storable(home), f, scopes[depth[m]])
    <3>1. Names(Storable(home), frames[m], scopes[depth[m]])
      BY <1>3, <2>2 DEF Sees
    <3> QED BY <2>1, <2>3, <2>4, <3>1 DEF Names
  <2>10. Sees(home, depth)'
    BY <1>1, <1>2, <1>3, <2>3, <2>5, <2>9 DEF Sees
  <2> QED BY <1>2, <1>3, <2>8, <2>10 DEF Scoped
<1>11. CASE Finish
  BY <1>2, <1>3, <1>11 DEF Finish, Scoped
<1> QED BY <1>2, <1>3, <1>6, <1>7, <1>8, <1>9, <1>10, <1>11
        DEF Lower, Use, BindLabel, Goto, IndirectGoto, Return, Call

LEMMA PatchHomes ==
  ASSUME Good, Patch, NEW home, Homes(home), NEW depth
  PROVE  Homes(home)' /\ Storable(home)' = Storable(home) /\ Scoped(home, depth)'
<1>1. phase' # "lower" /\ nextScope' = nextScope /\ Snapshots' \subseteq Snapshots
  BY PatchSnapshots
<1>2. fresh' = fresh
  BY DEF Patch, PatchGoto, PatchIndirectLabel, PatchIndirect, Complete, Fail
<1> QED BY <1>1, <1>2, HomesSame DEF Scoped

-----------------------------------------------------------------------------
(***************************************************************************)
(* What is live and what is declared at every statement of every block, if *)
(* an execution gets there.  trace[b][i] is in front of statement i of     *)
(* block b; vlas are the VLAs whose declaration it has certainly passed.   *)
(***************************************************************************)
Points == [live : SUBSET Locals, vlas : SUBSET Locals]
IsTrace(trace) == trace \in [Nat -> [Nat -> Points]]

(* Declarations inside of a statement expression are seen by what follows  *)
(* it, on the paths around it too: VLAs are traced without these only.     *)
PointAt(s, k) ==
  [live |-> { x \in Locals : \E i \in 1 .. k : x \in s[i].locals },
   vlas |-> { x \in Locals : NoExpr /\ \E i \in 1 .. k : x \in s[i].vlas }]
PointOf(s) == PointAt(s, Len(s))
AtStart == [live |-> {}, vlas |-> {}]

(* What statement s requires of point p, and point q after it.             *)
Step(home, K, p, s, q) ==
  \/ /\ s.op = "live" /\ s.on \subseteq Homed(home) /\ s.on \cap p.live = {}
     /\ q.live = p.live \cup s.on /\ q.vlas \subseteq p.vlas \ s.on
  \/ /\ s.op = "dead" /\ s.on \subseteq p.live
     /\ q.live = p.live \ s.on /\ q.vlas \subseteq p.vlas \ s.on
  \/ /\ s.op = "decl" /\ s.on \cap K \subseteq p.live
     /\ q.live = p.live /\ q.vlas \subseteq p.vlas \cup s.on
  \/ /\ s.op = "use" /\ s.on \cap K \subseteq p.live /\ (NoExpr => s.on \cap Vlas \subseteq p.vlas)
     /\ q.live = p.live /\ q.vlas \subseteq p.vlas

Runs(home, K, row, ss) == \A i \in 1 .. Len(ss) : Step(home, K, row[i], ss[i], row[i + 1])

(* A jump from p to q.                                                     *)
Edge(p, q) == q.live = p.live /\ q.vlas \subseteq p.vlas

EndOf(trace, cs, b) == trace[b][Len(cs[b + 1]) + 1]

Traced(trace, home, K, cs) ==
  /\ IsTrace(trace) /\ trace[0][1] = AtStart /\ IsSeq(cs)
  /\ \A b \in 0 .. Len(cs) - 1 : IsSeq(cs[b + 1]) /\ Runs(home, K, trace[b], cs[b + 1])

Joins(trace, cs, ts) ==
  \A b \in 0 .. Len(cs) - 1 : \A t \in ts[b + 1].to :
    t = Unpatched \/ Edge(EndOf(trace, cs, b), trace[t][1])

(* Labels, gotos and indirect gotos, at the scopes they noted.             *)
LabelsMeet(trace, tg) ==
  \A l \in Labels : tg[l] # Unbound => trace[tg[l].block][1] = PointOf(tg[l].scopes)
GotosMeet(trace, cs, gs) ==
  \A i \in 1 .. Len(gs) : EndOf(trace, cs, gs[i].block) = PointOf(gs[i].scopes)
IndirectMeet(trace, cs, is) ==
  \A i \in 1 .. Len(is) :
    /\ EndOf(trace, cs, is[i].block) = PointOf(is[i].scopes)
    /\ \A t \in is[i].to : Edge(EndOf(trace, cs, is[i].block), trace[t][1])

(* Both ends of the sides of an If, p being the point in front of it.      *)
IfMeets(trace, cs, f, p) ==
  /\ f.kind \in {"then", "else"} => /\ EndOf(trace, cs, f.entry) = p
                                    /\ trace[f.thenStart][1] = p
  /\ f.kind = "else" => /\ EndOf(trace, cs, f.thenExit) = p
                        /\ trace[f.thenExit + 1][1] = p

LEMMA RowOf ==
  ASSUME NEW trace, IsTrace(trace), NEW b \in Nat, NEW i \in Nat PROVE trace[b][i] \in Points
<1>1. trace[b] \in [Nat -> Points]
  BY DEF IsTrace
<1> QED BY <1>1

(* trace2 goes on from trace: the first n blocks are as before, and so is  *)
(* the start of all there are jumps to.                                    *)
Prolongs(trace2, trace, n, top) ==
  /\ IsTrace(trace2) /\ \A b \in 0 .. n - 1 : trace2[b] = trace[b]
  /\ trace2[0][1] = trace[0][1] /\ \A t \in 1 .. top : trace2[t][1] = trace[t][1]

LEMMA StepKept ==
  ASSUME NEW home, NEW home2, NEW K, NEW K2, Homed(home) \subseteq Homed(home2), K2 \subseteq K,
         NEW p, NEW s, NEW q, Step(home, K, p, s, q)
  PROVE  Step(home2, K2, p, s, q)
BY DEF Step

LEMMA RunsKept ==
  ASSUME NEW home, NEW home2, NEW K, NEW K2, Homed(home) \subseteq Homed(home2), K2 \subseteq K,
         NEW row, NEW row2, NEW ss, IsSeq(ss), Runs(home, K, row, ss),
         \A i \in 1 .. Len(ss) + 1 : row2[i] = row[i]
  PROVE  Runs(home2, K2, row2, ss)
<1> SUFFICES ASSUME NEW i \in 1 .. Len(ss) PROVE Step(home2, K2, row2[i], ss[i], row2[i + 1])
  BY DEF Runs
<1>1. Len(ss) \in Nat
  BY SeqLen
<1>2. row2[i] = row[i] /\ row2[i + 1] = row[i + 1]
  BY <1>1
<1>3. Step(home, K, row[i], ss[i], row[i + 1])
  BY DEF Runs
<1> QED BY <1>2, <1>3, StepKept

LEMMA ProlongedTrace ==
  ASSUME NEW cs, NEW n \in Nat, n = Len(cs), NEW home, NEW K, NEW trace, Traced(trace, home, K, cs),
         NEW home2, NEW K2, Homed(home) \subseteq Homed(home2), K2 \subseteq K,
         NEW top, NEW trace2, Prolongs(trace2, trace, n, top)
  PROVE  Traced(trace2, home2, K2, cs)
<1>1. trace2[0][1] = AtStart /\ IsSeq(cs)
  BY DEF Traced, Prolongs
<1>2. ASSUME NEW b \in 0 .. n - 1
      PROVE  IsSeq(cs[b + 1]) /\ Runs(home2, K2, trace2[b], cs[b + 1])
  <2>1. IsSeq(cs[b + 1]) /\ Runs(home, K, trace[b], cs[b + 1]) /\ trace2[b] = trace[b]
    BY DEF Traced, Prolongs
  <2> QED BY <2>1, RunsKept
<1> QED BY <1>1, <1>2 DEF Traced, Prolongs

LEMMA ProlongedEnds ==
  ASSUME NEW n, NEW cs, NEW trace, NEW top, NEW trace2, Prolongs(trace2, trace, n, top)
  PROVE  \A b \in 0 .. n - 1 : EndOf(trace2, cs, b) = EndOf(trace, cs, b)
BY DEF EndOf, Prolongs

LEMMA ProlongedJoins ==
  ASSUME NEW cs, NEW n, n = Len(cs), NEW ts, NEW trace, Joins(trace, cs, ts),
         NEW top, NEW trace2, Prolongs(trace2, trace, n, top), n \in Nat,
         \A b \in 1 .. n : ts[b].to \subseteq {Unpatched} \cup 1 .. top
  PROVE  Joins(trace2, cs, ts)
<1> SUFFICES ASSUME NEW b \in 0 .. n - 1, NEW t \in ts[b + 1].to, t # Unpatched
             PROVE  Edge(EndOf(trace2, cs, b), trace2[t][1])
  BY DEF Joins
<1>1. b + 1 \in 1 .. n
  OBVIOUS
<1>2. trace2[t][1] = trace[t][1]
  BY <1>1 DEF Prolongs
<1>3. EndOf(trace2, cs, b) = EndOf(trace, cs, b)
  BY ProlongedEnds
<1> QED BY <1>2, <1>3 DEF Joins

LEMMA ProlongedLabels ==
  ASSUME NEW n, NEW top, NEW trace, NEW trace2, Prolongs(trace2, trace, n, top),
         NEW tg, \A l \in Labels : tg[l] # Unbound => tg[l].block \in 1 .. top,
         LabelsMeet(trace, tg)
  PROVE  LabelsMeet(trace2, tg)
BY DEF LabelsMeet, Prolongs

LEMMA ProlongedGotos ==
  ASSUME NEW cs, NEW n, NEW top, NEW trace, NEW trace2, Prolongs(trace2, trace, n, top),
         NEW gs, \A i \in 1 .. Len(gs) : gs[i].block \in 0 .. n - 1, GotosMeet(trace, cs, gs)
  PROVE  GotosMeet(trace2, cs, gs)
<1>1. \A b \in 0 .. n - 1 : EndOf(trace2, cs, b) = EndOf(trace, cs, b)
  BY ProlongedEnds
<1> QED BY <1>1 DEF GotosMeet

LEMMA ProlongedIndirect ==
  ASSUME NEW cs, NEW n, NEW top, NEW trace, NEW trace2, Prolongs(trace2, trace, n, top),
         NEW is, \A i \in 1 .. Len(is) : is[i].block \in 0 .. n - 1 /\ is[i].to \subseteq 1 .. top,
         IndirectMeet(trace, cs, is)
  PROVE  IndirectMeet(trace2, cs, is)
<1>1. \A b \in 0 .. n - 1 : EndOf(trace2, cs, b) = EndOf(trace, cs, b)
  BY ProlongedEnds
<1>2. \A t \in 1 .. top : trace2[t][1] = trace[t][1]
  BY DEF Prolongs
<1> SUFFICES ASSUME NEW i \in 1 .. Len(is)
             PROVE  /\ EndOf(trace2, cs, is[i].block) = PointOf(is[i].scopes)
                    /\ \A t \in is[i].to : Edge(EndOf(trace2, cs, is[i].block), trace2[t][1])
  BY DEF IndirectMeet
<1>3. is[i].block \in 0 .. n - 1 /\ is[i].to \subseteq 1 .. top
  OBVIOUS
<1>4. /\ EndOf(trace, cs, is[i].block) = PointOf(is[i].scopes)
      /\ \A t \in is[i].to : Edge(EndOf(trace, cs, is[i].block), trace[t][1])
  BY DEF IndirectMeet
<1> QED BY <1>1, <1>2, <1>3, <1>4

LEMMA ProlongedIf ==
  ASSUME NEW cs, NEW n \in Nat, NEW trace, NEW trace2, Prolongs(trace2, trace, n, n),
         NEW f, FrameOK(f, n), NEW p, IfMeets(trace, cs, f, p)
  PROVE  IfMeets(trace2, cs, f, p)
<1>1. \A b \in 0 .. n - 1 : EndOf(trace2, cs, b) = EndOf(trace, cs, b)
  BY ProlongedEnds
<1>2. \A t \in 1 .. n : trace2[t][1] = trace[t][1]
  BY DEF Prolongs
<1>3. \A b \in 0 .. n - 1 : b + 1 \in 1 .. n
  OBVIOUS
<1>4. CASE f.kind = "then"
  <2>1. f.entry \in 0 .. n - 1 /\ f.thenStart \in 1 .. n
    BY <1>4 DEF FrameOK
  <2> QED BY <1>1, <1>2, <1>4, <2>1 DEF IfMeets
<1>5. CASE f.kind = "else"
  <2>1. f.entry \in 0 .. n - 1 /\ f.thenStart \in 1 .. n /\ f.thenExit \in 0 .. n - 1
    BY <1>5 DEF FrameOK
  <2> QED BY <1>1, <1>2, <1>3, <1>5, <2>1 DEF IfMeets
<1>6. CASE f.kind \notin {"then", "else"}
  BY <1>6 DEF IfMeets
<1> QED BY <1>4, <1>5, <1>6

-----------------------------------------------------------------------------
(* One more point, at the end of a block being built or at the start of    *)
(* the next.                                                               *)
Puts(trace2, trace, b, i, q) ==
  /\ IsTrace(trace2) /\ trace2[b][i] = q
  /\ \A c \in Nat : c # b => trace2[c] = trace[c]
  /\ \A j \in Nat : j # i => trace2[b][j] = trace[b][j]

LEMMA TracePut ==
  ASSUME NEW trace, IsTrace(trace), NEW b \in Nat, NEW i \in Nat, NEW q \in Points
  PROVE  \E trace2 : Puts(trace2, trace, b, i, q)
<1> DEFINE row == [trace[b] EXCEPT ![i] = q]
           trace2 == [trace EXCEPT ![b] = row]
<1>1. trace[b] \in [Nat -> Points]
  BY DEF IsTrace
<1>2. row \in [Nat -> Points] /\ row[i] = q /\ \A j \in Nat : j # i => row[j] = trace[b][j]
  BY <1>1
<1> HIDE DEF row
<1>3. /\ trace2 \in [Nat -> [Nat -> Points]] /\ trace2[b] = row
      /\ \A c \in Nat : c # b => trace2[c] = trace[c]
  BY <1>2 DEF IsTrace
<1> HIDE DEF trace2
<1>4. Puts(trace2, trace, b, i, q)
  BY <1>2, <1>3 DEF Puts, IsTrace
<1> QED BY <1>4

LEMMA PutAhead ==
  ASSUME NEW n \in Nat, NEW trace, NEW trace2, NEW q, NEW b \in Nat, NEW i \in Nat,
         Puts(trace2, trace, b, i, q), b > n \/ (b = n /\ i # 1)
  PROVE  Prolongs(trace2, trace, n, n)
<1>1. \A c \in 0 .. n - 1 : c \in Nat /\ c # b
  OBVIOUS
<1>2. \A c \in Nat : c <= n => trace2[c][1] = trace[c][1]
  BY DEF Puts
<1>3. 0 \in Nat /\ 0 <= n /\ \A t \in 1 .. n : t \in Nat /\ t <= n
  OBVIOUS
<1> QED BY <1>1, <1>2, <1>3 DEF Prolongs, Puts

LEMMA RunsOn ==
  ASSUME NEW home, NEW K, NEW row, NEW ss, IsSeq(ss), Runs(home, K, row, ss), NEW n, n = Len(ss),
         NEW s, Step(home, K, row[n + 1], s, row[n + 2])
  PROVE  IsSeq(Append(ss, s)) /\ Len(Append(ss, s)) = n + 1 /\ Runs(home, K, row, Append(ss, s))
<1>1. /\ n \in Nat /\ IsSeq(Append(ss, s)) /\ Len(Append(ss, s)) = n + 1 /\ Append(ss, s)[n + 1] = s
      /\ \A i \in 1 .. n : Append(ss, s)[i] = ss[i]
  BY AppendIsSeq, SeqLen
<1>2. ASSUME NEW i \in 1 .. n + 1 PROVE Step(home, K, row[i], Append(ss, s)[i], row[i + 1])
  <2>1. CASE i = n + 1
    <3>1. (n + 1) + 1 = n + 2
      BY <1>1
    <3> QED BY <1>1, <2>1, <3>1
  <2>2. CASE i \in 1 .. n
    BY <1>1, <2>2 DEF Runs
  <2> QED BY <1>1, <2>1, <2>2
<1> QED BY <1>1, <1>2 DEF Runs

-----------------------------------------------------------------------------
(* Closing the block being built.                                          *)
LEMMA ClosedBlocks ==
  ASSUME NEW cs, IsSeq(cs), NEW n, n = Len(cs), NEW ss
  PROVE  /\ IsSeq(Append(cs, ss)) /\ Len(Append(cs, ss)) = n + 1 /\ n \in Nat
         /\ \A b \in 0 .. n - 1 : Append(cs, ss)[b + 1] = cs[b + 1]
         /\ Append(cs, ss)[n + 1] = ss
<1>1. /\ n \in Nat /\ IsSeq(Append(cs, ss)) /\ Len(Append(cs, ss)) = n + 1 /\ Append(cs, ss)[n + 1] = ss
      /\ \A i \in 1 .. n : Append(cs, ss)[i] = cs[i]
  BY AppendIsSeq, SeqLen
<1>2. \A b \in 0 .. n - 1 : b + 1 \in 1 .. n
  BY <1>1
<1> QED BY <1>1, <1>2

ClosedSame(trace, cs, ss) ==
  \A b \in 0 .. Len(cs) - 1 : EndOf(trace, Append(cs, ss), b) = EndOf(trace, cs, b)

LEMMA ClosedEnds ==
  ASSUME NEW cs, IsSeq(cs), NEW ss, NEW trace
  PROVE  /\ ClosedSame(trace, cs, ss)
         /\ EndOf(trace, Append(cs, ss), Len(cs)) = trace[Len(cs)][Len(ss) + 1]
BY ClosedBlocks DEF EndOf, ClosedSame

LEMMA ClosedTrace ==
  ASSUME NEW cs, NEW n, n = Len(cs), NEW home, NEW K, NEW trace, Traced(trace, home, K, cs),
         NEW ss, IsSeq(ss), Runs(home, K, trace[n], ss)
  PROVE  Traced(trace, home, K, Append(cs, ss))
<1>1. /\ \A b \in 0 .. n - 1 : Append(cs, ss)[b + 1] = cs[b + 1]
      /\ Append(cs, ss)[n + 1] = ss /\ n \in Nat
      /\ IsSeq(Append(cs, ss)) /\ Len(Append(cs, ss)) = n + 1
  BY ClosedBlocks DEF Traced
<1>2. \A b \in 0 .. n : b \in 0 .. n - 1 \/ b = n
  BY <1>1
<1>3. ASSUME NEW b \in 0 .. n
      PROVE  IsSeq(Append(cs, ss)[b + 1]) /\ Runs(home, K, trace[b], Append(cs, ss)[b + 1])
  BY <1>1, <1>2 DEF Traced
<1>4. (n + 1) - 1 = n
  BY <1>1
<1> QED BY <1>1, <1>3, <1>4 DEF Traced

LEMMA ClosedJoins ==
  ASSUME NEW cs, IsSeq(cs), NEW n, n = Len(cs), NEW trace, NEW ts, IsSeq(ts), Len(ts) = n,
         Joins(trace, cs, ts), NEW ss, NEW kind, NEW to,
         \A t \in to : t = Unpatched \/ Edge(trace[n][Len(ss) + 1], trace[t][1])
  PROVE  Joins(trace, Append(cs, ss), Append(ts, [kind |-> kind, to |-> to]))
<1> DEFINE e == [kind |-> kind, to |-> to]
           ts2 == Append(ts, e)
<1>1. e.to = to
  OBVIOUS
<1> HIDE DEF e
<1>2. /\ \A b \in 0 .. n - 1 : EndOf(trace, Append(cs, ss), b) = EndOf(trace, cs, b)
      /\ EndOf(trace, Append(cs, ss), n) = trace[n][Len(ss) + 1]
      /\ Len(Append(cs, ss)) = n + 1 /\ n \in Nat
  <2>1. /\ ClosedSame(trace, cs, ss) /\ Len(Append(cs, ss)) = n + 1 /\ n \in Nat
        /\ EndOf(trace, Append(cs, ss), n) = trace[n][Len(ss) + 1]
    BY ClosedBlocks, ClosedEnds
  <2> QED BY <2>1 DEF ClosedSame
<1>3. ts2[n + 1] = e /\ \A i \in 1 .. n : ts2[i] = ts[i]
  BY AppendIsSeq
<1>4. \A b \in 0 .. n - 1 : ts2[b + 1] = ts[b + 1]
  BY <1>2, <1>3
<1> HIDE DEF ts2
<1>5. ASSUME NEW b \in 0 .. n, NEW t \in ts2[b + 1].to
      PROVE  t = Unpatched \/ Edge(EndOf(trace, Append(cs, ss), b), trace[t][1])
  <2>1. CASE b = n
    BY <1>1, <1>2, <1>3, <2>1
  <2>2. CASE b \in 0 .. n - 1
    BY <1>2, <1>4, <2>2 DEF Joins
  <2> QED BY <1>2, <2>1, <2>2
<1>6. Joins(trace, Append(cs, ss), ts2)
  <2>1. (n + 1) - 1 = n
    BY <1>2
  <2> QED BY <1>2, <1>5, <2>1 DEF Joins
<1> QED BY <1>6 DEF ts2, e

LEMMA ClosedMeets ==
  ASSUME NEW cs, IsSeq(cs), NEW n, n = Len(cs), NEW trace, NEW ss
  PROVE  /\ \A gs : /\ \A i \in 1 .. Len(gs) : gs[i].block \in 0 .. n - 1
                    /\ GotosMeet(trace, cs, gs)
                    => GotosMeet(trace, Append(cs, ss), gs)
         /\ \A is : /\ \A i \in 1 .. Len(is) : is[i].block \in 0 .. n - 1
                    /\ IndirectMeet(trace, cs, is)
                    => IndirectMeet(trace, Append(cs, ss), is)
<1>1. \A b \in 0 .. n - 1 : EndOf(trace, Append(cs, ss), b) = EndOf(trace, cs, b)
  <2>1. ClosedSame(trace, cs, ss)
    BY ClosedEnds
  <2> QED BY <2>1 DEF ClosedSame
<1> QED BY <1>1 DEF GotosMeet, IndirectMeet

LEMMA ClosedIf ==
  ASSUME NEW cs, IsSeq(cs), NEW n, n = Len(cs), NEW trace, NEW ss,
         NEW f, FrameOK(f, n), NEW p, IfMeets(trace, cs, f, p)
  PROVE  IfMeets(trace, Append(cs, ss), f, p)
<1>1. \A b \in 0 .. n - 1 : EndOf(trace, Append(cs, ss), b) = EndOf(trace, cs, b)
  <2>1. ClosedSame(trace, cs, ss)
    BY ClosedEnds
  <2> QED BY <2>1 DEF ClosedSame
<1>2. f.kind \in {"then", "else"} => f.entry \in 0 .. n - 1
  BY DEF FrameOK
<1>3. f.kind = "else" => f.thenExit \in 0 .. n - 1
  BY DEF FrameOK
<1> QED BY <1>1, <1>2, <1>3 DEF IfMeets

(* Patching the jump of one.                                               *)
LEMMA PatchedJoins ==
  ASSUME NEW cs, NEW trace, NEW ts \in Seq(Term), Len(ts) = Len(cs), Joins(trace, cs, ts),
         NEW c \in 0 .. Len(cs) - 1, NEW to \in SUBSET Int,
         \A t \in to : t = Unpatched \/ Edge(EndOf(trace, cs, c), trace[t][1])
  PROVE  Joins(trace, cs, Patched(ts, c, to))
<1> DEFINE ts2 == Patched(ts, c, to)
<1>1. ts2[c + 1].to = to /\ \A b \in 1 .. Len(cs) : b # c + 1 => ts2[b] = ts[b]
  BY PatchTerm
<1> HIDE DEF ts2
<1>2. ASSUME NEW b \in 0 .. Len(cs) - 1, NEW t \in ts2[b + 1].to
      PROVE  t = Unpatched \/ Edge(EndOf(trace, cs, b), trace[t][1])
  <2>1. CASE b = c
    BY <1>1, <2>1
  <2>2. CASE b # c
    <3>1. b + 1 \in 1 .. Len(cs) /\ b + 1 # c + 1
      <4>1. Len(cs) \in Nat
        OBVIOUS
      <4> QED BY <2>2, <4>1
    <3> QED BY <1>1, <3>1 DEF Joins
  <2> QED BY <2>1, <2>2
<1> QED BY <1>2 DEF Joins, ts2

Closes(trace, cs, ts) == ts \in Seq(Term) /\ Len(ts) = Len(cs) /\ Joins(trace, cs, ts)

MayJoin(trace, cs, c, to) == \A t \in to : Edge(EndOf(trace, cs, c), trace[t][1])

LEMMA PatchedCloses ==
  ASSUME NEW cs, NEW trace, NEW ts, Closes(trace, cs, ts), NEW c \in 0 .. Len(cs) - 1,
         NEW to \in SUBSET Int, MayJoin(trace, cs, c, to)
  PROVE  Closes(trace, cs, Patched(ts, c, to))
<1>1. ts \in Seq(Term) /\ Len(ts) = Len(cs) /\ Joins(trace, cs, ts)
  BY DEF Closes
<1>2. \A t \in to : t = Unpatched \/ Edge(EndOf(trace, cs, c), trace[t][1])
  BY DEF MayJoin
<1>3. Joins(trace, cs, Patched(ts, c, to))
  BY <1>1, <1>2, PatchedJoins
<1>4. Patched(ts, c, to) \in Seq(Term) /\ Len(Patched(ts, c, to)) = Len(ts)
  BY <1>1, PatchTerm
<1> QED BY <1>1, <1>3, <1>4 DEF Closes

-----------------------------------------------------------------------------
(***************************************************************************)
(* The blocks of the builder, traced: jumps join what they leave to what   *)
(* they enter, and while the body is lowered the block being built ends    *)
(* where the scopes are.                                                   *)
(***************************************************************************)
Traces(trace, home) ==
  /\ Len(code) = NumBlocks
  /\ Traced(trace, home, Storable(home), code) /\ Joins(trace, code, term)
  /\ LabelsMeet(trace, targets) /\ GotosMeet(trace, code, gotos)
  /\ IndirectMeet(trace, code, indirect)

Building(trace, home, depth) ==
  /\ IsSeq(stmts) /\ Runs(home, Storable(home), trace[NumBlocks], stmts)
  /\ trace[NumBlocks][Len(stmts) + 1] = PointOf(scopes)
  /\ \A i \in 1 .. Len(frames) : IfMeets(trace, code, frames[i], PointAt(scopes, depth[i]))

(* Ifs are in the scopes they were in.                                     *)
SameIfs(depth, depth2) ==
  \A i \in 1 .. Len(frames') : frames'[i].kind \in {"then", "else"} =>
    /\ i \in 1 .. Len(frames) /\ frames'[i] = frames[i]
    /\ PointAt(scopes', depth2[i]) = PointAt(scopes, depth[i])

LEMMA PointRange == \A s, k : PointAt(s, k) \in Points
BY DEF PointAt, Points

LEMMA PointSame ==
  ASSUME NEW s, NEW t, NEW k,
         \A i \in 1 .. k : s[i].locals = t[i].locals /\ (NoExpr => s[i].vlas = t[i].vlas)
  PROVE  PointAt(s, k) = PointAt(t, k)
BY DEF PointAt

PutsInRow(row2, row, i, q) == row2[i] = q /\ \A j \in Nat : j # i => row2[j] = row[j]

LEMMA RowGoesOn ==
  ASSUME NEW home, NEW K, NEW home2, NEW K2, Homed(home) \subseteq Homed(home2), K2 \subseteq K,
         NEW row, NEW ss, IsSeq(ss), Runs(home, K, row, ss),
         NEW s, NEW q, Step(home2, K2, row[Len(ss) + 1], s, q),
         NEW row2, PutsInRow(row2, row, Len(ss) + 2, q)
  PROVE  /\ IsSeq(Append(ss, s)) /\ Runs(home2, K2, row2, Append(ss, s))
         /\ row2[Len(Append(ss, s)) + 1] = q
<1> PICK m : m = Len(ss)
  OBVIOUS
<1>1. m \in Nat /\ m + 2 \in Nat /\ (m + 1) + 1 = m + 2
  BY SeqLen
<1>2. \A i \in 1 .. m + 1 : row2[i] = row[i]
  <2>1. \A i \in 1 .. m + 1 : i \in Nat /\ i # m + 2
    BY <1>1
  <2> QED BY <2>1 DEF PutsInRow
<1>3. Runs(home2, K2, row2, ss)
  BY <1>2, RunsKept
<1>4. Step(home2, K2, row2[m + 1], s, row2[m + 2])
  <2>1. m + 1 \in 1 .. m + 1
    BY <1>1
  <2> QED BY <1>2, <2>1 DEF PutsInRow
<1>5. /\ IsSeq(Append(ss, s)) /\ Len(Append(ss, s)) = m + 1
      /\ Runs(home2, K2, row2, Append(ss, s))
  BY <1>3, <1>4, RunsOn
<1> QED BY <1>1, <1>5 DEF PutsInRow

LEMMA IfsProlonged ==
  ASSUME Good, NEW home, NEW depth, NEW trace, Traces(trace, home), Building(trace, home, depth),
         UNCHANGED <<code, term>>, NEW n, n = NumBlocks, NEW trace2, Prolongs(trace2, trace, n, n),
         NEW depth2, SameIfs(depth, depth2)
  PROVE  \A i \in 1 .. Len(frames') : IfMeets(trace2, code', frames'[i], PointAt(scopes', depth2[i]))
<1> PICK cs : cs = code
  OBVIOUS
<1>1. ASSUME NEW i \in 1 .. Len(frames'), frames'[i].kind \in {"then", "else"}
      PROVE  IfMeets(trace2, cs, frames'[i], PointAt(scopes', depth2[i]))
  <2>1. /\ i \in 1 .. Len(frames) /\ frames'[i] = frames[i]
        /\ PointAt(scopes', depth2[i]) = PointAt(scopes, depth[i])
    BY <1>1 DEF SameIfs
  <2>2. FrameOK(frames[i], n) /\ n \in Nat
    BY <2>1 DEF Good, FramesOK, NumBlocks
  <2>3. IfMeets(trace, cs, frames[i], PointAt(scopes, depth[i]))
    BY <2>1 DEF Building
  <2> QED BY <2>1, <2>2, <2>3, ProlongedIf
<1>2. ASSUME NEW i \in 1 .. Len(frames'), frames'[i].kind \notin {"then", "else"}
      PROVE  IfMeets(trace2, cs, frames'[i], PointAt(scopes', depth2[i]))
  BY <1>2 DEF IfMeets
<1> QED BY <1>1, <1>2

LEMMA TracesProlonged ==
  ASSUME Good, phase = "lower", NEW home, NEW trace, Traces(trace, home),
         UNCHANGED <<code, term, targets, gotos, indirect>>,
         NEW n, n = NumBlocks, NEW trace2, Prolongs(trace2, trace, n, n),
         NEW home2, Traced(trace2, home2, Storable(home2)', code)
  PROVE  Traces(trace2, home2)'
<1>1. n \in Nat /\ Span = n /\ Indices = 0 .. n - 1 /\ NumBlocks' = n /\ Len(code) = n /\ Len(term) = n
  BY DEF Good, NumBlocks, Span, Indices, Traces
<1>2. Joins(trace2, code, term)
  <2>1. \A b \in 1 .. n : term[b].to \subseteq {Unpatched} \cup 1 .. n
    BY <1>1 DEF Good, TermsLand
  <2> QED BY <1>1, <2>1, ProlongedJoins DEF Traces
<1>3. /\ LabelsMeet(trace2, targets) /\ GotosMeet(trace2, code, gotos)
      /\ IndirectMeet(trace2, code, indirect)
  <2>1. LabelsMeet(trace2, targets)
    BY <1>1, ProlongedLabels DEF Good, TargetsLand, Traces
  <2>2. GotosMeet(trace2, code, gotos)
    BY <1>1, ProlongedGotos DEF Good, PendingLand, Traces
  <2>3. IndirectMeet(trace2, code, indirect)
    BY <1>1, ProlongedIndirect DEF Good, PendingLand, Traces
  <2> QED BY <2>1, <2>2, <2>3
<1> QED BY <1>1, <1>2, <1>3 DEF Traces

LEMMA AddStatement ==
  ASSUME Good, phase = "lower", UNCHANGED <<code, term, targets, gotos, indirect>>,
         NEW home, NEW depth, NEW trace, Traces(trace, home), Building(trace, home, depth),
         NEW home2, Homed(home) \subseteq Homed(home2), Storable(home2)' \subseteq Storable(home),
         NEW s, stmts' = Append(stmts, s), NEW q \in Points, q = PointOf(scopes'),
         Step(home2, Storable(home2)', PointOf(scopes), s, q),
         NEW depth2, SameIfs(depth, depth2)
  PROVE  \E trace2 : Traces(trace2, home2)' /\ Building(trace2, home2, depth2)'
<1> PICK n, m : n = NumBlocks /\ m = Len(stmts)
  OBVIOUS
<1> PICK K2 : K2 = Storable(home2)'
  OBVIOUS
<1>1. /\ n \in Nat /\ m \in Nat /\ m + 2 \in Nat /\ IsSeq(stmts) /\ n = Len(code) /\ NumBlocks' = n
      /\ Traced(trace, home, Storable(home), code)
      /\ Runs(home, Storable(home), trace[n], stmts) /\ trace[n][m + 1] = PointOf(scopes)
      /\ IsTrace(trace)
  BY SeqLen DEF Good, NumBlocks, Traces, Traced, Building
<1>2. PICK trace2 : Puts(trace2, trace, n, m + 2, q)
  BY <1>1, TracePut
<1>3. /\ Prolongs(trace2, trace, n, n) /\ Traced(trace2, home2, K2, code)
      /\ IsSeq(stmts') /\ Runs(home2, K2, trace2[n], stmts') /\ trace2[n][Len(stmts') + 1] = q
  <2>1. Prolongs(trace2, trace, n, n)
    <3>1. n \in Nat /\ m + 2 \in Nat /\ m + 2 # 1
      BY <1>1, SeqLen
    <3> QED BY ONLY <1>2, <3>1, PutAhead
  <2>2. Traced(trace2, home2, K2, code)
    BY <1>1, <2>1, ProlongedTrace
  <2>3. /\ trace2[n][m + 2] = q
        /\ \A j \in Nat : j # m + 2 => trace2[n][j] = trace[n][j]
    BY <1>2 DEF Puts
  <2>4. /\ IsSeq(Append(stmts, s)) /\ Runs(home2, K2, trace2[n], Append(stmts, s))
        /\ trace2[n][Len(Append(stmts, s)) + 1] = q
    <3> PICK row, row2, K, ss :
          row = trace[n] /\ row2 = trace2[n] /\ K = Storable(home) /\ ss = stmts
      OBVIOUS
    <3>1. K2 \subseteq K /\ IsSeq(ss) /\ Runs(home, K, row, ss) /\ Homed(home) \subseteq Homed(home2)
      BY <1>1
    <3>2. Step(home2, K2, row[Len(ss) + 1], s, q)
      BY <1>1
    <3>3. PutsInRow(row2, row, Len(ss) + 2, q)
      BY <2>3 DEF PutsInRow
    <3>4. IsSeq(Append(ss, s)) /\ Runs(home2, K2, row2, Append(ss, s)) /\ row2[Len(Append(ss, s)) + 1] = q
      BY ONLY <3>1, <3>2, <3>3, RowGoesOn
    <3> QED BY <3>4
  <2> QED BY <2>1, <2>2, <2>4
<1>4. Traces(trace2, home2)'
  BY <1>3, TracesProlonged
<1>5. \A i \in 1 .. Len(frames') : IfMeets(trace2, code', frames'[i], PointAt(scopes', depth2[i]))
  BY <1>3, IfsProlonged
<1>6. Building(trace2, home2, depth2)'
  BY <1>1, <1>3, <1>5 DEF Building
<1> QED BY <1>4, <1>6

LEMMA NoStatement ==
  ASSUME Good, phase = "lower", UNCHANGED <<code, term, stmts, targets, gotos, indirect>>,
         NEW home, NEW depth, NEW trace, Traces(trace, home), Building(trace, home, depth),
         NEW home2, Homed(home) \subseteq Homed(home2), Storable(home2)' \subseteq Storable(home),
         PointOf(scopes') = PointOf(scopes), NEW depth2, SameIfs(depth, depth2)
  PROVE  Traces(trace, home2)' /\ Building(trace, home2, depth2)'
<1> PICK n, K2 : n = NumBlocks /\ K2 = Storable(home2)'
  OBVIOUS
<1>1. /\ n \in Nat /\ IsSeq(stmts) /\ n = Len(code) /\ NumBlocks' = n
      /\ Traced(trace, home, Storable(home), code) /\ IsTrace(trace)
      /\ Runs(home, Storable(home), trace[n], stmts)
  BY DEF Good, NumBlocks, Traces, Traced, Building
<1>2. Prolongs(trace, trace, n, n)
  BY <1>1 DEF Prolongs
<1>3. Traced(trace, home2, K2, code)
  BY <1>1, <1>2, ProlongedTrace
<1>4. Runs(home2, K2, trace[n], stmts)
  BY <1>1, RunsKept
<1>5. Traces(trace, home2)'
  BY <1>2, <1>3, TracesProlonged
<1>6. \A i \in 1 .. Len(frames') : IfMeets(trace, code', frames'[i], PointAt(scopes', depth2[i]))
  BY <1>2, IfsProlonged
<1>7. Building(trace, home2, depth2)'
  BY <1>1, <1>4, <1>6 DEF Building
<1> QED BY <1>5, <1>7

-----------------------------------------------------------------------------
(* Points of the scopes, and the statements that end no block.             *)
LEMMA PointMore ==
  ASSUME NEW s, NEW n \in Nat, s[n + 1] \in Scopes
  PROVE  /\ PointAt(s, n + 1).live = PointAt(s, n).live \cup s[n + 1].locals
         /\ PointAt(s, n + 1).vlas = PointAt(s, n).vlas \cup (IF NoExpr THEN s[n + 1].vlas ELSE {})
<1>1. \A i : i \in 1 .. n + 1 <=> i \in 1 .. n \/ i = n + 1
  OBVIOUS
<1>2. s[n + 1].locals \subseteq Locals /\ s[n + 1].vlas \subseteq Locals
  BY DEF Scopes
<1> QED BY <1>1, <1>2 DEF PointAt

LEMMA ScopesApart ==
  ASSUME SnapInv, NEW home, Homes(home), NEW s \in Snapshots,
         NEW i \in 1 .. Len(s), NEW j \in 1 .. Len(s), i # j
  PROVE  s[i].locals \cap s[j].locals = {}
<1>1. Agree(s, s) /\ DOMAIN s = 1 .. Len(s)
  BY SeqDomain DEF SnapInv, Shaped
<1>2. s[i].id # s[j].id
  BY <1>1 DEF Agree
<1>3. /\ s[i].locals = home[s[i].id] /\ s[j].locals = home[s[j].id]
      /\ s[i].id \in Nat /\ s[j].id \in Nat
  BY DEF Homes, ScopeOK, Scopes
<1> QED BY <1>2, <1>3 DEF Homes

(* The innermost scope and those around it.                                *)
LEMMA LastApart ==
  ASSUME SnapInv, NEW home, Homes(home), NEW n \in Nat, n + 1 = Len(scopes)
  PROVE  /\ PointAt(scopes, n).live \cap scopes[n + 1].locals = {}
         /\ PointAt(scopes, n).vlas \cap scopes[n + 1].locals = {}
<1>1. scopes \in Snapshots /\ n + 1 \in 1 .. n + 1
  BY DEF Snapshots
<1>2. ASSUME NEW i \in 1 .. n
      PROVE  /\ scopes[i].locals \cap scopes[n + 1].locals = {}
             /\ NoExpr => scopes[i].vlas \subseteq scopes[i].locals
  <2>1. i \in 1 .. n + 1 /\ i # n + 1
    OBVIOUS
  <2>2. scopes[i].locals \cap scopes[n + 1].locals = {}
    BY <1>1, <2>1, ScopesApart
  <2> QED BY <1>1, <2>1, <2>2 DEF Homes, ScopeOK
<1> QED BY <1>2 DEF PointAt

LEMMA EnterBlockRuns ==
  ASSUME Good, SnapInv, NEW home, Homes(home), NEW ds \in SUBSET fresh, EnterBlock(ds),
         NEW n, n = nextScope,
         NEW home2 \in [Nat -> SUBSET Locals], Differs(home2, home, n, ds),
         NEW depth, Scoped(home, depth), NEW m, m = Len(frames),
         NEW depth2, IsDepth(depth2), Differs(depth2, depth, m + 1, depth[m] + 1),
         NEW trace, Traces(trace, home), Building(trace, home, depth)
  PROVE  \E trace2 : Traces(trace2, home2)' /\ Building(trace2, home2, depth2)'
<1> PICK k : k = Len(scopes)
  OBVIOUS
<1>1. /\ phase = "lower" /\ frames' = Append(frames, Frame("block", ds))
      /\ scopes' = Append(scopes, OpenScope(n, ds)) /\ UNCHANGED <<code, term, targets, gotos, indirect>>
      /\ stmts' = IF ds = {} THEN stmts ELSE Append(stmts, [op |-> "live", on |-> ds])
  BY DEF EnterBlock, Choose, Emit
<1>2. /\ IsSeq(frames) /\ IsSeq(scopes) /\ m \in Nat /\ k \in Nat /\ scopes \in Snapshots
  BY SeqLen DEF Good, FramesOK, IsSeq, SnapInv, Shaped, Snapshots
<1>3. /\ Len(scopes') = k + 1 /\ scopes'[k + 1] = OpenScope(n, ds)
      /\ \A i \in 1 .. k : scopes'[i] = scopes[i]
  BY <1>1, <1>2, AppendIsSeq
<1>4. /\ Len(frames') = m + 1 /\ frames'[m + 1] = Frame("block", ds)
      /\ \A i \in 1 .. m : frames'[i] = frames[i]
  BY <1>1, <1>2, AppendIsSeq
<1>5. Nested(depth)
  BY <1>1 DEF Scoped
<1>6. \A j \in 0 .. k : PointAt(scopes', j) = PointAt(scopes, j)
  <2> SUFFICES ASSUME NEW j \in 0 .. k PROVE PointAt(scopes', j) = PointAt(scopes, j)
    OBVIOUS
  <2>1. \A i \in 1 .. j : i \in 1 .. k
    BY <1>2
  <2> QED BY <1>3, <2>1, PointSame
<1>7. SameIfs(depth, depth2)
  <2> SUFFICES ASSUME NEW i \in 1 .. m + 1, frames'[i].kind \in {"then", "else"}
               PROVE  /\ i \in 1 .. m /\ frames'[i] = frames[i]
                      /\ PointAt(scopes', depth2[i]) = PointAt(scopes, depth[i])
    BY <1>4 DEF SameIfs
  <2>1. i # m + 1
    BY <1>4 DEF Frame
  <2>2. i \in 1 .. m /\ i \in Nat
    BY <1>2, <2>1
  <2>3. depth2[i] = depth[i]
    BY <2>1, <2>2 DEF Differs
  <2>4. depth[i] \in 1 .. k /\ depth[i] \in 0 .. k
    <3>1. depth[i] \in 1 .. k
      BY <1>5, <2>2, DepthRange
    <3> QED BY <1>2, <3>1
  <2> QED BY <1>4, <1>6, <2>2, <2>3, <2>4
<1>8. Homes(home2)' /\ Homed(home2) = Homed(home) \cup ds /\ Storable(home2)' = Storable(home)
  BY EnterBlockHomes
<1>9. PointOf(scopes) \in Points /\ PointAt(scopes', k) = PointOf(scopes)
  <2>1. k \in 0 .. k
    BY <1>2
  <2> QED BY <1>6, <2>1, PointRange DEF PointOf
<1> PICK p, q : p = PointOf(scopes) /\ q = PointOf(scopes')
  OBVIOUS
<1>10. q.live = p.live \cup ds /\ q.vlas = p.vlas
  <2> PICK t : t = scopes'
    OBVIOUS
  <2>1. t[k + 1].locals = ds /\ t[k + 1].vlas = {} /\ t[k + 1] \in Scopes
    <3>1. n \in Nat /\ ds \subseteq Locals
      BY DEF SnapInv, Good, FramesOK
    <3> QED BY <1>3, <3>1 DEF OpenScope, Scopes
  <2>2. q = PointAt(t, k + 1) /\ p = PointAt(t, k)
    BY <1>3, <1>9 DEF PointOf
  <2>3. /\ PointAt(t, k + 1).live = PointAt(t, k).live \cup t[k + 1].locals
        /\ PointAt(t, k + 1).vlas = PointAt(t, k).vlas \cup (IF NoExpr THEN t[k + 1].vlas ELSE {})
    BY <1>2, <2>1, PointMore
  <2> QED BY <2>1, <2>2, <2>3
<1>11. p.live \cap ds = {} /\ p.vlas \cap ds = {}
  <2>1. ASSUME NEW i \in 1 .. k
        PROVE  scopes[i].locals \cap ds = {} /\ (NoExpr => scopes[i].vlas \subseteq scopes[i].locals)
    <3>1. ScopeOK(home, scopes[i])
      BY <1>2 DEF Homes
    <3>2. scopes[i].locals \cap fresh = {}
      BY <3>1 DEF Homes, ScopeOK, Scopes
    <3> QED BY <3>1, <3>2 DEF ScopeOK
  <2> QED BY <2>1 DEF PointOf, PointAt
<1>12. q \in Points
  BY PointRange DEF PointOf
<1>13. CASE ds = {}
  <2>1. p = q
    <3>1. q = [live |-> q.live, vlas |-> q.vlas] /\ p = [live |-> p.live, vlas |-> p.vlas]
      BY DEF PointOf, PointAt
    <3>2. q.live = p.live
      BY <1>10, <1>13
    <3> QED BY <1>10, <3>1, <3>2
  <2> QED BY <1>1, <1>7, <1>8, <1>13, <2>1, NoStatement
<1>14. CASE ds # {}
  <2> DEFINE s == [op |-> "live", on |-> ds]
  <2>1. Step(home2, Storable(home2)', p, s, q)
    BY <1>8, <1>10, <1>11 DEF Step
  <2>2. stmts' = Append(stmts, s)
    BY <1>1, <1>14
  <2> HIDE DEF s
  <2> QED BY <1>1, <1>7, <1>8, <1>12, <2>1, <2>2, AddStatement
<1> QED BY <1>13, <1>14

LEMMA ExitBlockRuns ==
  ASSUME Good, SnapInv, NEW home, Homes(home), NEW depth, Scoped(home, depth), ExitBlock,
         NEW trace, Traces(trace, home), Building(trace, home, depth)
  PROVE  \E trace2 : Traces(trace2, home)' /\ Building(trace2, home, depth)'
<1> PICK m, n : m = Len(frames) /\ n = Len(scopes) - 1
  OBVIOUS
<1>1. /\ phase = "lower" /\ frames' = Front(frames) /\ scopes' = Front(scopes)
      /\ UNCHANGED <<code, term, targets, gotos, indirect>>
      /\ stmts' = IF Last(scopes).locals = {} THEN stmts
                  ELSE Append(stmts, [op |-> "dead", on |-> Last(scopes).locals])
  BY DEF ExitBlock, Emit
<1>2. Nested(depth) /\ Sees(home, depth)
  BY <1>1 DEF Scoped
<1>3. /\ IsSeq(scopes) /\ Len(scopes) \in Nat
      /\ \A i \in 1 .. Len(scopes) : ScopeOK(home, scopes[i])
  BY ScopesSeen
<1>4. m \in Nat /\ m \in 1 .. m /\ IsSeq(frames)
  BY SeqLen DEF Good, FramesOK, IsSeq
<1>5. n \in Nat /\ n + 1 = Len(scopes) /\ n + 1 \in 1 .. n + 1
  <2>1. depth[m] \in 1 .. Len(scopes)
    BY <1>2, <1>4, DepthRange
  <2> QED BY <1>3, <2>1
<1>6. /\ Len(scopes') = n /\ \A i \in 1 .. n : scopes'[i] = scopes[i]
      /\ Last(scopes) = scopes[n + 1]
  BY <1>1, <1>3, <1>5, FrontIsSeq
<1>7. /\ Nested(depth)'
      /\ \A i \in 1 .. Len(frames') : i \in 1 .. Len(frames) /\ frames'[i] = frames[i]
  BY <1>1, <1>2, <1>3, NestedFront DEF ExitBlock
<1>8. \A j \in 0 .. n : PointAt(scopes', j) = PointAt(scopes, j)
  <2> SUFFICES ASSUME NEW j \in 0 .. n PROVE PointAt(scopes', j) = PointAt(scopes, j)
    OBVIOUS
  <2>1. \A i \in 1 .. j : i \in 1 .. n
    BY <1>5
  <2> QED BY <1>6, <2>1, PointSame
<1>9. SameIfs(depth, depth)
  <2> SUFFICES ASSUME NEW i \in 1 .. Len(frames')
               PROVE  PointAt(scopes', depth[i]) = PointAt(scopes, depth[i])
    BY <1>7 DEF SameIfs
  <2>1. /\ IsSeq(frames') /\ Len(frames') = m - 1
    BY <1>1, <1>4, FrontIsSeq, SMTT(30)
  <2>2. i \in 1 .. m /\ m - 1 \in 1 .. m /\ i <= m - 1
    BY <1>4, <2>1
  <2>3. depth[i] <= depth[m - 1] /\ depth[m] = depth[m - 1] + Deepens(frames[m])
    BY <1>2, <1>4, <2>2 DEF Nested
  <2>4. depth[m] = n + 1 /\ Deepens(frames[m]) = 1
    <3>1. Last(frames) = frames[m]
      BY <1>4, FrontIsSeq
    <3> QED BY <1>2, <1>5, <3>1 DEF Nested, Deepens, ExitBlock
  <2>5. depth[i] \in Nat /\ depth[m - 1] \in Nat
    <3>1. i \in Nat /\ m - 1 \in Nat
      BY <1>4, <2>2
    <3> QED BY <1>2, <3>1 DEF Nested, IsDepth
  <2>6. depth[i] \in 0 .. n
    BY <1>5, <2>3, <2>4, <2>5
  <2> QED BY <1>8, <2>6
<1> PICK p, q, ds : p = PointOf(scopes) /\ q = PointOf(scopes') /\ ds = Last(scopes).locals
  OBVIOUS
<1>10. q = PointAt(scopes, n)
  <2>1. n \in 0 .. n
    BY <1>5
  <2> QED BY <1>6, <1>8, <2>1 DEF PointOf
<1>11. /\ q.live \cap ds = {} /\ q.vlas \cap ds = {}
  BY <1>5, <1>6, <1>10, LastApart
<1>12. /\ p.live = q.live \cup ds /\ q.vlas \subseteq p.vlas
       /\ p.vlas \subseteq q.vlas \cup ds
  <2>1. scopes[n + 1] \in Scopes /\ (NoExpr => scopes[n + 1].vlas \subseteq scopes[n + 1].locals)
    BY <1>3, <1>5 DEF ScopeOK
  <2>2. /\ PointAt(scopes, n + 1).live = PointAt(scopes, n).live \cup scopes[n + 1].locals
        /\ PointAt(scopes, n + 1).vlas
             = PointAt(scopes, n).vlas \cup (IF NoExpr THEN scopes[n + 1].vlas ELSE {})
    BY <1>5, <2>1, PointMore
  <2>3. p = PointAt(scopes, n + 1)
    BY <1>5 DEF PointOf
  <2> QED BY <1>6, <1>10, <2>1, <2>2, <2>3
<1>13. Storable(home)' = Storable(home) /\ q \in Points
  BY ExitBlockHomes, PointRange DEF PointOf
<1>14. CASE ds = {}
  <2>1. p = q
    <3>1. q = [live |-> q.live, vlas |-> q.vlas] /\ p = [live |-> p.live, vlas |-> p.vlas]
      BY DEF PointOf, PointAt
    <3>2. q.live = p.live /\ q.vlas = p.vlas
      BY <1>12, <1>14
    <3> QED BY <3>1, <3>2
  <2> QED BY <1>1, <1>9, <1>13, <1>14, <2>1, NoStatement
<1>15. CASE ds # {}
  <2> DEFINE s == [op |-> "dead", on |-> ds]
  <2>1. Step(home, Storable(home)', p, s, q)
    BY <1>11, <1>12 DEF Step
  <2>2. stmts' = Append(stmts, s)
    BY <1>1, <1>15
  <2> HIDE DEF s
  <2> QED BY <1>1, <1>9, <1>13, <2>1, <2>2, AddStatement
<1> QED BY <1>14, <1>15

LEMMA DeclRuns ==
  ASSUME Good, SnapInv, NEW home, Homes(home), NEW depth, Scoped(home, depth), NEW x \in Locals, Decl(x),
         NEW trace, Traces(trace, home), Building(trace, home, depth)
  PROVE  \E trace2 : Traces(trace2, home)' /\ Building(trace2, home, depth)'
<1> PICK m, n, t : m = Len(frames) /\ n = Len(scopes) - 1 /\ t = scopes'
  OBVIOUS
<1>1. /\ phase = "lower" /\ UNCHANGED <<code, term, targets, gotos, indirect>>
      /\ stmts' = Append(stmts, [op |-> "decl", on |-> {x}])
  BY DEF Decl, Emit
<1>2. Nested(depth) /\ Sees(home, depth)
  BY <1>1 DEF Scoped
<1>3. /\ Homes(home)' /\ Storable(home)' \subseteq Storable(home)
      /\ \A k \in 1 .. Len(scopes) : t[k].locals = scopes[k].locals
      /\ Len(t) = Len(scopes)
      /\ \A k \in 1 .. Len(scopes) - 1 : t[k] = scopes[k]
      /\ t[Len(scopes)].vlas = scopes[Len(scopes)].vlas \cup ({x} \cap Vlas)
      /\ x \in Storable(home)' => x \in scopes[Len(scopes)].locals
      /\ Len(scopes) > 0
  BY DeclHomes
<1>4. /\ n \in Nat /\ n + 1 = Len(scopes) /\ n + 1 \in 1 .. n + 1
      /\ \A i \in 1 .. n + 1 : ScopeOK(home, scopes[i])
  BY <1>3, ScopesSeen
<1>5. /\ m \in Nat /\ m \in 1 .. m /\ IsSeq(frames) /\ frames[m] \in Frames /\ Len(frames') = m
      /\ \A i \in 1 .. m - 1 : frames'[i] = frames[i]
      /\ frames[m].kind \in {"block", "expr"} /\ frames'[m].kind = frames[m].kind
  <2>1. frames \in Seq(Frames) /\ m \in Nat /\ m > 0 /\ IsSeq(frames)
    BY DEF Good, FramesOK, IsSeq
  <2>2. frames[m] \in Frames
    BY <2>1
  <2> DEFINE f2 == [frames[m] EXCEPT !.todo = @ \ {x}, !.seen = @ \cup {x}]
  <2>3. f2.kind = frames[m].kind
    BY <2>2 DEF Frames
  <2>4. Last(frames) = frames[m]
    BY <2>1, FrontIsSeq
  <2>5. frames' = SetLast(frames, f2) /\ frames[m].kind \in {"block", "expr"}
    BY <2>4 DEF Decl
  <2> HIDE DEF f2
  <2> QED BY <2>1, <2>2, <2>3, <2>5, SetLastIsSeq
<1> PICK p, q : p = PointOf(scopes) /\ q = PointOf(t)
  OBVIOUS
<1>6. /\ p = PointAt(scopes, n + 1) /\ q = PointAt(t, n + 1)
      /\ PointAt(t, n) = PointAt(scopes, n)
  <2>1. PointAt(t, n) = PointAt(scopes, n)
    BY <1>3, <1>4, PointSame
  <2> QED BY <1>3, <1>4, <2>1 DEF PointOf
<1>7. /\ q.live = p.live /\ q.vlas \subseteq p.vlas \cup {x}
      /\ ~NoExpr => q.vlas = p.vlas
  <2>1. scopes[n + 1].locals = t[n + 1].locals /\ t[n + 1].vlas = scopes[n + 1].vlas \cup ({x} \cap Vlas)
    BY <1>3, <1>4
  <2>2. \A i \in 1 .. n + 1 : i \in 1 .. n \/ i = n + 1
    BY <1>4
  <2>3. \A i \in 1 .. n + 1 : t[i].locals = scopes[i].locals /\ t[i].vlas \subseteq scopes[i].vlas \cup {x}
    BY <1>3, <1>4, <2>1, <2>2
  <2> QED BY <1>6, <2>3, SMTT(30) DEF PointAt
<1>8. SameIfs(depth, depth)
  <2> SUFFICES ASSUME NEW i \in 1 .. m, frames'[i].kind \in {"then", "else"}
               PROVE  /\ i \in 1 .. m /\ frames'[i] = frames[i]
                      /\ PointAt(t, depth[i]) = PointAt(scopes, depth[i])
    BY <1>5 DEF SameIfs
  <2>1. i # m /\ i \in 1 .. m - 1 /\ i <= m - 1 /\ m - 1 \in 1 .. m
    BY <1>5
  <2>2. depth[i] \in 1 .. n + 1
    BY <1>2, <1>4, DepthRange
  <2> PICK k : k = depth[i]
    OBVIOUS
  <2>3. CASE k \in 0 .. n
    <3>1. \A j \in 1 .. k : j \in 1 .. n
      BY <1>4, <2>3
    <3>2. \A j \in 1 .. k : t[j] = scopes[j]
      BY <1>3, <3>1
    <3>3. PointAt(t, k) = PointAt(scopes, k)
      BY <3>2, PointSame
    <3> QED BY <1>5, <2>1, <3>3
  <2>4. CASE k = n + 1
    <3>1. ~NoExpr
      <4> SUFFICES ASSUME NoExpr PROVE FALSE
        OBVIOUS
      <4>1. frames[m].kind = "block"
        BY <1>2, <1>5 DEF Sees, Names
      <4>2. depth[i] <= depth[m - 1] /\ depth[m] = depth[m - 1] + 1 /\ depth[m] = n + 1
        BY <1>2, <1>4, <1>5, <2>1, <4>1 DEF Nested, Deepens
      <4>3. depth[m - 1] \in Nat
        <5>1. m - 1 \in Nat /\ IsDepth(depth)
          BY <1>2, <1>5, <2>1 DEF Nested
        <5> QED BY <5>1, DepthNat
      <4> QED BY <1>4, <2>4, <4>2, <4>3
    <3>2. q = p
      <4>1. q = [live |-> q.live, vlas |-> q.vlas] /\ p = [live |-> p.live, vlas |-> p.vlas]
        BY DEF PointOf, PointAt
      <4> QED BY <1>7, <3>1, <4>1
    <3> QED BY <1>5, <1>6, <2>1, <2>4, <3>2
  <2> QED BY <1>4, <2>2, <2>3, <2>4
<1> DEFINE s == [op |-> "decl", on |-> {x}]
<1>9. Step(home, Storable(home)', p, s, q)
  <2>1. {x} \cap Storable(home)' \subseteq p.live
    <3>1. scopes[n + 1].locals \subseteq p.live
      BY <1>4, <1>6 DEF PointAt, ScopeOK, Scopes
    <3> QED BY <1>3, <1>4, <3>1
  <2> QED BY <1>7, <2>1 DEF Step
<1>10. stmts' = Append(stmts, s) /\ q \in Points
  BY <1>1, PointRange DEF PointOf
<1> HIDE DEF s
<1> QED BY <1>1, <1>3, <1>8, <1>9, <1>10, AddStatement

LEMMA UseRuns ==
  ASSUME Good, SnapInv, NEW home, Homes(home), NEW depth, Scoped(home, depth), NEW x \in Locals, Use(x),
         NEW trace, Traces(trace, home), Building(trace, home, depth)
  PROVE  \E trace2 : Traces(trace2, home)' /\ Building(trace2, home, depth)'
<1>1. /\ phase = "lower" /\ UNCHANGED <<code, term, scopes, targets, gotos, indirect, frames, fresh>>
      /\ stmts' = Append(stmts, [op |-> "use", on |-> {x}]) /\ x \in Visible
  BY DEF Use, Emit, Choose
<1>2. Nested(depth) /\ Sees(home, depth)
  BY <1>1 DEF Scoped
<1>3. PICK i \in 1 .. Len(frames) : x \in frames[i].seen
  <2>1. DOMAIN frames = 1 .. Len(frames)
    BY SeqDomain DEF Good, FramesOK, IsSeq
  <2> QED BY <1>1, <2>1 DEF Visible
<1> PICK k : k = depth[i]
  OBVIOUS
<1>4. k \in 1 .. Len(scopes)
  BY <1>2, DepthRange
<1>5. ScopeOK(home, scopes[k]) /\ Names(Storable(home), frames[i], scopes[k])
  BY <1>2, <1>4, ScopesSeen DEF Sees
<1> PICK p : p = PointOf(scopes)
  OBVIOUS
<1>6. scopes[k].locals \subseteq p.live /\ (NoExpr => scopes[k].vlas \subseteq p.vlas)
  BY <1>4, <1>5 DEF ScopeOK, Scopes, PointOf, PointAt
<1>7. frames[i].kind \in {"block", "expr", "then", "else"}
  BY DEF Good, FramesOK, FrameOK
<1> DEFINE s == [op |-> "use", on |-> {x}]
<1>8. Step(home, Storable(home)', p, s, p)
  <2>1. {x} \cap Storable(home) \subseteq p.live
    BY <1>3, <1>5, <1>6, <1>7 DEF Names
  <2>2. NoExpr => {x} \cap Vlas \subseteq p.vlas
    BY <1>3, <1>5, <1>6 DEF Names
  <2>3. Storable(home)' = Storable(home)
    BY <1>1 DEF Storable
  <2> QED BY <2>1, <2>2, <2>3 DEF Step
<1>9. stmts' = Append(stmts, s) /\ p \in Points /\ p = PointOf(scopes')
  BY <1>1, PointRange DEF PointOf
<1> HIDE DEF s
<1>10. SameIfs(depth, depth) /\ Storable(home)' = Storable(home)
  BY <1>1 DEF SameIfs, Storable
<1> QED BY <1>1, <1>8, <1>9, <1>10, AddStatement

-----------------------------------------------------------------------------
(* Statements that end a block: the next one starts where it ended.        *)
Closed(trace2, home, depth, ts) ==
  /\ IsTrace(trace2) /\ Len(code') = NumBlocks + 1
  /\ Traced(trace2, home, Storable(home), code') /\ Joins(trace2, code', ts)
  /\ EndOf(trace2, code', NumBlocks) = PointOf(scopes) /\ trace2[NumBlocks + 1][1] = PointOf(scopes)
  /\ LabelsMeet(trace2, targets) /\ GotosMeet(trace2, code', gotos)
  /\ IndirectMeet(trace2, code', indirect)
  /\ \A i \in 1 .. Len(frames) : IfMeets(trace2, code', frames[i], PointAt(scopes, depth[i]))

LEMMA CloseBlock ==
  ASSUME Good, phase = "lower", NEW home, NEW depth, NEW trace,
         Traces(trace, home), Building(trace, home, depth), code' = Append(code, stmts),
         NEW kind, NEW to, to \subseteq {Unpatched, NumBlocks + 1}
  PROVE  \E trace2 : Closed(trace2, home, depth, Append(term, [kind |-> kind, to |-> to]))
<1> PICK n, q : n = NumBlocks /\ q = PointOf(scopes)
  OBVIOUS
<1>1. /\ n \in Nat /\ n + 1 \in Nat /\ Span = n /\ Indices = 0 .. n - 1 /\ Len(code) = n /\ Len(term) = n
      /\ Traced(trace, home, Storable(home), code) /\ IsTrace(trace) /\ IsSeq(code) /\ IsSeq(term)
      /\ IsSeq(stmts) /\ Runs(home, Storable(home), trace[n], stmts) /\ trace[n][Len(stmts) + 1] = q
      /\ Len(stmts) \in Nat
  BY SeqLen DEF Good, NumBlocks, Span, Indices, Traces, Traced, Building, IsSeq
<1>2. q \in Points
  BY PointRange DEF PointOf
<1>3. PICK trace2 : Puts(trace2, trace, n + 1, 1, q)
  BY <1>1, <1>2, TracePut
<1>4. Prolongs(trace2, trace, n, n)
  <2>1. n + 1 > n /\ 1 \in Nat
    BY <1>1
  <2> QED BY <1>1, <1>3, <2>1, PutAhead
<1>5. trace2[n] = trace[n] /\ trace2[n + 1][1] = q
  <2>1. n # n + 1
    BY <1>1
  <2> QED BY <1>1, <1>3, <2>1 DEF Puts
<1>6. Traced(trace2, home, Storable(home), code)
  BY <1>1, <1>4, ProlongedTrace
<1>7. Traced(trace2, home, Storable(home), code') /\ Len(code') = n + 1
  <2>1. Runs(home, Storable(home), trace2[n], stmts)
    BY <1>1, <1>5
  <2> QED BY <1>1, <1>6, <2>1, ClosedTrace, ClosedBlocks
<1>8. EndOf(trace2, code', n) = q
  BY <1>1, <1>5, ClosedEnds
<1>9. Joins(trace2, code', Append(term, [kind |-> kind, to |-> to]))
  <2>1. \A b \in 1 .. n : term[b].to \subseteq {Unpatched} \cup 1 .. n
    BY <1>1 DEF Good, TermsLand
  <2>2. Joins(trace2, code, term)
    BY <1>1, <1>4, <2>1, ProlongedJoins DEF Traces
  <2>3. \A t \in to : t = Unpatched \/ Edge(trace2[n][Len(stmts) + 1], trace2[t][1])
    BY <1>1, <1>5 DEF Edge
  <2> QED BY <1>1, <2>2, <2>3, ClosedJoins
<1>10. LabelsMeet(trace2, targets)
  BY <1>1, <1>4, ProlongedLabels DEF Good, TargetsLand, Traces
<1>11. GotosMeet(trace2, code', gotos)
  <2>1. GotosMeet(trace2, code, gotos)
    BY <1>1, <1>4, ProlongedGotos DEF Good, PendingLand, Traces
  <2> QED BY <1>1, <2>1, ClosedMeets DEF Good, PendingLand
<1>12. IndirectMeet(trace2, code', indirect)
  <2>1. IndirectMeet(trace2, code, indirect)
    BY <1>1, <1>4, ProlongedIndirect DEF Good, PendingLand, Traces
  <2> QED BY <1>1, <2>1, ClosedMeets DEF Good, PendingLand
<1>13. ASSUME NEW i \in 1 .. Len(frames)
       PROVE  IfMeets(trace2, code', frames[i], PointAt(scopes, depth[i]))
  <2>1. FrameOK(frames[i], n)
    BY DEF Good, FramesOK
  <2>2. IfMeets(trace, code, frames[i], PointAt(scopes, depth[i]))
    BY DEF Building
  <2>3. IfMeets(trace2, code, frames[i], PointAt(scopes, depth[i]))
    BY <1>1, <1>4, <2>1, <2>2, ProlongedIf
  <2> QED BY <1>1, <2>1, <2>3, ClosedIf
<1>14. Closed(trace2, home, depth, Append(term, [kind |-> kind, to |-> to]))
  BY <1>3, <1>5, <1>7, <1>8, <1>9, <1>10, <1>11, <1>12, <1>13 DEF Closed, Puts
<1> QED BY <1>14

(* The block after it.                                                     *)
LEMMA NextBlock ==
  ASSUME NEW n \in Nat, n = NumBlocks, NEW home, NEW depth, NEW ts, Len(ts) = n + 1,
         NEW trace2, Closed(trace2, home, depth, ts),
         term' = ts, stmts' = << >>, fresh' = fresh, scopes' = scopes,
         LabelsMeet(trace2, targets'), GotosMeet(trace2, code', gotos'),
         IndirectMeet(trace2, code', indirect'),
         NEW d, \A i \in 1 .. Len(frames') : IfMeets(trace2, code', frames'[i], PointAt(scopes, d[i]))
  PROVE  Traces(trace2, home)' /\ Building(trace2, home, d)'
<1>1. NumBlocks' = n + 1 /\ Storable(home)' = Storable(home)
  BY DEF NumBlocks, Storable
<1>2. /\ Len(code') = n + 1 /\ Traced(trace2, home, Storable(home), code') /\ Joins(trace2, code', ts)
      /\ trace2[n + 1][1] = PointOf(scopes)
  BY DEF Closed
<1>3. Traces(trace2, home)'
  BY <1>1, <1>2 DEF Traces
<1>4. IsSeq(stmts') /\ Runs(home, Storable(home)', trace2[n + 1], stmts') /\ Len(stmts') + 1 = 1
  BY EmptyIsSeq DEF Runs
<1>5. Building(trace2, home, d)'
  BY <1>1, <1>2, <1>4 DEF Building
<1> QED BY <1>3, <1>5

(* The same statements are being lowered.                                  *)
SameDepths(d, depth) == \A i \in 1 .. Len(frames) : d[i] = depth[i]

LEMMA GotoRuns ==
  ASSUME Good, NEW home, NEW depth, NEW trace, Traces(trace, home), Building(trace, home, depth),
         NEW d, SameDepths(d, depth), NEW l \in Labels, Goto(l)
  PROVE  \E trace2 : Traces(trace2, home)' /\ Building(trace2, home, d)'
<1> PICK n, ts : n = NumBlocks /\ ts = Append(term, [kind |-> "goto", to |-> {Unpatched}])
  OBVIOUS
<1>1. /\ phase = "lower" /\ code' = Append(code, stmts) /\ term' = ts /\ stmts' = << >>
      /\ UNCHANGED <<scopes, targets, indirect, frames, fresh>>
      /\ gotos' = Append(gotos, [block |-> n, label |-> l, scopes |-> scopes])
  BY DEF Goto, Choose, PushTerminator
<1>2. n \in Nat /\ Len(ts) = n + 1
  BY DEF Good, NumBlocks
<1>3. PICK trace2 : Closed(trace2, home, depth, ts)
  <2>1. {Unpatched} \subseteq {Unpatched, NumBlocks + 1}
    OBVIOUS
  <2> QED BY <1>1, <2>1, CloseBlock
<1>4. GotosMeet(trace2, code', gotos')
  <2>1. IsSeq(gotos)
    BY DEF Good, PendingLand
  <2> DEFINE g == [block |-> n, label |-> l, scopes |-> scopes]
  <2>2. EndOf(trace2, code', g.block) = PointOf(g.scopes)
    BY <1>3 DEF Closed
  <2> HIDE DEF g
  <2>3. /\ Len(gotos') = Len(gotos) + 1 /\ gotos'[Len(gotos) + 1] = g /\ Len(gotos) \in Nat
        /\ \A i \in 1 .. Len(gotos) : gotos'[i] = gotos[i]
    BY <1>1, <2>1, AppendIsSeq, SeqLen DEF g
  <2>4. \A i \in 1 .. Len(gotos) + 1 : i \in 1 .. Len(gotos) \/ i = Len(gotos) + 1
    BY <2>3
  <2>5. GotosMeet(trace2, code', gotos)
    BY <1>3 DEF Closed
  <2> QED BY <2>2, <2>3, <2>4, <2>5 DEF GotosMeet
<1> QED BY <1>1, <1>2, <1>3, <1>4, NextBlock DEF Closed, SameDepths

LEMMA IndirectRuns ==
  ASSUME Good, NEW home, NEW depth, NEW trace, Traces(trace, home), Building(trace, home, depth),
         NEW d, SameDepths(d, depth), IndirectGoto
  PROVE  \E trace2 : Traces(trace2, home)' /\ Building(trace2, home, d)'
<1> PICK n, ts : n = NumBlocks /\ ts = Append(term, [kind |-> "switch", to |-> {Unpatched}])
  OBVIOUS
<1> DEFINE g == [block |-> n, scopes |-> scopes, resolved |-> {}, to |-> {}]
<1>1. /\ phase = "lower" /\ code' = Append(code, stmts) /\ term' = ts /\ stmts' = << >>
      /\ UNCHANGED <<scopes, targets, gotos, frames, fresh>>
      /\ indirect' = Append(indirect, g)
  BY DEF IndirectGoto, Choose, PushTerminator
<1>2. n \in Nat /\ Len(ts) = n + 1
  BY DEF Good, NumBlocks
<1>3. PICK trace2 : Closed(trace2, home, depth, ts)
  <2>1. {Unpatched} \subseteq {Unpatched, NumBlocks + 1}
    OBVIOUS
  <2> QED BY <1>1, <2>1, CloseBlock
<1>4. IndirectMeet(trace2, code', indirect')
  <2>1. IsSeq(indirect)
    BY DEF Good, PendingLand
  <2>2. EndOf(trace2, code', g.block) = PointOf(g.scopes) /\ g.to = {}
    BY <1>3 DEF Closed
  <2> HIDE DEF g
  <2>3. /\ Len(indirect') = Len(indirect) + 1 /\ indirect'[Len(indirect) + 1] = g /\ Len(indirect) \in Nat
        /\ \A i \in 1 .. Len(indirect) : indirect'[i] = indirect[i]
    BY <1>1, <2>1, AppendIsSeq, SeqLen
  <2>4. \A i \in 1 .. Len(indirect) + 1 : i \in 1 .. Len(indirect) \/ i = Len(indirect) + 1
    BY <2>3
  <2>5. IndirectMeet(trace2, code', indirect)
    BY <1>3 DEF Closed
  <2> QED BY <2>2, <2>3, <2>4, <2>5 DEF IndirectMeet
<1> HIDE DEF g
<1> QED BY <1>1, <1>2, <1>3, <1>4, NextBlock DEF Closed, SameDepths

(* Returns and calls; Finish leaves a block no jump goes to.               *)
LEMMA EndRuns ==
  ASSUME Good, phase = "lower",
         NEW home, NEW depth, NEW trace, Traces(trace, home), Building(trace, home, depth),
         NEW d, SameDepths(d, depth), NEW kind, NEW to, to \subseteq {NumBlocks + 1},
         PushTerminator(kind, to), UNCHANGED <<scopes, targets, gotos, indirect, frames, fresh>>
  PROVE  \E trace2 : Traces(trace2, home)' /\ Building(trace2, home, d)'
<1> PICK n, ts : n = NumBlocks /\ ts = Append(term, [kind |-> kind, to |-> to])
  OBVIOUS
<1>1. code' = Append(code, stmts) /\ term' = ts /\ stmts' = << >>
  BY DEF PushTerminator
<1>2. n \in Nat /\ Len(ts) = n + 1
  BY DEF Good, NumBlocks
<1>3. PICK trace2 : Closed(trace2, home, depth, ts)
  <2>1. to \subseteq {Unpatched, NumBlocks + 1}
    OBVIOUS
  <2> QED BY <1>1, <2>1, CloseBlock
<1> QED BY <1>1, <1>2, <1>3, NextBlock DEF Closed, SameDepths

LEMMA BindLabelRuns ==
  ASSUME Good, NEW home, NEW depth, NEW trace, Traces(trace, home), Building(trace, home, depth),
         NEW d, SameDepths(d, depth), NEW l \in Labels, BindLabel(l)
  PROVE  \E trace2 : Traces(trace2, home)' /\ Building(trace2, home, d)'
<1> PICK n, ts : n = NumBlocks /\ ts = Append(term, [kind |-> "goto", to |-> {n + 1}])
  OBVIOUS
<1>1. phase = "lower" /\ UNCHANGED <<scopes, gotos, indirect, frames, fresh>>
  BY DEF BindLabel, Choose
<1>2. n \in Nat /\ Len(ts) = n + 1
  BY DEF Good, NumBlocks
<1>3. ASSUME NEW b, targets' = [targets EXCEPT ![l] = [block |-> b, scopes |-> scopes]],
             NEW t, LabelsMeet(t, targets), t[b][1] = PointOf(scopes)
      PROVE  LabelsMeet(t, targets')
  <2>1. targets = [k \in Labels |-> targets[k]]
    BY DEF Good, TargetsLand
  <2>2. /\ targets'[l].block = b /\ targets'[l].scopes = scopes
        /\ \A k \in Labels : k # l => targets'[k] = targets[k]
    BY <1>3, <2>1
  <2> SUFFICES ASSUME NEW k \in Labels, targets'[k] # Unbound
               PROVE  t[targets'[k].block][1] = PointOf(targets'[k].scopes)
    BY DEF LabelsMeet
  <2>3. CASE k = l
    BY <1>3, <2>2, <2>3
  <2>4. CASE k # l
    BY <1>3, <2>2, <2>4 DEF LabelsMeet
  <2> QED BY <2>3, <2>4
<1>4. CASE StartsBlock
  <2>1. /\ targets' = [targets EXCEPT ![l] = [block |-> n, scopes |-> scopes]]
        /\ UNCHANGED <<code, term, stmts>> /\ stmts = << >>
    BY <1>4 DEF BindLabel, StartsBlock
  <2>2. trace[n][1] = PointOf(scopes) /\ LabelsMeet(trace, targets)
    <3>1. Len(stmts) + 1 = 1
      BY <2>1, EmptyIsSeq
    <3> QED BY <3>1 DEF Building, Traces
  <2>3. LabelsMeet(trace, targets')
    BY <1>3, <2>1, <2>2
  <2>4. Storable(home)' = Storable(home) /\ NumBlocks' = NumBlocks
    BY <1>1, <2>1 DEF Storable, NumBlocks
  <2>5. Traces(trace, home)'
    BY <1>1, <2>1, <2>3, <2>4 DEF Traces
  <2>6. Building(trace, home, d)'
    BY <1>1, <2>1, <2>4 DEF Building, SameDepths
  <2> QED BY <2>5, <2>6
<1>5. CASE ~StartsBlock
  <2>1. /\ targets' = [targets EXCEPT ![l] = [block |-> n + 1, scopes |-> scopes]]
        /\ code' = Append(code, stmts) /\ term' = ts /\ stmts' = << >>
    BY <1>5 DEF BindLabel, PushTerminator
  <2>2. PICK trace2 : Closed(trace2, home, depth, ts)
    <3>1. {n + 1} \subseteq {Unpatched, NumBlocks + 1}
      OBVIOUS
    <3> QED BY <1>1, <2>1, <3>1, CloseBlock
  <2>3. LabelsMeet(trace2, targets) /\ trace2[n + 1][1] = PointOf(scopes)
    BY <2>2 DEF Closed
  <2>4. LabelsMeet(trace2, targets')
    BY <1>3, <2>1, <2>3
  <2> QED BY <1>1, <1>2, <2>1, <2>2, <2>4, NextBlock DEF Closed, SameDepths
<1> QED BY <1>4, <1>5

(* The sides of an If.                                                     *)
LEMMA EnterThenRuns ==
  ASSUME Good, NEW home, NEW depth, NEW trace, Traces(trace, home), Building(trace, home, depth),
         NEW d, SameDepths(d, depth), Scoped(home, d)', NEW c \in Conditions, EnterThen(c)
  PROVE  \E trace2 : Traces(trace2, home)' /\ Building(trace2, home, d)'
<1> PICK n, k : n = NumBlocks /\ k = IF c = "runtime" THEN "switch" ELSE "goto"
  OBVIOUS
<1> PICK m, ts : m = Len(frames) /\ ts = Append(term, [kind |-> k, to |-> {Unpatched}])
  OBVIOUS
<1> DEFINE f == [Frame("then", {}) EXCEPT !.entry = n, !.cond = c, !.thenStart = n + 1]
<1>1. /\ phase = "lower" /\ phase' = phase
      /\ code' = Append(code, stmts) /\ term' = ts /\ stmts' = << >>
      /\ UNCHANGED <<scopes, targets, gotos, indirect, fresh>>
      /\ frames' = Append(frames, f)
  BY DEF EnterThen, Choose, PushTerminator
<1>2. n \in Nat /\ Len(ts) = n + 1
  BY DEF Good, NumBlocks
<1>3. f.kind = "then" /\ f.entry = n /\ f.thenStart = n + 1
  BY DEF Frame
<1> HIDE DEF f
<1>4. PICK trace2 : Closed(trace2, home, depth, ts)
  <2>1. {Unpatched} \subseteq {Unpatched, NumBlocks + 1}
    OBVIOUS
  <2> QED BY <1>1, <2>1, CloseBlock
<1>5. IsSeq(frames) /\ m \in Nat
  BY SeqLen DEF Good, FramesOK, IsSeq
<1>6. /\ Len(frames') = m + 1 /\ frames'[m + 1] = f
      /\ \A i \in 1 .. m : frames'[i] = frames[i]
  BY <1>1, <1>5, AppendIsSeq
<1>7. PointAt(scopes, d[m + 1]) = PointOf(scopes)
  BY <1>1, <1>6 DEF Scoped, Nested, PointOf
<1>8. IfMeets(trace2, code', f, PointOf(scopes))
  BY <1>3, <1>4 DEF IfMeets, Closed
<1>9. ASSUME NEW i \in 1 .. m + 1 PROVE IfMeets(trace2, code', frames'[i], PointAt(scopes, d[i]))
  <2>1. CASE i = m + 1
    BY <1>6, <1>7, <1>8, <2>1
  <2>2. CASE i \in 1 .. m
    BY <1>4, <1>6, <2>2 DEF Closed, SameDepths
  <2> QED BY <1>5, <2>1, <2>2
<1>10. \A i \in 1 .. Len(frames') : IfMeets(trace2, code', frames'[i], PointAt(scopes, d[i]))
  BY <1>6, <1>9
<1> QED BY <1>1, <1>2, <1>4, <1>10, NextBlock DEF Closed

LEMMA EnterElseRuns ==
  ASSUME Good, NEW home, NEW depth, NEW trace, Traces(trace, home), Building(trace, home, depth),
         NEW d, SameDepths(d, depth), Scoped(home, d)', EnterElse
  PROVE  \E trace2 : Traces(trace2, home)' /\ Building(trace2, home, d)'
<1> PICK n, m, ts : n = NumBlocks /\ m = Len(frames) /\ ts = Append(term, [kind |-> "goto", to |-> {Unpatched}])
  OBVIOUS
<1> DEFINE f == [Last(frames) EXCEPT !.kind = "else", !.thenExit = n]
<1>1. /\ phase = "lower" /\ phase' = phase
      /\ code' = Append(code, stmts) /\ term' = ts /\ stmts' = << >>
      /\ UNCHANGED <<scopes, targets, gotos, indirect, fresh>>
      /\ frames' = SetLast(frames, f)
  BY DEF EnterElse, PushTerminator
<1>2. n \in Nat /\ Len(ts) = n + 1
  BY DEF Good, NumBlocks
<1>3. /\ IsSeq(frames) /\ m \in Nat /\ m > 0 /\ m \in 1 .. m /\ Last(frames) = frames[m]
      /\ frames[m] \in Frames /\ frames[m].kind = "then"
  <2>1. frames \in Seq(Frames) /\ IsSeq(frames) /\ m > 0
    BY DEF Good, FramesOK, IsSeq
  <2>2. Last(frames) = frames[m]
    BY <2>1, FrontIsSeq
  <2> QED BY <2>1, <2>2 DEF EnterElse
<1>4. /\ f.kind = "else" /\ f.thenExit = n /\ f.entry = frames[m].entry
      /\ f.thenStart = frames[m].thenStart
  BY <1>3 DEF Frames
<1> HIDE DEF f
<1>5. PICK trace2 : Closed(trace2, home, depth, ts)
  <2>1. {Unpatched} \subseteq {Unpatched, NumBlocks + 1}
    OBVIOUS
  <2> QED BY <1>1, <2>1, CloseBlock
<1>6. /\ Len(frames') = m /\ frames'[m] = f
      /\ \A i \in 1 .. m - 1 : frames'[i] = frames[i]
  BY <1>1, <1>3, SetLastIsSeq
<1>7. PointAt(scopes, d[m]) = PointOf(scopes)
  BY <1>1, <1>6 DEF Scoped, Nested, PointOf
<1>8. \A i \in 1 .. m : IfMeets(trace2, code', frames[i], PointAt(scopes, d[i]))
  BY <1>5 DEF Closed, SameDepths
<1>9. IfMeets(trace2, code', f, PointOf(scopes))
  <2>1. IfMeets(trace2, code', frames[m], PointOf(scopes))
    BY <1>3, <1>7, <1>8
  <2> QED BY <1>3, <1>4, <1>5, <2>1 DEF IfMeets, Closed
<1>10. ASSUME NEW i \in 1 .. m PROVE IfMeets(trace2, code', frames'[i], PointAt(scopes, d[i]))
  <2>1. CASE i = m
    BY <1>6, <1>7, <1>9, <2>1
  <2>2. CASE i \in 1 .. m - 1
    BY <1>6, <1>8, <2>2
  <2> QED BY <1>3, <2>1, <2>2
<1>11. \A i \in 1 .. Len(frames') : IfMeets(trace2, code', frames'[i], PointAt(scopes, d[i]))
  BY <1>6, <1>10
<1> QED BY <1>1, <1>2, <1>5, <1>11, NextBlock DEF Closed

LEMMA ExitIfRuns ==
  ASSUME Good, NEW home, NEW depth, NEW trace, Traces(trace, home), Building(trace, home, depth),
         Scoped(home, depth), NEW d, SameDepths(d, depth), ExitIf
  PROVE  \E trace2 : Traces(trace2, home)' /\ Building(trace2, home, d)'
<1> PICK n, m, f : n = NumBlocks /\ m = Len(frames) /\ f = Last(frames)
  OBVIOUS
<1> PICK closed : closed = Append(term, [kind |-> "goto", to |-> {n + 1}])
  OBVIOUS
<1> PICK ts2 : ts2 = Patched(closed, f.thenExit, {n + 1})
  OBVIOUS
<1> PICK ts : ts = Patched(ts2, f.entry, Branches(f))
  OBVIOUS
<1>1. /\ phase = "lower" /\ code' = Append(code, stmts) /\ term' = ts /\ stmts' = << >>
      /\ UNCHANGED <<scopes, targets, gotos, indirect, fresh>>
      /\ frames' = Front(frames) /\ f.kind = "else"
  BY DEF ExitIf
<1>2. n \in Nat /\ term \in Seq(Term) /\ Len(term) = n
  BY DEF Good, NumBlocks
<1>3. /\ IsSeq(frames) /\ m \in Nat /\ m > 0 /\ m \in 1 .. m /\ f = frames[m]
      /\ f \in Frames /\ FrameOK(f, n)
  <2>1. frames \in Seq(Frames) /\ IsSeq(frames) /\ m > 0
    BY DEF Good, FramesOK, IsSeq
  <2>2. Last(frames) = frames[m]
    BY <2>1, FrontIsSeq
  <2> QED BY <2>1, <2>2 DEF Good, FramesOK
<1>4. PICK trace2 : Closed(trace2, home, depth, closed)
  <2>1. {n + 1} \subseteq {Unpatched, NumBlocks + 1}
    OBVIOUS
  <2> QED BY <1>1, <2>1, CloseBlock
<1> PICK p, cs : p = PointOf(scopes) /\ cs = code'
  OBVIOUS
<1>5. IfMeets(trace2, cs, f, p)
  <2>1. PointAt(scopes, depth[m]) = p
    BY <1>1 DEF Scoped, Nested, PointOf
  <2> QED BY <1>3, <1>4, <2>1 DEF Closed
<1>6. /\ f.entry \in 0 .. n - 1 /\ f.thenExit \in 0 .. n - 1 /\ f.thenStart \in 1 .. n
      /\ EndOf(trace2, cs, f.entry) = p /\ EndOf(trace2, cs, f.thenExit) = p
      /\ trace2[f.thenStart][1] = p /\ trace2[f.thenExit + 1][1] = p /\ trace2[n + 1][1] = p
      /\ Len(cs) = n + 1
  <2>1. f.entry \in 0 .. n - 1 /\ f.thenExit \in 0 .. n - 1 /\ f.thenStart \in 1 .. n
    BY <1>1, <1>3 DEF FrameOK
  <2>2. /\ EndOf(trace2, cs, f.entry) = p /\ EndOf(trace2, cs, f.thenExit) = p
        /\ trace2[f.thenStart][1] = p /\ trace2[f.thenExit + 1][1] = p
    BY <1>1, <1>5 DEF IfMeets
  <2>3. trace2[n + 1][1] = p /\ Len(cs) = n + 1
    BY <1>4 DEF Closed
  <2> QED BY <2>1, <2>2, <2>3
<1>7. closed \in Seq(Term) /\ Len(closed) = n + 1 /\ Joins(trace2, cs, closed)
  <2>1. {n + 1} \in SUBSET Int
    BY <1>2
  <2> QED BY <1>2, <1>4, <2>1, PushTerm DEF Closed
<1>8. Closes(trace2, cs, ts2)
  <2> PICK c, to : c = f.thenExit /\ to = {n + 1}
    OBVIOUS
  <2>1. Closes(trace2, cs, closed)
    BY <1>6, <1>7 DEF Closes
  <2>2. c \in 0 .. Len(cs) - 1 /\ to \in SUBSET Int
    BY <1>2, <1>6
  <2>3. MayJoin(trace2, cs, c, to)
    BY <1>6 DEF Edge, MayJoin
  <2>4. Closes(trace2, cs, Patched(closed, c, to))
    BY ONLY <2>1, <2>2, <2>3, PatchedCloses
  <2> QED BY <2>4
<1>9. Len(ts) = n + 1 /\ Joins(trace2, cs, ts)
  <2> PICK c, to : c = f.entry /\ to = Branches(f)
    OBVIOUS
  <2>1. to \subseteq {f.thenStart, f.thenExit + 1}
    BY <1>3 DEF Branches, Frames
  <2>2. c \in 0 .. Len(cs) - 1 /\ to \in SUBSET Int
    BY <1>2, <1>6, <2>1
  <2>3. MayJoin(trace2, cs, c, to)
    BY <1>6, <2>1 DEF Edge, MayJoin
  <2>4. Closes(trace2, cs, Patched(ts2, c, to))
    BY ONLY <1>8, <2>2, <2>3, PatchedCloses
  <2> QED BY <1>6, <2>4 DEF Closes
<1>10. Closed(trace2, home, depth, ts)
  BY <1>4, <1>9 DEF Closed
<1>11. \A i \in 1 .. Len(frames') : i \in 1 .. m /\ frames'[i] = frames[i]
  <2>1. frames' = Front(frames) /\ IsSeq(frames) /\ m = Len(frames) /\ m \in Nat /\ m > 0
    BY <1>1, <1>3
  <2>2. Len(frames') = m - 1 /\ \A i \in 1 .. m - 1 : frames'[i] = frames[i]
    BY ONLY <2>1, FrontIsSeq
  <2>3. \A i \in 1 .. m - 1 : i \in 1 .. m
    BY <2>1
  <2> QED BY <2>2, <2>3
<1>12. \A i \in 1 .. Len(frames') : IfMeets(trace2, code', frames'[i], PointAt(scopes, d[i]))
  BY <1>4, <1>11 DEF Closed, SameDepths
<1> QED BY <1>1, <1>2, <1>9, <1>10, <1>12, NextBlock DEF Closed

(* Statements that leave blocks and scopes as they are.                    *)
LEMMA ExprRuns ==
  ASSUME Good, NEW home, NEW depth, NEW trace, Traces(trace, home), Building(trace, home, depth),
         NEW d, SameDepths(d, depth), EnterExpr \/ ExitExpr
  PROVE  Traces(trace, home)' /\ Building(trace, home, d)'
<1> PICK m : m = Len(frames)
  OBVIOUS
<1>1. phase = "lower" /\ UNCHANGED <<code, term, stmts, scopes, targets, gotos, indirect, fresh>>
  BY DEF EnterExpr, ExitExpr, Choose
<1>2. IsSeq(frames) /\ m \in Nat /\ m > 0
  BY SeqLen DEF Good, FramesOK, IsSeq
<1>3. SameIfs(depth, d)
  <2>1. ASSUME NEW i \in 1 .. Len(frames'), frames'[i].kind \in {"then", "else"}
        PROVE  i \in 1 .. m /\ frames'[i] = frames[i]
    <3>1. CASE EnterExpr
      <4>1. /\ Len(frames') = m + 1 /\ frames'[m + 1] = Frame("expr", {})
            /\ \A j \in 1 .. m : frames'[j] = frames[j]
        BY <1>2, <3>1, AppendIsSeq DEF EnterExpr
      <4>2. i # m + 1
        BY <2>1, <4>1 DEF Frame
      <4> QED BY <1>2, <4>1, <4>2
    <3>2. CASE ExitExpr
      BY <1>2, <3>2, FrontIsSeq DEF ExitExpr
    <3> QED BY <3>1, <3>2
  <2> QED BY <1>1, <2>1 DEF SameIfs, SameDepths
<1>4. Storable(home)' = Storable(home)
  BY <1>1 DEF Storable
<1> QED BY <1>1, <1>3, <1>4, NoStatement

LEMMA OtherRuns ==
  ASSUME Good, Lower,
         ~(\E ds \in SUBSET fresh : EnterBlock(ds)), ~ExitBlock, ~(\E x \in Locals : Decl(x)),
         ~(\E x \in Locals : Use(x)),
         NEW home, NEW depth, NEW trace, Traces(trace, home), Building(trace, home, depth),
         Scoped(home, depth), NEW d, SameDepths(d, depth), Scoped(home, d)'
  PROVE  \E trace2 : Traces(trace2, home)' /\ Building(trace2, home, d)'
<1>1. CASE EnterExpr \/ ExitExpr
  BY <1>1, ExprRuns
<1>2. ASSUME NEW l \in Labels, BindLabel(l) \/ Goto(l)
      PROVE  \E trace2 : Traces(trace2, home)' /\ Building(trace2, home, d)'
  BY <1>2, BindLabelRuns, GotoRuns
<1>3. CASE IndirectGoto
  BY <1>3, IndirectRuns
<1>4. CASE Return
  <2>1. {} \subseteq {NumBlocks + 1}
    OBVIOUS
  <2>2. /\ phase = "lower" /\ PushTerminator("return", {})
        /\ UNCHANGED <<scopes, targets, gotos, indirect, frames, fresh>>
    BY <1>4 DEF Return, Choose
  <2> QED BY <2>1, <2>2, EndRuns
<1>5. ASSUME NEW v \in BOOLEAN, Call(v)
      PROVE  \E trace2 : Traces(trace2, home)' /\ Building(trace2, home, d)'
  <2> PICK to : to = IF v THEN {} ELSE {NumBlocks + 1}
    OBVIOUS
  <2>1. to \subseteq {NumBlocks + 1}
    OBVIOUS
  <2>2. /\ phase = "lower" /\ PushTerminator("call", to)
        /\ UNCHANGED <<scopes, targets, gotos, indirect, frames, fresh>>
    BY <1>5 DEF Call, Choose
  <2> QED BY <2>1, <2>2, EndRuns
<1>6. ASSUME NEW c \in Conditions, EnterThen(c)
      PROVE  \E trace2 : Traces(trace2, home)' /\ Building(trace2, home, d)'
  BY <1>6, EnterThenRuns
<1>7. CASE EnterElse
  BY <1>7, EnterElseRuns
<1>8. CASE ExitIf
  BY <1>8, ExitIfRuns
<1>9. CASE Finish
  <2>1. {} \subseteq {NumBlocks + 1}
    OBVIOUS
  <2>2. /\ phase = "lower" /\ PushTerminator("return", {})
        /\ UNCHANGED <<scopes, targets, gotos, indirect, frames, fresh>>
    BY <1>9 DEF Finish
  <2> QED BY <2>1, <2>2, EndRuns
<1> QED BY <1>1, <1>2, <1>3, <1>4, <1>5, <1>6, <1>7, <1>8, <1>9 DEF Lower

-----------------------------------------------------------------------------
(***************************************************************************)
(* Scope transitions.  What two stacks of scopes have in common lives on;  *)
(* all else that lives in one is dead in the other.                        *)
(***************************************************************************)
LEMMA BeyondLocals ==
  ASSUME SnapInv, NEW home, Homes(home), NEW from \in Snapshots, NEW to \in Snapshots
  PROVE  LocalsAt(from, Beyond(from, to)) = PointOf(from).live \ PointOf(to).live
<1>1. /\ IsSeq(from) /\ IsSeq(to) /\ Agree(from, to)
      /\ DOMAIN from = 1 .. Len(from) /\ DOMAIN to = 1 .. Len(to) /\ Len(from) \in Nat /\ Len(to) \in Nat
  BY SeqDomain, SeqLen DEF SnapInv, Shaped
<1>2. \A i \in 1 .. Len(from) : from[i].id \in Nat /\ from[i].locals = home[from[i].id] /\ from[i].locals \subseteq Locals
  BY DEF Homes, ScopeOK, Scopes
<1>3. \A i \in 1 .. Len(to) : to[i].id \in Nat /\ to[i].locals = home[to[i].id] /\ to[i].locals \subseteq Locals
  BY DEF Homes, ScopeOK, Scopes
<1>4. ASSUME NEW i \in 1 .. Len(from), i \notin Beyond(from, to)
      PROVE  i \in 1 .. Len(to) /\ to[i].locals = from[i].locals
  <2>1. \A j \in 1 .. i : j <= Len(to) /\ from[j].id = to[j].id
    BY <1>1, <1>4 DEF Beyond
  <2>2. i \in 1 .. i
    OBVIOUS
  <2>3. i <= Len(to) /\ from[i].id = to[i].id
    BY <2>1, <2>2
  <2> QED BY <1>1, <1>2, <1>3, <2>3
<1>5. ASSUME NEW i \in Beyond(from, to), NEW j \in 1 .. Len(to), NEW x, x \in from[i].locals
      PROVE  x \notin to[j].locals
  <2> SUFFICES ASSUME x \in to[j].locals PROVE FALSE
    OBVIOUS
  <2>1. i \in 1 .. Len(from)
    BY <1>1 DEF Beyond
  <2>2. from[i].id = to[j].id
    BY <1>2, <1>3, <1>5, <2>1 DEF Homes
  <2>3. i = j /\ \A k \in 1 .. i : from[k].id = to[k].id
    BY <1>1, <2>1, <2>2 DEF Agree
  <2>4. PICK k \in 1 .. i : k > Len(to) \/ from[k].id # to[k].id
    BY DEF Beyond
  <2>5. k <= Len(to) /\ from[k].id = to[k].id
    BY <1>1, <2>3
  <2> QED BY <1>1, <2>4, <2>5
<1>6. Beyond(from, to) \subseteq 1 .. Len(from)
  BY <1>1 DEF Beyond
<1>7. ASSUME NEW x
      PROVE  x \in LocalsAt(from, Beyond(from, to))
               <=> x \in PointOf(from).live /\ x \notin PointOf(to).live
  <2>1. ASSUME x \in LocalsAt(from, Beyond(from, to))
        PROVE  x \in PointOf(from).live /\ x \notin PointOf(to).live
    <3>1. PICK i \in Beyond(from, to) : x \in from[i].locals
      BY <2>1 DEF LocalsAt
    <3> QED BY <1>2, <1>5, <1>6, <3>1 DEF PointOf, PointAt
  <2>2. ASSUME x \in PointOf(from).live, x \notin PointOf(to).live
        PROVE  x \in LocalsAt(from, Beyond(from, to))
    <3>1. PICK i \in 1 .. Len(from) : x \in from[i].locals
      BY <2>2 DEF PointOf, PointAt
    <3>2. CASE i \in Beyond(from, to)
      BY <3>1, <3>2 DEF LocalsAt
    <3>3. CASE i \notin Beyond(from, to)
      BY <1>2, <1>4, <2>2, <3>1, <3>3 DEF PointOf, PointAt
    <3> QED BY <3>2, <3>3
  <2> QED BY <2>1, <2>2
<1> QED BY <1>7

LEMMA VlasStay ==
  ASSUME SnapInv, NEW home, Homes(home), NEW from \in Snapshots, NEW to \in Snapshots,
         ~EntersVla(from, to), NEW p, p = PointOf(from), NEW q, q = PointOf(to)
  PROVE  q.vlas \subseteq p.vlas /\ q.vlas \subseteq q.live /\ p.vlas \subseteq p.live
<1>1. /\ DOMAIN from = 1 .. Len(from) /\ DOMAIN to = 1 .. Len(to)
      /\ VlasOf(to) \subseteq VlasOf(from)
  BY SeqDomain DEF SnapInv, Shaped, EntersVla
<1>2. q.vlas \subseteq p.vlas
  BY <1>1 DEF VlasOf, PointOf, PointAt
<1>3. ASSUME NEW s \in Snapshots PROVE PointOf(s).vlas \subseteq PointOf(s).live
  BY DEF Homes, ScopeOK, PointOf, PointAt
<1> QED BY <1>2, <1>3

LEMMA HomedSnapshots ==
  ASSUME NEW home, Homes(home), NEW s \in Snapshots PROVE PointOf(s).live \subseteq Homed(home)
BY DEF Homes, ScopeOK, Scopes, PointOf, PointAt, Homed

(* The statements between the two, as scope_transition emits them.         *)
LEMMA OneMove ==
  ASSUME NEW s, NEW e, s = <<e>> PROVE IsSeq(s) /\ Len(s) = 1 /\ s[1] = e /\ s # << >>
<1>1. <<e>> \in Seq({e})
  OBVIOUS
<1>2. IsSeq(s)
  BY <1>1 DEF IsSeq
<1>3. Len(s) = 1 /\ s[1] = e /\ s # << >>
  OBVIOUS
<1> QED BY <1>2, <1>3

LEMMA TwoIsSeq ==
  ASSUME NEW a, NEW b
  PROVE  /\ IsSeq(<<a>> \o <<b>>) /\ Len(<<a>> \o <<b>>) = 2
         /\ (<<a>> \o <<b>>)[1] = a /\ (<<a>> \o <<b>>)[2] = b
<1>1. <<a>> \in Seq({a, b}) /\ <<b>> \in Seq({a, b})
  OBVIOUS
<1>2. /\ Len(<<a>>) = 1 /\ Len(<<b>>) = 1 /\ <<a>>[1] = a /\ <<b>>[1] = b
  OBVIOUS
<1> DEFINE r == <<a>> \o <<b>>
<1>3. /\ r \in Seq({a, b}) /\ Len(r) = Len(<<a>>) + Len(<<b>>)
      /\ \A i \in 1 .. Len(<<a>>) + Len(<<b>>) :
            r[i] = IF i <= Len(<<a>>) THEN <<a>>[i] ELSE <<b>>[i - Len(<<a>>)]
  BY <1>1, ConcatProperties
<1> HIDE DEF r
<1>4. IsSeq(r)
  BY <1>3 DEF IsSeq
<1>5. Len(r) = 2 /\ r[1] = a /\ r[2] = b
  BY <1>2, <1>3
<1> QED BY <1>4, <1>5 DEF r

Dead(d) == [op |-> "dead", on |-> d]
Alive(l) == [op |-> "live", on |-> l]
Moves(d, l) == Move("dead", d) \o Move("live", l)

LEMMA MovesAre ==
  ASSUME NEW d, NEW l, NEW D, D = Dead(d), NEW L, L = Alive(l), NEW ss, ss = Moves(d, l)
  PROVE  /\ IsSeq(ss)
         /\ d = {} /\ l = {} => ss = << >>
         /\ d = {} /\ l # {} => ss # << >> /\ Len(ss) = 1 /\ ss[1] = L
         /\ d # {} /\ l = {} => ss # << >> /\ Len(ss) = 1 /\ ss[1] = D
         /\ d # {} /\ l # {} => ss # << >> /\ Len(ss) = 2 /\ ss[1] = D /\ ss[2] = L
<1>1. << >> \o << >> = << >> /\ << >> \o <<L>> = <<L>> /\ <<D>> \o << >> = <<D>>
  <2>1. <<D>> \in Seq({D}) /\ <<L>> \in Seq({L}) /\ << >> \in Seq({D})
    OBVIOUS
  <2> QED BY <2>1, ConcatEmptySeq
<1>2. IsSeq(<< >>)
  BY EmptyIsSeq
<1>3. /\ IsSeq(<<D>> \o <<L>>) /\ Len(<<D>> \o <<L>>) = 2
      /\ (<<D>> \o <<L>>)[1] = D /\ (<<D>> \o <<L>>)[2] = L
  BY TwoIsSeq
<1>4. /\ d = {} => Move("dead", d) = << >>
      /\ d # {} => Move("dead", d) = <<D>>
      /\ l = {} => Move("live", l) = << >>
      /\ l # {} => Move("live", l) = <<L>>
  BY DEF Move, Dead, Alive
<1>5. /\ d = {} /\ l = {} => ss = << >>
      /\ d = {} /\ l # {} => ss = <<L>>
      /\ d # {} /\ l = {} => ss = <<D>>
      /\ d # {} /\ l # {} => ss = <<D>> \o <<L>>
  BY <1>1, <1>4 DEF Moves
<1>6. CASE d = {} /\ l = {}
  BY <1>2, <1>5, <1>6
<1>7. CASE d = {} /\ l # {}
  <2>1. ss = <<L>>
    BY <1>5, <1>7
  <2>2. IsSeq(ss) /\ Len(ss) = 1 /\ ss[1] = L /\ ss # << >>
    BY ONLY <2>1, OneMove
  <2> QED BY <1>7, <2>2
<1>8. CASE d # {} /\ l = {}
  <2>1. ss = <<D>>
    BY <1>5, <1>8
  <2>2. IsSeq(ss) /\ Len(ss) = 1 /\ ss[1] = D /\ ss # << >>
    BY ONLY <2>1, OneMove
  <2> QED BY <1>8, <2>2
<1>9. CASE d # {} /\ l # {}
  <2>1. ss = <<D>> \o <<L>>
    BY <1>5, <1>9
  <2>2. IsSeq(ss) /\ Len(ss) = 2 /\ ss[1] = D /\ ss[2] = L
    BY <1>3, <2>1
  <2>3. ss # << >>
    <3>1. Len(<< >>) = 0
      OBVIOUS
    <3> QED BY <2>2, <3>1
  <2> QED BY <1>9, <2>2, <2>3
<1> QED BY <1>6, <1>7, <1>8, <1>9

(* ss leads from p to q.                                                   *)
Leads(home, K, p, q, ss) ==
  /\ IsSeq(ss)
  /\ ss = << >> => Edge(p, q)
  /\ ss # << >> => \E row : row \in [Nat -> Points] /\ Runs(home, K, row, ss)
                           /\ row[1] = p /\ row[Len(ss) + 1] = q

LEMMA RowOfMoves ==
  ASSUME NEW home, NEW K, NEW p \in Points, NEW q \in Points,
         NEW d, NEW l, d = p.live \ q.live, l = q.live \ p.live, l \subseteq Homed(home),
         q.vlas \subseteq p.vlas, q.vlas \subseteq q.live, p.vlas \subseteq p.live,
         NEW ss, ss = Moves(d, l)
  PROVE  Leads(home, K, p, q, ss)
<1> PICK D, L : D = Dead(d) /\ L = Alive(l)
  OBVIOUS
<1> DEFINE mid == [live |-> p.live \ d, vlas |-> p.vlas \ d]
           two == [i \in Nat |-> IF i = 1 THEN p ELSE q]
           three == [i \in Nat |-> IF i = 1 THEN p ELSE IF i = 2 THEN mid ELSE q]
<1>1. /\ IsSeq(ss)
      /\ d = {} /\ l = {} => ss = << >>
      /\ d = {} /\ l # {} => ss # << >> /\ Len(ss) = 1 /\ ss[1] = L
      /\ d # {} /\ l = {} => ss # << >> /\ Len(ss) = 1 /\ ss[1] = D
      /\ d # {} /\ l # {} => ss # << >> /\ Len(ss) = 2 /\ ss[1] = D /\ ss[2] = L
  BY ONLY MovesAre, D = Dead(d), L = Alive(l), ss = Moves(d, l)
<1>2. mid \in Points
  BY DEF Points
<1>3. Step(home, K, p, D, mid) /\ Step(home, K, mid, L, q)
  BY DEF Step, Dead, Alive
<1>4. l = {} => Step(home, K, p, D, q)
  BY DEF Step, Dead, Alive
<1>5. d = {} => Step(home, K, p, L, q)
  BY DEF Step, Dead, Alive
<1>6. /\ two \in [Nat -> Points] /\ two[1] = p /\ two[1 + 1] = q
      /\ three \in [Nat -> Points] /\ three[1] = p /\ three[1 + 1] = mid /\ three[2] = mid
      /\ three[2 + 1] = q
  BY <1>2
<1> HIDE DEF mid, two, three
<1>7. CASE d = {} /\ l = {}
  BY <1>1, <1>7 DEF Edge, Leads
<1>8. CASE d = {} /\ l # {}
  <2>1. ss # << >> /\ Len(ss) = 1 /\ ss[1] = L
    BY <1>1, <1>8
  <2>2. Runs(home, K, two, ss)
    BY <1>5, <1>6, <1>8, <2>1 DEF Runs
  <2> QED BY <1>1, <1>6, <2>1, <2>2 DEF Leads
<1>9. CASE d # {} /\ l = {}
  <2>1. ss # << >> /\ Len(ss) = 1 /\ ss[1] = D
    BY <1>1, <1>9
  <2>2. Runs(home, K, two, ss)
    BY <1>4, <1>6, <1>9, <2>1 DEF Runs
  <2> QED BY <1>1, <1>6, <2>1, <2>2 DEF Leads
<1>10. CASE d # {} /\ l # {}
  <2>1. ss # << >> /\ Len(ss) = 2 /\ ss[1] = D /\ ss[2] = L
    BY <1>1, <1>10
  <2>2. Runs(home, K, three, ss)
    <3>1. Step(home, K, three[1], ss[1], three[1 + 1]) /\ Step(home, K, three[2], ss[2], three[2 + 1])
      BY <1>3, <1>6, <2>1
    <3>2. \A i \in 1 .. Len(ss) : i = 1 \/ i = 2
      <4>1. Len(ss) = 2
        BY <2>1
      <4> QED BY ONLY <4>1
    <3> QED BY ONLY <3>1, <3>2 DEF Runs
  <2> QED BY <1>1, <1>6, <2>1, <2>2 DEF Leads
<1> QED BY <1>7, <1>8, <1>9, <1>10

LEMMA TraceRow ==
  ASSUME NEW trace, IsTrace(trace), NEW n \in Nat, NEW row \in [Nat -> Points]
  PROVE  \E trace2 : /\ IsTrace(trace2) /\ trace2[n] = row
                     /\ \A c \in Nat : c # n => trace2[c] = trace[c]
<1> DEFINE trace2 == [trace EXCEPT ![n] = row]
<1>1. /\ IsTrace(trace2) /\ trace2[n] = row
      /\ \A c \in Nat : c # n => trace2[c] = trace[c]
  BY DEF IsTrace
<1> HIDE DEF trace2
<1> QED BY <1>1

-----------------------------------------------------------------------------
(* Patching.                                                               *)
LEMMA StorageRow ==
  ASSUME SnapInv, NEW home, Homes(home), NEW K, NEW from \in Snapshots, NEW to \in Snapshots,
         ~EntersVla(from, to), NEW p, p = PointOf(from), NEW q, q = PointOf(to),
         NEW ss, ss = Storage(from, to)
  PROVE  Leads(home, K, p, q, ss)
<1> PICK d, l : d = p.live \ q.live /\ l = q.live \ p.live
  OBVIOUS
<1>1. LocalsAt(from, Beyond(from, to)) = d /\ LocalsAt(to, Beyond(to, from)) = l
  BY BeyondLocals
<1>2. ss = Moves(d, l)
  BY <1>1 DEF Storage, Moves
<1>3. p \in Points /\ q \in Points
  BY PointRange DEF PointOf
<1>4. l \subseteq Homed(home)
  BY HomedSnapshots
<1>5. q.vlas \subseteq p.vlas /\ q.vlas \subseteq q.live /\ p.vlas \subseteq p.live
  BY VlasStay
<1>6. p \in Points
  BY <1>3
<1>7. q \in Points
  BY <1>3
<1>8. d = p.live \ q.live /\ l = q.live \ p.live
  OBVIOUS
<1> QED BY ONLY <1>2, <1>4, <1>5, <1>6, <1>7, <1>8, RowOfMoves

(* The blocks with one more in front of a label's, from the scopes of a    *)
(* jump to it.                                                             *)
Transited(trace2, home, cs, ts, from, to) ==
  /\ Len(cs) = Len(ts) /\ Traced(trace2, home, Storable(home), cs) /\ Joins(trace2, cs, ts)
  /\ LabelsMeet(trace2, targets) /\ GotosMeet(trace2, cs, gotos) /\ IndirectMeet(trace2, cs, indirect)
  /\ Edge(PointOf(from), trace2[to][1])

LEMMA TransitRuns ==
  ASSUME Good, SnapInv, phase = "patch", NEW home, Homes(home), NEW trace, Traces(trace, home),
         NEW from \in Snapshots, NEW l \in Labels, targets[l] # Unbound,
         ~EntersVla(from, targets[l].scopes), NEW t, t = Transit(from, l)
  PROVE  \E trace2 : Transited(trace2, home, t.code, t.term, from, t.to)
<1> PICK n, p, q, to, ss : /\ n = NumBlocks /\ p = PointOf(from) /\ q = PointOf(targets[l].scopes)
                           /\ to = targets[l].block /\ ss = Storage(from, targets[l].scopes)
  OBVIOUS
<1>1. /\ n \in Nat /\ Len(code) = n /\ Len(term) = n /\ to \in 1 .. n - 1
      /\ Traced(trace, home, Storable(home), code) /\ IsTrace(trace) /\ IsSeq(code) /\ IsSeq(term)
      /\ Joins(trace, code, term) /\ LabelsMeet(trace, targets)
      /\ GotosMeet(trace, code, gotos) /\ IndirectMeet(trace, code, indirect)
  BY DEF Good, NumBlocks, TargetsLand, Span, Traces, Traced, IsSeq
<1>2. trace[to][1] = q
  BY <1>1 DEF LabelsMeet
<1>3. targets[l].scopes \in Snapshots
  BY DEF Snapshots
<1>4. Leads(home, Storable(home), p, q, ss)
  BY <1>3, StorageRow
<1>9. IsSeq(ss)
  BY <1>4 DEF Leads
<1>5. CASE ss = << >>
  <2>1. t.code = code /\ t.term = term /\ t.to = to
    BY <1>5 DEF Transit
  <2>2. Transited(trace, home, code, term, from, to)
    BY <1>1, <1>2, <1>4, <1>5 DEF Transited, Leads
  <2> QED BY <2>1, <2>2
<1>6. CASE ss # << >>
  <2>1. PICK row : row \in [Nat -> Points] /\ Runs(home, Storable(home), row, ss)
                     /\ row[1] = p /\ row[Len(ss) + 1] = q
    BY <1>4, <1>6 DEF Leads
  <2>2. PICK trace2 : IsTrace(trace2) /\ trace2[n] = row /\ \A c \in Nat : c # n => trace2[c] = trace[c]
    BY <1>1, <2>1, TraceRow
  <2>3. Prolongs(trace2, trace, n, n - 1)
    <3>1. \A b \in 0 .. n - 1 : b \in Nat /\ b # n
      BY <1>1
    <3>2. \A b \in 1 .. n - 1 : b \in Nat /\ b # n
      BY <1>1
    <3>3. 0 \in Nat /\ 0 # n
      BY <1>1
    <3> QED BY <2>2, <3>1, <3>2, <3>3 DEF Prolongs
  <2>4. PICK cs, ts : /\ cs = Append(code, ss)
                      /\ ts = Append(term, [kind |-> "goto", to |-> {to}])
    OBVIOUS
  <2>5. t.code = cs /\ t.term = ts /\ t.to = n
    BY <1>6, <2>4 DEF Transit
  <2>6. Traced(trace2, home, Storable(home), cs)
    <3>1. Traced(trace2, home, Storable(home), code)
      BY <1>1, <2>3, ProlongedTrace
    <3>2. Runs(home, Storable(home), trace2[n], ss)
      BY <2>1, <2>2
    <3> QED BY <1>1, <1>9, <2>4, <3>1, <3>2, ClosedTrace
  <2>7. trace2[to][1] = q
    BY <1>1, <1>2, <2>3 DEF Prolongs
  <2>8. Joins(trace2, cs, ts)
    <3>1. \A b \in 1 .. n : term[b].to \subseteq {Unpatched} \cup 1 .. n - 1
      BY <1>1 DEF Good, TermsLand, Span
    <3>2. Joins(trace2, code, term)
      BY <1>1, <2>3, <3>1, ProlongedJoins
    <3>3. \A x \in {to} : x = Unpatched \/ Edge(trace2[n][Len(ss) + 1], trace2[x][1])
      BY <2>1, <2>2, <2>7 DEF Edge
    <3> QED BY <1>1, <2>4, <3>2, <3>3, ClosedJoins
  <2>9. LabelsMeet(trace2, targets)
    <3>1. \A x \in Labels : targets[x] # Unbound => targets[x].block \in 1 .. n - 1
      BY DEF Good, TargetsLand, Span
    <3> QED BY <1>1, <2>3, <3>1, ProlongedLabels
  <2>10. GotosMeet(trace2, cs, gotos)
    <3>1. \A i \in 1 .. Len(gotos) : gotos[i].block \in 0 .. n - 1
      BY DEF Good, PendingLand, Indices
    <3>2. GotosMeet(trace2, code, gotos)
      BY <1>1, <2>3, <3>1, ProlongedGotos
    <3> QED BY <1>1, <2>4, <3>1, <3>2, ClosedMeets
  <2>11. IndirectMeet(trace2, cs, indirect)
    <3>1. \A i \in 1 .. Len(indirect) : indirect[i].block \in 0 .. n - 1 /\ indirect[i].to \subseteq 1 .. n - 1
      BY DEF Good, PendingLand, Indices, Span
    <3>2. IndirectMeet(trace2, code, indirect)
      BY <1>1, <2>3, <3>1, ProlongedIndirect
    <3> QED BY <1>1, <2>4, <3>1, <3>2, ClosedMeets
  <2>12. Len(cs) = Len(ts)
    <3>1. Len(cs) = n + 1 /\ Len(ts) = n + 1
      BY <1>1, <2>4, AppendIsSeq
    <3> QED BY <3>1
  <2>13. Edge(PointOf(from), trace2[n][1])
    BY <2>1, <2>2 DEF Edge
  <2>14. Transited(trace2, home, cs, ts, from, n)
    BY ONLY <2>6, <2>8, <2>9, <2>10, <2>11, <2>12, <2>13 DEF Transited
  <2> QED BY <2>5, <2>14
<1> QED BY <1>5, <1>6

LEMMA TailMeets ==
  ASSUME NEW trace, NEW cs, NEW gs, IsSeq(gs), Len(gs) > 0
  PROVE  /\ GotosMeet(trace, cs, gs) => GotosMeet(trace, cs, Tail(gs))
         /\ IndirectMeet(trace, cs, gs) => IndirectMeet(trace, cs, Tail(gs))
<1>1. /\ Len(Tail(gs)) = Len(gs) - 1 /\ Len(gs) \in Nat
      /\ \A i \in 1 .. Len(gs) - 1 : Tail(gs)[i] = gs[i + 1]
  BY TailIsSeq, SeqLen
<1>2. \A i \in 1 .. Len(Tail(gs)) : i + 1 \in 1 .. Len(gs) /\ Tail(gs)[i] = gs[i + 1]
  BY <1>1
<1> HIDE DEF IsSeq
<1>3. ASSUME GotosMeet(trace, cs, gs) PROVE GotosMeet(trace, cs, Tail(gs))
  BY <1>2, <1>3 DEF GotosMeet
<1>4. ASSUME IndirectMeet(trace, cs, gs) PROVE IndirectMeet(trace, cs, Tail(gs))
  BY <1>2, <1>4 DEF IndirectMeet
<1> QED BY <1>3, <1>4

LEMMA NotRejected ==
  ASSUME NEW from, NEW l, Rejected(from, l) = "no"
  PROVE  targets[l] # Unbound /\ ~EntersVla(from, targets[l].scopes)
BY DEF Rejected

LEMMA PatchGotoRuns ==
  ASSUME Good, SnapInv, NEW home, Homes(home), NEW trace, Traces(trace, home), PatchGoto
  PROVE  phase' = "patch" => \E trace2 : Traces(trace2, home)'
<1> SUFFICES ASSUME phase' = "patch" PROVE \E trace2 : Traces(trace2, home)'
  OBVIOUS
<1> PICK g, n : g = Head(gotos) /\ n = NumBlocks
  OBVIOUS
<1> PICK t : t = Transit(g.scopes, g.label)
  OBVIOUS
<1>1. Rejected(g.scopes, g.label) = "no"
  BY DEF PatchGoto, Fail, Rejected
<1>2. /\ phase = "patch" /\ gotos # << >> /\ code' = t.code /\ term' = Patched(t.term, g.block, {t.to})
      /\ gotos' = Tail(gotos) /\ UNCHANGED <<targets, indirect, fresh>>
  BY <1>1 DEF PatchGoto
<1>3. /\ IsSeq(gotos) /\ Len(gotos) > 0 /\ Len(gotos) \in Nat /\ g = gotos[1] /\ 1 \in 1 .. Len(gotos)
  <2>1. IsSeq(gotos) /\ Len(gotos) > 0 /\ Len(gotos) \in Nat
    BY <1>2, NonEmpty, SeqLen DEF Good, PendingLand
  <2> QED BY <2>1, TailIsSeq
<1>4. g.block \in 0 .. n - 1 /\ g.label \in Labels /\ g.scopes \in Snapshots
  <2>1. 1 \in DOMAIN gotos
    BY <1>3, SeqDomain
  <2> QED BY <1>3, <2>1 DEF Good, PendingLand, Indices, Snapshots
<1>5. targets[g.label] # Unbound /\ ~EntersVla(g.scopes, targets[g.label].scopes)
  BY <1>1, NotRejected
<1>6. PICK trace2 : Transited(trace2, home, t.code, t.term, g.scopes, t.to)
  BY <1>2, <1>4, <1>5, TransitRuns
<1>7. /\ t.term \in Seq(Term) /\ Len(t.term) \in {n, n + 1} /\ t.to \in 1 .. Len(t.term) - 1
      /\ n \in Nat
  BY <1>2, <1>4, <1>5, TransitLands DEF Good, NumBlocks
<1> PICK cs, ts, p : cs = t.code /\ ts = t.term /\ p = Patched(t.term, g.block, {t.to})
  OBVIOUS
<1>8. /\ Len(cs) = Len(ts) /\ Traced(trace2, home, Storable(home), cs) /\ Joins(trace2, cs, ts)
      /\ LabelsMeet(trace2, targets) /\ GotosMeet(trace2, cs, gotos) /\ IndirectMeet(trace2, cs, indirect)
      /\ Edge(PointOf(g.scopes), trace2[t.to][1])
  BY <1>6 DEF Transited
<1>9. EndOf(trace2, cs, g.block) = PointOf(g.scopes)
  BY <1>3, <1>8 DEF GotosMeet
<1>10. ts \in Seq(Term) /\ g.block \in 0 .. Len(ts) - 1 /\ {t.to} \in SUBSET Int
  BY <1>4, <1>7
<1>11. Len(p) = Len(ts)
  BY ONLY <1>10, p = Patched(t.term, g.block, {t.to}), ts = t.term, PatchTerm
<1>12. Joins(trace2, cs, p)
  <2>1. \A x \in {t.to} : x = Unpatched \/ Edge(EndOf(trace2, cs, g.block), trace2[x][1])
    BY <1>8, <1>9
  <2> PICK c, to : c = g.block /\ to = {t.to}
    OBVIOUS
  <2>2. ts \in Seq(Term) /\ c \in 0 .. Len(cs) - 1 /\ to \in SUBSET Int
    BY <1>8, <1>10
  <2>3. Len(ts) = Len(cs) /\ Joins(trace2, cs, ts)
    BY <1>8
  <2>4. \A x \in to : x = Unpatched \/ Edge(EndOf(trace2, cs, c), trace2[x][1])
    BY <2>1
  <2>5. p = Patched(ts, c, to)
    OBVIOUS
  <2> QED BY ONLY <2>2, <2>3, <2>4, <2>5, PatchedJoins
<1>13. GotosMeet(trace2, cs, gotos')
  BY <1>2, <1>3, <1>8, TailMeets
<1>14. Storable(home)' = Storable(home) /\ NumBlocks' = Len(p)
  BY <1>2 DEF Storable, NumBlocks
<1>15. Traces(trace2, home)'
  BY <1>2, <1>8, <1>11, <1>12, <1>13, <1>14 DEF Traces
<1> QED BY <1>15

LEMMA PatchIndirectLabelRuns ==
  ASSUME Good, SnapInv, NEW home, Homes(home), NEW trace, Traces(trace, home),
         NEW l \in Labels, PatchIndirectLabel(l)
  PROVE  phase' = "patch" => \E trace2 : Traces(trace2, home)'
<1> SUFFICES ASSUME phase' = "patch" PROVE \E trace2 : Traces(trace2, home)'
  OBVIOUS
<1> PICK g, n : g = Head(indirect) /\ n = NumBlocks
  OBVIOUS
<1> PICK t : t = Transit(g.scopes, l)
  OBVIOUS
<1> PICK e : e = [block |-> g.block, scopes |-> g.scopes,
                  resolved |-> g.resolved \cup {l}, to |-> g.to \cup {t.to}]
  OBVIOUS
<1>1. Rejected(g.scopes, l) = "no"
  BY DEF PatchIndirectLabel, Fail, Rejected
<1>2. /\ phase = "patch" /\ indirect # << >> /\ code' = t.code /\ term' = t.term
      /\ indirect' = <<e>> \o Tail(indirect) /\ UNCHANGED <<targets, gotos, fresh>>
  BY <1>1 DEF PatchIndirectLabel
<1>3. IsSeq(indirect) /\ Len(indirect) > 0 /\ Len(indirect) \in Nat
  BY <1>2, NonEmpty, SeqLen DEF Good, PendingLand
<1>4. /\ Len(indirect') = Len(indirect) /\ indirect'[1] = e /\ g = indirect[1]
      /\ \A i \in 2 .. Len(indirect) : indirect'[i] = indirect[i]
  BY <1>2, <1>3, SetFirstIsSeq, TailIsSeq
<1>5. g.scopes \in Snapshots
  <2>1. 1 \in DOMAIN indirect
    BY <1>3, SeqDomain
  <2> QED BY <1>4, <2>1 DEF Snapshots
<1>6. targets[l] # Unbound /\ ~EntersVla(g.scopes, targets[l].scopes)
  BY <1>1, NotRejected
<1>7. PICK trace2 : Transited(trace2, home, t.code, t.term, g.scopes, t.to)
  BY <1>2, <1>5, <1>6, TransitRuns
<1>8. /\ Len(code') = Len(term') /\ Traced(trace2, home, Storable(home), code') /\ Joins(trace2, code', term')
      /\ LabelsMeet(trace2, targets) /\ GotosMeet(trace2, code', gotos)
      /\ IndirectMeet(trace2, code', indirect) /\ Edge(PointOf(g.scopes), trace2[t.to][1])
  BY <1>2, <1>7 DEF Transited
<1>9. IndirectMeet(trace2, code', indirect')
  <2>1. ASSUME NEW i \in 1 .. Len(indirect')
        PROVE  /\ EndOf(trace2, code', indirect'[i].block) = PointOf(indirect'[i].scopes)
               /\ \A x \in indirect'[i].to : Edge(EndOf(trace2, code', indirect'[i].block), trace2[x][1])
    <3>1. CASE i = 1
      <4>1. /\ EndOf(trace2, code', g.block) = PointOf(g.scopes)
            /\ \A x \in g.to : Edge(EndOf(trace2, code', g.block), trace2[x][1])
        BY <1>3, <1>4, <1>8 DEF IndirectMeet
      <4>2. indirect'[i].block = g.block /\ indirect'[i].scopes = g.scopes /\ indirect'[i].to = g.to \cup {t.to}
        BY <1>4, <3>1
      <4> QED BY <1>8, <4>1, <4>2
    <3>2. CASE i # 1
      <4>1. i \in 1 .. Len(indirect) /\ indirect'[i] = indirect[i]
        BY <1>3, <1>4, <3>2
      <4> QED BY <1>8, <4>1 DEF IndirectMeet
    <3> QED BY <3>1, <3>2
  <2> QED BY <2>1 DEF IndirectMeet
<1>10. Storable(home)' = Storable(home) /\ NumBlocks' = Len(term')
  BY <1>2 DEF Storable, NumBlocks
<1>11. Traces(trace2, home)'
  BY <1>2, <1>8, <1>9, <1>10 DEF Traces
<1> QED BY <1>11

LEMMA PatchIndirectRuns ==
  ASSUME Good, NEW home, NEW trace, Traces(trace, home), PatchIndirect
  PROVE  phase' = "patch" => Traces(trace, home)'
<1> SUFFICES ASSUME phase' = "patch" PROVE Traces(trace, home)'
  OBVIOUS
<1> PICK g, n, p : g = Head(indirect) /\ n = NumBlocks /\ p = Patched(term, Head(indirect).block, Head(indirect).to)
  OBVIOUS
<1>1. /\ indirect # << >> /\ phase = "patch" /\ term' = p /\ indirect' = Tail(indirect)
      /\ UNCHANGED <<code, targets, gotos, fresh>>
  BY DEF PatchIndirect, Fail
<1>2. IsSeq(indirect) /\ Len(indirect) > 0 /\ g = indirect[1] /\ 1 \in 1 .. Len(indirect)
  <2>1. IsSeq(indirect) /\ Len(indirect) > 0 /\ Len(indirect) \in Nat
    BY <1>1, NonEmpty, SeqLen DEF Good, PendingLand
  <2> QED BY <2>1, TailIsSeq
<1> PICK c, to : c = g.block /\ to = g.to
  OBVIOUS
<1>3. /\ term \in Seq(Term) /\ Len(term) = n /\ n \in Nat /\ c \in 0 .. n - 1 /\ to \subseteq 1 .. n - 1
      /\ Len(code) = n
  BY <1>1, <1>2 DEF Good, PendingLand, Span, Indices, NumBlocks, Traces
<1>4. /\ Joins(trace, code, term) /\ IndirectMeet(trace, code, indirect)
      /\ Traced(trace, home, Storable(home), code) /\ LabelsMeet(trace, targets)
      /\ GotosMeet(trace, code, gotos)
  BY DEF Traces
<1>5. to \in SUBSET Int /\ c \in 0 .. Len(term) - 1 /\ c \in 0 .. Len(code) - 1 /\ Len(term) = Len(code)
  BY <1>3
<1>6. p = Patched(term, c, to)
  OBVIOUS
<1>7. Len(p) = n
  BY ONLY <1>3, <1>5, <1>6, PatchTerm
<1>8. Joins(trace, code, p)
  <2>1. \A x \in to : x = Unpatched \/ Edge(EndOf(trace, code, c), trace[x][1])
    BY <1>2, <1>4 DEF IndirectMeet
  <2>2. term \in Seq(Term)
    BY <1>3
  <2> QED BY ONLY <1>4, <1>5, <1>6, <2>1, <2>2, PatchedJoins
<1>9. IndirectMeet(trace, code, indirect')
  BY <1>1, <1>2, <1>4, TailMeets
<1>10. Storable(home)' = Storable(home) /\ NumBlocks' = Len(p)
  BY <1>1 DEF Storable, NumBlocks
<1> QED BY <1>1, <1>3, <1>4, <1>7, <1>8, <1>9, <1>10 DEF Traces

LEMMA PatchRuns ==
  ASSUME Good, SnapInv, NEW home, Homes(home), NEW trace, Traces(trace, home), Patch
  PROVE  phase' \in {"patch", "done"} => \E trace2 : Traces(trace2, home)'
<1>1. CASE Complete
  <2>1. UNCHANGED <<code, term, targets, gotos, indirect, fresh>>
    BY <1>1 DEF Complete
  <2>2. Traces(trace, home)'
    BY <2>1 DEF Traces, Storable, NumBlocks
  <2> QED BY <2>2
<1>2. CASE PatchGoto
  <2>1. phase' # "done"
    BY <1>2 DEF PatchGoto, Fail, Rejected
  <2> QED BY <1>2, <2>1, PatchGotoRuns
<1>3. ASSUME NEW l \in Labels, PatchIndirectLabel(l)
      PROVE  phase' \in {"patch", "done"} => \E trace2 : Traces(trace2, home)'
  <2>1. phase' # "done"
    BY <1>3 DEF PatchIndirectLabel, Fail, Rejected
  <2> QED BY <1>3, <2>1, PatchIndirectLabelRuns
<1>4. CASE PatchIndirect
  <2>1. phase' # "done"
    BY <1>4 DEF PatchIndirect, Fail
  <2> QED BY <1>4, <2>1, PatchIndirectRuns
<1> QED BY <1>1, <1>2, <1>3, <1>4 DEF Patch

-----------------------------------------------------------------------------
(***************************************************************************)
(* The inductive invariant of a body being lowered.                        *)
(***************************************************************************)
Lowered(home, depth, trace) ==
  /\ Homes(home) /\ IsDepth(depth) /\ Scoped(home, depth)
  /\ phase \in {"lower", "patch", "done"} => Traces(trace, home)
  /\ phase = "lower" => Building(trace, home, depth)

LEMMA HomeSet ==
  ASSUME NEW home \in [Nat -> SUBSET Locals], NEW n \in Nat, NEW ds \in SUBSET Locals
  PROVE  \E h \in [Nat -> SUBSET Locals] : Differs(h, home, n, ds)
<1> DEFINE h == [home EXCEPT ![n] = ds]
<1>1. h \in [Nat -> SUBSET Locals] /\ Differs(h, home, n, ds)
  BY DEF Differs
<1> HIDE DEF h
<1> QED BY <1>1

LEMMA LowerRuns ==
  ASSUME Good, SnapInv, Lower, NEW home, NEW depth, NEW trace, Lowered(home, depth, trace)
  PROVE  \E h, d, t : Lowered(h, d, t)'
<1>1. phase = "lower"
  BY DEF Lower, EnterBlock, ExitBlock, Decl, Use, EnterExpr, ExitExpr, BindLabel, Goto,
         IndirectGoto, Return, Call, EnterThen, EnterElse, ExitIf, Finish, Choose
<1>2. /\ Homes(home) /\ IsDepth(depth) /\ Scoped(home, depth)
      /\ Traces(trace, home) /\ Building(trace, home, depth)
  BY <1>1 DEF Lowered
<1>3. ASSUME NEW ds \in SUBSET fresh, EnterBlock(ds) PROVE \E h, d, t : Lowered(h, d, t)'
  <2> PICK n, m : n = nextScope /\ m = Len(frames)
    OBVIOUS
  <2>1. home \in [Nat -> SUBSET Locals] /\ n \in Nat /\ ds \in SUBSET Locals
    BY <1>2 DEF Homes, SnapInv, Good, FramesOK
  <2>2. PICK h \in [Nat -> SUBSET Locals] : Differs(h, home, n, ds)
    BY <2>1, HomeSet
  <2>3. m \in Nat /\ depth[m] + 1 \in Nat
    <3>1. m \in Nat
      BY SeqLen DEF Good, FramesOK, IsSeq
    <3> QED BY <1>2, <3>1 DEF IsDepth
  <2>4. PICK d : IsDepth(d) /\ Differs(d, depth, m + 1, depth[m] + 1)
    BY <1>2, <2>3, DepthSet
  <2>5. Homes(h)'
    BY <1>2, <1>3, <2>2, EnterBlockHomes
  <2>6. Scoped(h, d)'
    BY <1>2, <1>3, <2>2, <2>4, EnterBlockScoped
  <2>7. PICK t : Traces(t, h)' /\ Building(t, h, d)'
    BY <1>2, <1>3, <2>2, <2>4, EnterBlockRuns
  <2>8. Lowered(h, d, t)'
    BY <2>4, <2>5, <2>6, <2>7 DEF Lowered
  <2> QED BY <2>8
<1>4. CASE ExitBlock
  <2>1. Homes(home)' /\ Scoped(home, depth)'
    BY <1>2, <1>4, ExitBlockHomes
  <2>2. PICK t : Traces(t, home)' /\ Building(t, home, depth)'
    BY <1>2, <1>4, ExitBlockRuns
  <2>3. Lowered(home, depth, t)'
    BY <1>2, <2>1, <2>2 DEF Lowered
  <2> QED BY <2>3
<1>5. ASSUME NEW x \in Locals, Decl(x) PROVE \E h, d, t : Lowered(h, d, t)'
  <2>1. Homes(home)' /\ Scoped(home, depth)'
    BY <1>2, <1>5, DeclHomes
  <2>2. PICK t : Traces(t, home)' /\ Building(t, home, depth)'
    BY <1>2, <1>5, DeclRuns
  <2>3. Lowered(home, depth, t)'
    BY <1>2, <2>1, <2>2 DEF Lowered
  <2> QED BY <2>3
<1>6. CASE /\ ~(\E ds \in SUBSET fresh : EnterBlock(ds)) /\ ~ExitBlock
           /\ ~(\E x \in Locals : Decl(x))
  <2>1. Homes(home)'
    BY <1>2, <1>6, OtherScoped
  <2>2. ASSUME NEW x \in Locals, Use(x) PROVE \E h, d, t : Lowered(h, d, t)'
    <3>1. Scoped(home, depth)'
      BY <1>2, <2>2 DEF Use, Choose, Scoped, Nested, Sees, Storable
    <3>2. PICK t : Traces(t, home)' /\ Building(t, home, depth)'
      BY <1>2, <2>2, UseRuns
    <3>3. Lowered(home, depth, t)'
      BY <1>2, <2>1, <3>1, <3>2 DEF Lowered
    <3> QED BY <3>3
  <2>3. CASE ~(\E x \in Locals : Use(x))
    <3>1. PICK d : Scoped(home, d)' /\ IsDepth(d) /\ \A i \in 1 .. Len(frames) : d[i] = depth[i]
      BY <1>2, <1>6, OtherScoped
    <3>2. SameDepths(d, depth)
      BY <3>1 DEF SameDepths
    <3>3. PICK t : Traces(t, home)' /\ Building(t, home, d)'
      BY <1>2, <1>6, <2>3, <3>1, <3>2, OtherRuns
    <3>4. Lowered(home, d, t)'
      BY <2>1, <3>1, <3>3 DEF Lowered
    <3> QED BY <3>4
  <2> QED BY <2>2, <2>3
<1> QED BY <1>3, <1>4, <1>5, <1>6

LEMMA NextRuns ==
  ASSUME JInv, SnapInv, Next, NEW home, NEW depth, NEW trace, Lowered(home, depth, trace)
  PROVE  /\ phase \in {"lower", "patch"}
         /\ \E h, d, t : Lowered(h, d, t)'
<1>1. CASE Lower
  <2>1. phase = "lower"
    BY <1>1 DEF Lower, EnterBlock, ExitBlock, Decl, Use, EnterExpr, ExitExpr, BindLabel, Goto,
         IndirectGoto, Return, Call, EnterThen, EnterElse, ExitIf, Finish, Choose
  <2>2. Good
    BY <2>1 DEF JInv
  <2> QED BY <1>1, <2>1, <2>2, LowerRuns
<1>2. CASE Patch
  <2>1. phase = "patch"
    BY <1>2 DEF Patch, PatchGoto, PatchIndirectLabel, PatchIndirect, Complete
  <2>2. Good
    BY <2>1 DEF JInv
  <2>3. Homes(home) /\ IsDepth(depth) /\ Traces(trace, home)
    BY <2>1 DEF Lowered
  <2>4. Homes(home)' /\ Scoped(home, depth)'
    BY <1>2, <2>2, <2>3, PatchHomes
  <2>5. phase' # "lower"
    BY <1>2, <2>2, PatchSnapshots
  <2>6. phase' \in {"patch", "done"} => \E t : Traces(t, home)'
    BY <1>2, <2>2, <2>3, PatchRuns
  <2>7. CASE phase' \in {"patch", "done"}
    <3>1. PICK t : Traces(t, home)'
      BY <2>6, <2>7
    <3>2. Lowered(home, depth, t)'
      BY <2>3, <2>4, <2>5, <3>1 DEF Lowered
    <3> QED BY <2>1, <3>2
  <2>8. CASE phase' \notin {"patch", "done"}
    <3>1. Lowered(home, depth, trace)'
      BY <2>3, <2>4, <2>5, <2>8 DEF Lowered
    <3> QED BY <2>1, <3>1
  <2> QED BY <2>7, <2>8
<1> QED BY <1>1, <1>2 DEF Next

LEMMA InitSnapshots ==
  ASSUME NEW ds \in SUBSET Locals, scopes = <<OpenScope(0, ds)>>,
         targets = [l \in Labels |-> Unbound], gotos = << >>, indirect = << >>
  PROVE  \A s \in Snapshots : s = << >> \/ s = <<OpenScope(0, ds)>>
<1>1. DOMAIN gotos = {} /\ DOMAIN indirect = {}
  OBVIOUS
<1>2. \A l \in Labels : targets[l].scopes = << >>
  BY DEF Unbound
<1> QED BY <1>1, <1>2 DEF Snapshots

LEMMA InitRuns ==
  ASSUME Init PROVE \E h, d, t : Lowered(h, d, t)
<1>1. PICK ds \in SUBSET Locals :
        /\ code = << >> /\ term = << >>
        /\ stmts = IF ds = {} THEN << >> ELSE <<[op |-> "live", on |-> ds]>>
        /\ scopes = <<OpenScope(0, ds)>> /\ nextScope = 1
        /\ targets = [l \in Labels |-> Unbound] /\ gotos = << >> /\ indirect = << >>
        /\ frames = <<Frame("block", ds)>> /\ fresh = Locals \ ds /\ phase = "lower"
  BY DEF Init
<1> PICK e, f : e = OpenScope(0, ds) /\ f = Frame("block", ds)
  OBVIOUS
<1>2. /\ e.id = 0 /\ e.locals = ds /\ e.vlas = {} /\ e \in Scopes
      /\ f.kind = "block" /\ f.todo = ds /\ f.seen = {}
  BY DEF OpenScope, Frame, Scopes
<1>3. /\ Len(scopes) = 1 /\ scopes[1] = e /\ Len(frames) = 1 /\ frames[1] = f
  BY <1>1
<1> DEFINE home == [n \in Nat |-> IF n = 0 THEN ds ELSE {}]
           depth == [n \in Nat |-> IF n = 0 THEN 0 ELSE 1]
           q == PointOf(scopes)
           row == [i \in Nat |-> IF i = 1 THEN AtStart ELSE q]
           trace == [n \in Nat |-> row]
<1>4. /\ home \in [Nat -> SUBSET Locals] /\ home[0] = ds /\ \A n \in Nat : n >= 1 => home[n] = {}
      /\ \A m, n \in Nat : m # n => home[m] \cap home[n] = {}
      /\ \A n \in Nat : home[n] \subseteq ds
  OBVIOUS
<1>5. IsDepth(depth) /\ depth[0] = 0 /\ depth[1] = 1
  BY DEF IsDepth
<1>6. q \in Points /\ q.live = ds /\ q.vlas = {} /\ AtStart \in Points
  BY <1>2, <1>3, PointRange DEF PointOf, PointAt, AtStart, Points
<1> HIDE DEF q
<1>7. row \in [Nat -> Points] /\ row[1] = AtStart /\ row[2] = q
  BY <1>6
<1>8. IsTrace(trace) /\ trace[0] = row
  BY <1>7 DEF IsTrace
<1> HIDE DEF home, depth, row, trace
<1>9. Homes(home)
  <2>1. ScopeOK(home, e)
    BY <1>2, <1>4 DEF ScopeOK
  <2>2. \A s \in Snapshots : s = << >> \/ s = <<e>>
    BY <1>1, InitSnapshots
  <2>3. ASSUME NEW s \in Snapshots, NEW i \in 1 .. Len(s) PROVE ScopeOK(home, s[i])
    <3>1. s # << >>
      BY <2>3
    <3>2. s = <<e>>
      BY <2>2, <3>1
    <3>3. i = 1
      BY <3>2
    <3> QED BY <2>1, <3>2, <3>3
  <2>4. \A n \in Nat : home[n] \cap fresh = {} /\ (n >= nextScope => home[n] = {})
    BY <1>1, <1>4
  <2> QED BY <1>4, <2>3, <2>4 DEF Homes
<1>10. Nested(depth)
  BY <1>2, <1>3, <1>5 DEF Nested, Deepens
<1>11. Names(Storable(home), f, e)
  BY <1>2 DEF Names
<1>12. Scoped(home, depth)
  BY <1>3, <1>5, <1>10, <1>11 DEF Scoped, Sees
<1>13. Len(code) = 0 /\ NumBlocks = 0 /\ IsSeq(code) /\ Len(gotos) = 0 /\ Len(indirect) = 0
  BY <1>1, EmptyIsSeq DEF NumBlocks
<1>14. Traces(trace, home)
  <2>1. Traced(trace, home, Storable(home), code)
    BY <1>7, <1>8, <1>13 DEF Traced
  <2>2. Joins(trace, code, term) /\ GotosMeet(trace, code, gotos) /\ IndirectMeet(trace, code, indirect)
    BY <1>13 DEF Joins, GotosMeet, IndirectMeet
  <2>3. LabelsMeet(trace, targets)
    BY <1>1 DEF LabelsMeet
  <2> QED BY <1>13, <2>1, <2>2, <2>3 DEF Traces
<1>15. Building(trace, home, depth)
  <2>1. IfMeets(trace, code, f, PointAt(scopes, depth[1]))
    BY <1>2 DEF IfMeets
  <2>2. \A i \in 1 .. Len(frames) : IfMeets(trace, code, frames[i], PointAt(scopes, depth[i]))
    BY <1>3, <2>1
  <2>3. CASE ds = {}
    <3>1. IsSeq(stmts) /\ Len(stmts) = 0
      BY <1>1, <2>3, EmptyIsSeq
    <3>2. Runs(home, Storable(home), row, stmts)
      BY <3>1 DEF Runs
    <3>3. row[1] = q
      BY <1>6, <1>7, <2>3 DEF AtStart, Points
    <3>4. row[Len(stmts) + 1] = q
      BY <3>1, <3>3
    <3> QED BY <1>8, <1>13, <2>2, <3>1, <3>2, <3>4 DEF Building, q
  <2>4. CASE ds # {}
    <3> PICK s : s = [op |-> "live", on |-> ds]
      OBVIOUS
    <3>1. stmts = <<s>>
      BY <1>1, <2>4
    <3>2. IsSeq(stmts) /\ Len(stmts) = 1 /\ stmts[1] = s
      BY ONLY <3>1, OneMove
    <3>3. Step(home, Storable(home), AtStart, s, q)
      <4>1. ds \subseteq Homed(home)
        BY <1>4 DEF Homed
      <4> QED BY <1>6, <4>1 DEF Step, AtStart
    <3>4. Runs(home, Storable(home), row, stmts)
      BY <1>7, <3>2, <3>3 DEF Runs
    <3>5. row[Len(stmts) + 1] = q
      BY <1>7, <3>2
    <3> QED BY <1>8, <1>13, <2>2, <3>2, <3>4, <3>5 DEF Building, q
  <2> QED BY <2>3, <2>4
<1>16. Lowered(home, depth, trace)
  BY <1>5, <1>9, <1>12, <1>14, <1>15 DEF Lowered
<1> QED BY <1>16

-----------------------------------------------------------------------------
(***************************************************************************)
(* An execution is where the trace says it is.                             *)
(***************************************************************************)
At(trace, b, i) ==
  /\ b \in Nat /\ i \in 1 .. Len(code[b + 1]) + 1
  /\ live = trace[b][i].live /\ trace[b][i].vlas \subseteq declared

AtRest == bb = 0 /\ pt = 1 /\ live = {} /\ declared = {}

Exec(trace) == IF phase = "done" THEN bb < NumBlocks => At(trace, bb, pt) ELSE AtRest

RunInv == \E h, d, t : Lowered(h, d, t) /\ Exec(t)

BodyInv == JInv /\ ScopePerBlock /\ SnapInv

LEMMA LoweredSame ==
  ASSUME NEW h, NEW d, NEW t, Lowered(h, d, t),
         UNCHANGED <<code, term, phase, targets, gotos, indirect, fresh, scopes, nextScope, frames, stmts>>
  PROVE  Lowered(h, d, t)'
<1>1. Storable(h)' = Storable(h) /\ Snapshots' = Snapshots /\ NumBlocks' = NumBlocks
  BY DEF Storable, Snapshots, NumBlocks
<1>2. Homes(h)' /\ IsDepth(d)
  BY <1>1 DEF Lowered, Homes
<1>3. Scoped(h, d)'
  BY <1>1 DEF Lowered, Scoped, Nested, Sees
<1>4. phase \in {"lower", "patch", "done"} => Traces(t, h)'
  BY <1>1 DEF Lowered, Traces
<1>5. phase = "lower" => Building(t, h, d)'
  BY <1>1 DEF Lowered, Building
<1> QED BY <1>2, <1>3, <1>4, <1>5 DEF Lowered

LEMMA BuildStep == ASSUME BodyInv, RunInv, Build PROVE RunInv'
<1>1. PICK h0, d0, t0 : Lowered(h0, d0, t0) /\ Exec(t0)
  BY DEF RunInv
<1>2. Next /\ UNCHANGED <<bb, pt, live, declared>>
  BY DEF Build, runVars
<1>3. phase \in {"lower", "patch"} /\ \E h, d, t : Lowered(h, d, t)'
  BY <1>1, <1>2, NextRuns DEF BodyInv
<1>4. PICK h, d, t : Lowered(h, d, t)'
  BY <1>3
<1>5. AtRest
  BY <1>1, <1>3 DEF Exec
<1>6. AtRest'
  BY <1>2, <1>5 DEF AtRest
<1>7. CASE phase' # "done"
  BY <1>4, <1>6, <1>7 DEF RunInv, Exec
<1>8. CASE phase' = "done"
  <2>1. Traces(t, h)'
    BY <1>4, <1>8 DEF Lowered
  <2>2. Traced(t, h, Storable(h)', code') /\ Len(code') = NumBlocks'
    BY <2>1 DEF Traces
  <2>3. ASSUME 0 < NumBlocks' PROVE At(t, 0, 1)'
    <3>1. IsSeq(code'[0 + 1])
      <4>1. 0 \in 0 .. Len(code') - 1
        <5>1. Len(code') \in Nat
          BY <2>2, SeqLen DEF Traced
        <5> QED BY <2>2, <2>3, <5>1
      <4> QED BY <2>2, <4>1 DEF Traced
    <3>2. Len(code'[0 + 1]) \in Nat
      BY <3>1, SeqLen
    <3>3. 0 \in Nat /\ 1 \in 1 .. Len(code'[0 + 1]) + 1
      BY <3>2
    <3>4. t[0][1] = AtStart
      BY <2>2 DEF Traced
    <3> QED BY <1>6, <3>3, <3>4 DEF At, AtStart, AtRest
  <2>4. Exec(t)'
    BY <1>6, <1>8, <2>3 DEF Exec, AtRest
  <2> QED BY <1>4, <2>4 DEF RunInv
<1> QED BY <1>7, <1>8

(* What the trace says of the statement about to execute.                  *)
LEMMA CurrentStep ==
  ASSUME NEW h, NEW d, NEW t, Lowered(h, d, t), Exec(t), AtStmt
  PROVE  /\ Step(h, Storable(h), t[bb][pt], Current, t[bb][pt + 1])
         /\ At(t, bb, pt) /\ t[bb][pt] \in Points /\ pt + 1 \in 1 .. Len(code[bb + 1]) + 1
<1>1. phase = "done" /\ bb < NumBlocks /\ pt <= Len(code[bb + 1])
  BY DEF AtStmt, Running
<1>2. At(t, bb, pt)
  BY <1>1 DEF Exec
<1>3. Traced(t, h, Storable(h), code) /\ Len(code) = NumBlocks
  BY <1>1 DEF Lowered, Traces
<1>4. bb \in Nat /\ Len(code) \in Nat
  BY <1>2, <1>3, SeqLen DEF At, Traced
<1>5. bb \in 0 .. Len(code) - 1
  BY <1>1, <1>3, <1>4
<1>6. IsSeq(code[bb + 1]) /\ Runs(h, Storable(h), t[bb], code[bb + 1])
  BY <1>3, <1>5 DEF Traced
<1>7. Len(code[bb + 1]) \in Nat
  BY <1>6, SeqLen
<1>8. pt \in 1 .. Len(code[bb + 1]) + 1
  BY <1>2 DEF At
<1>9. pt \in 1 .. Len(code[bb + 1]) /\ pt + 1 \in 1 .. Len(code[bb + 1]) + 1
  BY <1>1, <1>7, <1>8
<1>10. t[bb][pt] \in Points
  BY <1>3, <1>4, <1>9, RowOf DEF Traced
<1> QED BY <1>2, <1>6, <1>9, <1>10 DEF Runs, Current

LEMMA ExecuteStep == ASSUME RunInv, Execute PROVE RunInv'
<1>1. PICK h, d, t : Lowered(h, d, t) /\ Exec(t)
  BY DEF RunInv
<1>2. /\ AtStmt /\ Effect(Current) /\ pt' = pt + 1 /\ UNCHANGED <<vars, bb>>
  BY DEF Execute
<1>3. /\ Step(h, Storable(h), t[bb][pt], Current, t[bb][pt + 1])
      /\ At(t, bb, pt) /\ pt + 1 \in 1 .. Len(code[bb + 1]) + 1
  BY <1>1, <1>2, CurrentStep
<1> PICK p, q, s : p = t[bb][pt] /\ q = t[bb][pt + 1] /\ s = Current
  OBVIOUS
<1>4. live = p.live /\ p.vlas \subseteq declared /\ bb \in Nat
  BY <1>3 DEF At
<1>5. live' = q.live /\ q.vlas \subseteq declared'
  <2>1. Step(h, Storable(h), p, s, q)
    BY <1>3
  <2>2. /\ live' = CASE s.op = "live" -> live \cup s.on
                     [] s.op = "dead" -> live \ s.on
                     [] OTHER -> live
        /\ declared' = CASE s.op = "decl" -> declared \cup s.on
                         [] s.op \in {"live", "dead"} -> declared \ s.on
                         [] OTHER -> declared
    BY <1>2 DEF Effect
  <2> QED BY ONLY <1>4, <2>1, <2>2 DEF Step
<1>6. UNCHANGED <<code, term, phase, bb, targets, gotos, indirect, fresh, scopes, nextScope, frames, stmts>>
  BY <1>2 DEF vars
<1>7. At(t, bb, pt)'
  BY <1>2, <1>3, <1>4, <1>5, <1>6 DEF At
<1>8. phase = "done"
  BY <1>2 DEF AtStmt, Running
<1>9. Lowered(h, d, t)'
  BY <1>1, <1>6, LoweredSame
<1>10. Exec(t)'
  BY <1>6, <1>7, <1>8 DEF Exec
<1> QED BY <1>9, <1>10 DEF RunInv

LEMMA JumpStep == ASSUME BodyInv, RunInv, Jump PROVE RunInv'
<1>1. PICK h, d, t : Lowered(h, d, t) /\ Exec(t)
  BY DEF RunInv
<1>2. PICK x \in term[bb + 1].to : bb' = x
  BY DEF Jump
<1>3. /\ phase = "done" /\ bb < NumBlocks /\ ~(pt <= Len(code[bb + 1]))
      /\ pt' = 1 /\ UNCHANGED <<vars, live, declared>>
  BY DEF Jump, Running, AtStmt
<1>4. At(t, bb, pt)
  BY <1>1, <1>3 DEF Exec
<1>5. /\ Traced(t, h, Storable(h), code) /\ Len(code) = NumBlocks /\ Joins(t, code, term)
  BY <1>1, <1>3 DEF Lowered, Traces
<1> PICK n : n = NumBlocks
  OBVIOUS
<1>6. bb \in Nat /\ n \in Nat /\ Len(code) = n /\ bb \in 0 .. n - 1 /\ bb + 1 \in 1 .. n
  <2>1. bb \in Nat /\ n \in Nat /\ Len(code) = n /\ bb < n
    BY <1>3, <1>4, <1>5, SeqLen DEF At, Traced
  <2> QED BY <2>1
<1>7. IsSeq(code[bb + 1])
  BY <1>5, <1>6 DEF Traced
<1>8. pt = Len(code[bb + 1]) + 1
  <2>1. Len(code[bb + 1]) \in Nat /\ pt \in 1 .. Len(code[bb + 1]) + 1
    BY <1>4, <1>7, SeqLen DEF At
  <2> QED BY <1>3, <2>1
<1>9. x \in 1 .. n - 1
  <2>1. JumpsLand
    BY LandsAtEnd DEF BodyInv
  <2> QED BY <1>2, <1>3, <1>6, <2>1 DEF JumpsLand
<1>10. x # Unpatched
  BY <1>6, <1>9 DEF Unpatched
<1>11. Edge(t[bb][pt], t[x][1])
  <2>1. Edge(EndOf(t, code, bb), t[x][1])
    BY <1>2, <1>5, <1>6, <1>10 DEF Joins
  <2> QED BY <1>8, <2>1 DEF EndOf
<1>12. live = t[x][1].live /\ t[x][1].vlas \subseteq declared
  BY <1>4, <1>11 DEF At, Edge
<1>13. IsSeq(code[x + 1])
  <2>1. x \in 0 .. Len(code) - 1
    BY <1>6, <1>9
  <2> QED BY <1>5, <2>1 DEF Traced
<1>14. x \in Nat /\ 1 \in 1 .. Len(code[x + 1]) + 1
  BY <1>6, <1>9, <1>13, SeqLen
<1>15. UNCHANGED <<code, term, phase, targets, gotos, indirect, fresh, scopes, nextScope, frames, stmts>>
  BY <1>3 DEF vars
<1>16. At(t, bb, pt)'
  BY <1>2, <1>3, <1>12, <1>14, <1>15 DEF At
<1>17. Lowered(h, d, t)'
  BY <1>1, <1>15, LoweredSame
<1>18. Exec(t)'
  BY <1>3, <1>15, <1>16 DEF Exec
<1> QED BY <1>17, <1>18 DEF RunInv

LEMMA RunStep == BodyInv /\ RunInv /\ [RunNext]_allVars => BodyInv' /\ RunInv'
<1> SUFFICES ASSUME BodyInv, RunInv, [RunNext]_allVars PROVE BodyInv' /\ RunInv'
  OBVIOUS
<1>1. [Next]_vars
  BY DEF RunNext, Build, Execute, Jump, allVars
<1>2. BodyInv'
  BY <1>1, StepGood, StepSnap DEF BodyInv
<1>3. CASE UNCHANGED allVars
  <2>1. PICK h, d, t : Lowered(h, d, t) /\ Exec(t)
    BY DEF RunInv
  <2>2. UNCHANGED <<code, term, phase, targets, gotos, indirect, fresh, scopes, nextScope, frames, stmts,
                    bb, pt, live, declared>>
    BY <1>3 DEF allVars, vars, runVars
  <2>3. Lowered(h, d, t)'
    BY <2>1, <2>2, LoweredSame
  <2>4. Exec(t)'
    BY <2>1, <2>2 DEF Exec, At, AtRest, NumBlocks
  <2> QED BY <1>2, <2>3, <2>4 DEF RunInv
<1> QED BY <1>2, <1>3, BuildStep, ExecuteStep, JumpStep DEF RunNext

LEMMA InitRun == RunInit => BodyInv /\ RunInv
<1> SUFFICES ASSUME RunInit PROVE BodyInv /\ RunInv
  OBVIOUS
<1>1. Init /\ AtRest
  BY DEF RunInit, AtRest
<1>2. BodyInv
  BY <1>1, InitGood, InitSnap DEF BodyInv
<1>3. PICK h, d, t : Lowered(h, d, t)
  BY <1>1, InitRuns
<1>4. phase # "done"
  BY <1>1 DEF Init
<1> QED BY <1>1, <1>2, <1>3, <1>4 DEF RunInv, Exec

LEMMA RunAlways == RunSpec => [](BodyInv /\ RunInv)
<1>1. (BodyInv /\ RunInv) /\ [RunNext]_allVars => (BodyInv /\ RunInv)'
  BY RunStep
<1> QED BY InitRun, <1>1, PTL DEF RunSpec

(* Whatever jumps a body makes into, out of and around its blocks, on      *)
(* every path the storage of each local is started when it is not live and *)
(* ended only when it is.                                                  *)
THEOREM StorageAlwaysAlternates == RunSpec => []StorageAlternates
<1>1. RunInv => StorageAlternates
  <2> SUFFICES ASSUME NEW h, NEW d, NEW t, Lowered(h, d, t), Exec(t), AtStmt
               PROVE  /\ Current.op = "live" => Current.on \cap live = {}
                      /\ Current.op = "dead" => Current.on \subseteq live
    BY DEF RunInv, StorageAlternates
  <2>1. Step(h, Storable(h), t[bb][pt], Current, t[bb][pt + 1]) /\ live = t[bb][pt].live
    BY CurrentStep DEF At
  <2> QED BY <2>1 DEF Step
<1> QED BY <1>1, RunAlways, PTL

(* A jump past a declaration, into a block or out of one never leaves a    *)
(* local that is declared or used later without storage.                   *)
THEOREM AlwaysUsedWhileLive == RunSpec => []UsedWhileLive
<1>1. RunInv => UsedWhileLive
  <2> SUFFICES ASSUME NEW h, NEW d, NEW t, Lowered(h, d, t), Exec(t), AtStmt,
                      Current.op \in {"decl", "use"}, NEW x \in Current.on, x \in Stored
               PROVE  x \in live
    BY DEF RunInv, UsedWhileLive
  <2>1. Step(h, Storable(h), t[bb][pt], Current, t[bb][pt + 1]) /\ live = t[bb][pt].live
    BY CurrentStep DEF At
  <2>2. Traced(t, h, Storable(h), code)
    BY DEF Lowered, Traces, AtStmt, Running
  <2>3. PICK b \in DOMAIN code : \E s \in ToSet(code[b]) : s.op = "live" /\ x \in s.on
    BY DEF Stored
  <2>4. PICK i \in DOMAIN code[b] : code[b][i].op = "live" /\ x \in code[b][i].on
    BY <2>3 DEF ToSet
  <2>5. b \in 1 .. Len(code) /\ Len(code) \in Nat
    BY <2>2, SeqDomain, SeqLen DEF Traced
  <2>6. b - 1 \in 0 .. Len(code) - 1 /\ (b - 1) + 1 = b
    BY <2>5
  <2>7. IsSeq(code[b]) /\ Runs(h, Storable(h), t[b - 1], code[b])
    BY <2>2, <2>6 DEF Traced
  <2>8. i \in 1 .. Len(code[b])
    BY <2>4, <2>7, SeqDomain
  <2>9. x \in Homed(h)
    BY <2>4, <2>7, <2>8 DEF Runs, Step
  <2>10. x \in Storable(h)
    BY <2>9 DEF Storable
  <2> QED BY <2>1, <2>10 DEF Step
<1> QED BY <1>1, RunAlways, PTL

(* Without GNU statement expressions, no execution uses a VLA whose        *)
(* declaration it has not passed.                                          *)
THEOREM VlasAlwaysDeclaredFirst ==
  ASSUME "expr" \notin Kinds PROVE RunSpec => []VlaDeclaredFirst
<1>1. RunInv => VlaDeclaredFirst
  <2> SUFFICES ASSUME NEW h, NEW d, NEW t, Lowered(h, d, t), Exec(t), AtStmt, Current.op = "use"
               PROVE  Current.on \cap Vlas \subseteq declared
    BY DEF RunInv, VlaDeclaredFirst
  <2>1. /\ Step(h, Storable(h), t[bb][pt], Current, t[bb][pt + 1])
        /\ t[bb][pt].vlas \subseteq declared
    BY CurrentStep DEF At
  <2> QED BY <2>1 DEF Step, NoExpr
<1> QED BY <1>1, RunAlways, PTL

-----------------------------------------------------------------------------
(***************************************************************************)
(* Without statement expressions the VLAs the source can name are those of *)
(* the scopes, at each pending goto and at each label.                     *)
(***************************************************************************)
LEMMA VisibleVlas ==
  ASSUME NoExpr, Good, SnapInv, phase = "lower", NEW h, NEW d, Scoped(h, d)
  PROVE  Visible \cap Vlas = VlasOf(scopes)
<1>1. Nested(d) /\ Sees(h, d)
  BY DEF Scoped
<1>2. IsSeq(scopes) /\ IsSeq(frames)
  BY DEF SnapInv, Shaped, Snapshots, Good, FramesOK, IsSeq
<1>3. DOMAIN scopes = 1 .. Len(scopes) /\ DOMAIN frames = 1 .. Len(frames)
  BY <1>2, SeqDomain
<1>4. ASSUME NEW x \in Visible \cap Vlas PROVE x \in VlasOf(scopes)
  <2>1. PICK i \in 1 .. Len(frames) : x \in frames[i].seen
    BY <1>3 DEF Visible
  <2>2. x \in scopes[d[i]].vlas
    BY <1>1, <2>1 DEF Sees, Names
  <2>3. d[i] \in 1 .. Len(scopes)
    BY <1>1, DepthRange
  <2> QED BY <1>3, <2>2, <2>3 DEF VlasOf
<1>5. ASSUME NEW x \in VlasOf(scopes) PROVE x \in Visible \cap Vlas
  <2>1. PICK k \in 1 .. Len(scopes) : x \in scopes[k].vlas
    BY <1>3 DEF VlasOf
  <2>2. PICK i \in 1 .. Len(frames) : frames[i].kind = "block" /\ d[i] = k
    BY <1>1 DEF Nested
  <2>3. scopes[k].vlas = frames[i].seen \cap Vlas
    BY <1>1, <2>2 DEF Sees, Names
  <2> QED BY <1>3, <2>1, <2>3 DEF Visible
<1> QED BY <1>4, <1>5

(* leaves also has the gotos already patched, in front.                    *)
Sighted ==
  /\ IsSeq(leaves) /\ Len(gotos) <= Len(leaves)
  /\ \A i \in 1 .. Len(gotos) : leaves[Len(leaves) - Len(gotos) + i] = VlasOf(gotos[i].scopes)
  /\ \A l \in Labels : targets[l] # Unbound => arrives[l] = VlasOf(targets[l].scopes)

SightInv == (phase \in {"lower", "patch"} => Sighted) /\ RejectsOnlyEntering

LEMMA LowerJumps ==
  ASSUME Lower, TargetsLand
  PROVE  /\ phase = "lower" /\ phase' \in {"lower", "patch"}
         /\ gotos' = gotos \/ \E g : g.scopes = scopes /\ gotos' = Append(gotos, g)
         /\ \A l \in Labels : targets'[l] = targets[l] \/ targets'[l].scopes = scopes
<1>1. phase = "lower" /\ phase' \in {"lower", "patch"}
  BY DEF Lower, EnterBlock, ExitBlock, Decl, Use, EnterExpr, ExitExpr, BindLabel, Goto,
         IndirectGoto, Return, Call, EnterThen, EnterElse, ExitIf, Finish, Choose
<1>2. ASSUME NEW l \in Labels, BindLabel(l)
      PROVE  gotos' = gotos /\ \A k \in Labels : targets'[k] = targets[k] \/ targets'[k].scopes = scopes
  BY <1>2 DEF BindLabel, TargetsLand
<1>3. ASSUME NEW l \in Labels, Goto(l)
      PROVE  targets' = targets /\ \E g : g.scopes = scopes /\ gotos' = Append(gotos, g)
  BY <1>3 DEF Goto
<1>4. CASE ~(\E l \in Labels : BindLabel(l) \/ Goto(l))
  <2>1. gotos' = gotos /\ targets' = targets
    BY <1>4 DEF Lower, EnterBlock, ExitBlock, Decl, Use, EnterExpr, ExitExpr,
           IndirectGoto, Return, Call, EnterThen, EnterElse, ExitIf, Finish
  <2> QED BY <1>1, <2>1
<1>5. CASE \E l \in Labels : BindLabel(l)
  BY <1>1, <1>2, <1>5
<1>6. CASE \E l \in Labels : Goto(l)
  BY <1>1, <1>3, <1>6
<1> QED BY <1>1, <1>4, <1>5, <1>6

LEMMA LowerSight ==
  ASSUME NoExpr, Good, SnapInv, Sighted, Lower, Observe, NEW h, NEW d, Scoped(h, d)
  PROVE  SightInv'
<1>1. /\ phase = "lower" /\ phase' \in {"lower", "patch"}
      /\ gotos' = gotos \/ \E g : g.scopes = scopes /\ gotos' = Append(gotos, g)
      /\ \A l \in Labels : targets'[l] = targets[l] \/ targets'[l].scopes = scopes
  BY LowerJumps DEF Good
<1> PICK v, m, n : v = Visible \cap Vlas /\ m = Len(leaves) /\ n = Len(gotos)
  OBVIOUS
<1>2. v = VlasOf(scopes)
  BY <1>1, VisibleVlas
<1>3. m \in Nat /\ n \in Nat /\ n <= m /\ IsSeq(gotos) /\ IsSeq(leaves)
  BY SeqLen DEF Sighted, Good, PendingLand
<1>4. ASSUME NEW l \in Labels, targets'[l] # Unbound PROVE arrives'[l] = VlasOf(targets'[l].scopes)
  <2>1. arrives'[l] = IF targets'[l] # targets[l] THEN v ELSE arrives[l]
    BY DEF Observe
  <2> QED BY <1>1, <1>2, <1>4, <2>1 DEF Sighted
<1>5. CASE gotos' = gotos
  <2>1. leaves' = leaves
    BY <1>3, <1>5 DEF Observe
  <2>2. Sighted'
    BY <1>4, <1>5, <2>1 DEF Sighted
  <2> QED BY <1>1, <2>2 DEF SightInv, RejectsOnlyEntering
<1>6. ASSUME NEW g, g.scopes = scopes, gotos' = Append(gotos, g) PROVE SightInv'
  <2>1. /\ Len(gotos') = n + 1 /\ gotos'[n + 1] = g
        /\ \A i \in 1 .. n : gotos'[i] = gotos[i]
    BY <1>3, <1>6, AppendIsSeq
  <2>2. leaves' = Append(leaves, v)
    BY <1>3, <2>1 DEF Observe
  <2>3. /\ IsSeq(leaves') /\ Len(leaves') = m + 1 /\ leaves'[m + 1] = v
        /\ \A i \in 1 .. m : leaves'[i] = leaves[i]
    BY <1>3, <2>2, AppendIsSeq
  <2>4. ASSUME NEW i \in 1 .. n + 1 PROVE leaves'[(m + 1) - (n + 1) + i] = VlasOf(gotos'[i].scopes)
    <3>1. (m + 1) - (n + 1) + i = m - n + i
      BY <1>3
    <3>2. CASE i = n + 1
      <4>1. m - n + i = m + 1
        BY <1>3, <3>2
      <4> QED BY <1>2, <1>6, <2>1, <2>3, <3>1, <3>2, <4>1
    <3>3. CASE i # n + 1
      <4>1. i \in 1 .. n /\ m - n + i \in 1 .. m
        BY <1>3, <3>3
      <4>2. leaves[m - n + i] = VlasOf(gotos[i].scopes)
        BY <4>1 DEF Sighted
      <4> QED BY <2>1, <2>3, <3>1, <4>1, <4>2
    <3> QED BY <3>2, <3>3
  <2>5. Sighted'
    <3>1. n + 1 <= m + 1
      BY <1>3
    <3> QED BY <1>4, <2>1, <2>3, <2>4, <3>1 DEF Sighted
  <2> QED BY <1>1, <2>5 DEF SightInv, RejectsOnlyEntering
<1> QED BY <1>1, <1>5, <1>6

LEMMA PatchSight ==
  ASSUME Good, Sighted, Patch, Observe PROVE SightInv'
<1> PICK m, n : m = Len(leaves) /\ n = Len(gotos)
  OBVIOUS
<1>1. m \in Nat /\ n \in Nat /\ n <= m /\ IsSeq(gotos) /\ IsSeq(leaves)
  BY SeqLen DEF Sighted, Good, PendingLand
<1>2. phase = "patch" /\ targets' = targets
  BY PatchSnapshots DEF Patch, PatchGoto, PatchIndirectLabel, PatchIndirect, Complete
<1>3. \A l \in Labels : arrives'[l] = arrives[l]
  BY <1>2 DEF Observe
<1>4. CASE gotos' = gotos /\ ~(phase' = "vla" /\ gotos # << >>)
  <2>1. leaves' = leaves
    BY <1>1, <1>4 DEF Observe
  <2>2. Sighted'
    BY <1>2, <1>3, <1>4, <2>1 DEF Sighted
  <2> QED BY <1>4, <2>2 DEF SightInv, RejectsOnlyEntering
<1>5. CASE PatchGoto
  <2> PICK g : g = Head(gotos)
    OBVIOUS
  <2>1. n > 0 /\ g = gotos[1] /\ g.label \in Labels /\ 1 \in 1 .. n
    <3>1. n > 0
      BY <1>1, <1>5, NonEmpty DEF PatchGoto
    <3> QED BY <1>1, <3>1, TailIsSeq DEF Good, PendingLand
  <2>2. CASE Rejected(g.scopes, g.label) = "no"
    <3>1. gotos' = Tail(gotos) /\ phase' = phase
      BY <1>5, <2>2 DEF PatchGoto
    <3>2. Len(gotos') = n - 1 /\ \A i \in 1 .. n - 1 : gotos'[i] = gotos[i + 1]
      BY <1>1, <2>1, <3>1, TailIsSeq
    <3>3. leaves' = leaves
      BY <1>1, <3>2 DEF Observe
    <3>4. ASSUME NEW i \in 1 .. n - 1 PROVE leaves[m - (n - 1) + i] = VlasOf(gotos'[i].scopes)
      <4>1. i + 1 \in 1 .. n /\ m - (n - 1) + i = m - n + (i + 1)
        BY <1>1
      <4>2. leaves[m - n + (i + 1)] = VlasOf(gotos[i + 1].scopes)
        BY <4>1 DEF Sighted
      <4> QED BY <3>2, <4>1, <4>2
    <3>5. Sighted'
      <4>1. n - 1 <= m
        BY <1>1
      <4> QED BY <1>1, <1>2, <1>3, <3>2, <3>3, <3>4, <4>1 DEF Sighted
    <3> QED BY <1>2, <3>1, <3>5 DEF SightInv, RejectsOnlyEntering
  <2>3. CASE Rejected(g.scopes, g.label) # "no"
    <3>1. Fail(Rejected(g.scopes, g.label))
      BY <1>5, <2>3 DEF PatchGoto
    <3>2. gotos' = gotos /\ phase' = Rejected(g.scopes, g.label) /\ phase' \notin {"lower", "patch"}
      BY <2>3, <3>1 DEF Fail, Rejected
    <3>3. leaves' = leaves
      BY <1>1, <3>2 DEF Observe
    <3>4. CASE phase' = "vla"
      <4>1. targets[g.label] # Unbound /\ ~VlasOf(targets[g.label].scopes) \subseteq VlasOf(g.scopes)
        BY <3>2, <3>4 DEF Rejected, EntersVla
      <4>2. arrives'[g.label] = VlasOf(targets[g.label].scopes)
        BY <1>3, <2>1, <4>1 DEF Sighted
      <4>3. leaves[m - n + 1] = VlasOf(g.scopes)
        BY <2>1 DEF Sighted
      <4>4. RejectsOnlyEntering'
        BY <3>2, <3>3, <4>1, <4>2, <4>3 DEF RejectsOnlyEntering
      <4> QED BY <3>2, <4>4 DEF SightInv
    <3> QED BY <3>2, <3>4 DEF SightInv, RejectsOnlyEntering
  <2> QED BY <2>2, <2>3
<1>6. CASE ~PatchGoto
  <2>1. gotos' = gotos /\ ~(phase' = "vla" /\ gotos # << >>)
    BY <1>6 DEF Patch, PatchIndirectLabel, PatchIndirect, Complete, Fail
  <2> QED BY <1>4, <2>1
<1> QED BY <1>5, <1>6

LEMMA SightStep ==
  ASSUME NoExpr, BodyInv, RunInv, SightInv, [RunNext]_allVars PROVE SightInv'
<1>1. CASE UNCHANGED <<vars, sight>>
  BY <1>1 DEF vars, sight, SightInv, Sighted, RejectsOnlyEntering
<1>2. CASE Build
  <2>1. Next /\ Observe
    BY <1>2 DEF Build
  <2>2. PICK h, d, t : Lowered(h, d, t)
    BY DEF RunInv
  <2>3. phase \in {"lower", "patch"}
    BY <2>1, <2>2, NextRuns DEF BodyInv
  <2>4. Good /\ SnapInv /\ Sighted /\ Scoped(h, d)
    BY <2>2, <2>3 DEF BodyInv, JInv, SightInv, Lowered
  <2> QED BY <2>1, <2>4, LowerSight, PatchSight DEF Next
<1>3. CASE Execute \/ Jump \/ UNCHANGED allVars
  BY <1>1, <1>3 DEF Execute, Jump, allVars
<1> QED BY <1>2, <1>3 DEF RunNext

(* Without GNU statement expressions, a body is rejected for a VLA only    *)
(* when some jump of it enters the scope of one.                           *)
THEOREM AlwaysRejectsOnlyEntering ==
  ASSUME "expr" \notin Kinds PROVE RunSpec => []RejectsOnlyEntering
<1>1. RunInit => SightInv
  <2> SUFFICES ASSUME RunInit PROVE SightInv
    OBVIOUS
  <2>1. /\ leaves = << >> /\ gotos = << >> /\ targets = [l \in Labels |-> Unbound] /\ phase = "lower"
    BY DEF RunInit, Init
  <2>2. IsSeq(leaves) /\ Len(leaves) = 0 /\ Len(gotos) = 0
    BY <2>1, EmptyIsSeq
  <2>3. Sighted
    BY <2>1, <2>2 DEF Sighted
  <2> QED BY <2>1, <2>3 DEF SightInv, RejectsOnlyEntering
<1>2. BodyInv /\ RunInv /\ SightInv /\ [RunNext]_allVars => (BodyInv /\ RunInv /\ SightInv)'
  BY RunStep, SightStep DEF NoExpr
<1>3. SightInv => RejectsOnlyEntering
  BY DEF SightInv
<1> QED BY InitRun, <1>1, <1>2, <1>3, PTL DEF RunSpec

=============================================================================
