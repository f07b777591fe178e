------------------------- MODULE MoveDataflowProofs -------------------------
(***************************************************************************)
(* Proofs about the data flow of the move checker, for every body, number  *)
(* of blocks and number of locals.                                         *)
(***************************************************************************)
EXTENDS MoveRun, Inductions, TLAPS

-----------------------------------------------------------------------------
(* Lemmas about the operators.                                             *)

LEMMA BlocksFact == 0 \in Blocks /\ Blocks \subseteq Nat /\ 0 \in Locals
BY SizeAssumption DEF Blocks, Locals

LEMMA ApplyType ==
  ASSUME NEW s \in Flags, NEW ev \in Event PROVE Apply(ev, s) \in Flags
BY DEF Apply, Flags, Event

LEMMA JoinType ==
  ASSUME NEW x \in Flags, NEW y \in Flags PROVE Join(x, y) \in Flags
BY DEF Join, Flags

LEMMA PointType ==
  ASSUME NEW f, WellFormed(f), NEW b \in Blocks, NEW i \in 1 .. Len(f.points[b])
  PROVE  f.points[b][i] \in Event
<1>1. f.points[b] \in Seq(Event) BY DEF WellFormed, Body
<1> QED BY <1>1

LEMMA SuccType ==
  ASSUME NEW f, WellFormed(f), NEW b \in Blocks
  PROVE  /\ f.succ[b] \in Seq(Blocks)
         /\ \A i \in 1 .. Len(f.succ[b]) : f.succ[b][i] \in Blocks
<1>1. f.succ[b] \in Seq(Blocks) BY DEF WellFormed, Body
<1> QED BY <1>1

LEMMA PopType ==
  ASSUME NEW s \in Seq(Blocks), s # << >>
  PROVE  Last(s) \in Blocks /\ Front(s) \in Seq(Blocks)
<1>1. Len(s) \in Nat /\ Len(s) > 0 OBVIOUS
<1>2. s[Len(s)] \in Blocks BY <1>1
<1>3. SubSeq(s, 1, Len(s) - 1) \in Seq(Blocks) BY <1>1
<1> QED BY <1>2, <1>3 DEF Last, Front

-----------------------------------------------------------------------------
(* The types.  TypeOK is inductive: the indices a phase uses stay inside   *)
(* the block they index.                                                   *)

Sound == WellFormed(body) /\ ReturnNotWritten(body)

LEMMA TypeStart == Start /\ Sound => TypeOK
<1> SUFFICES ASSUME Start, Sound PROVE TypeOK OBVIOUS
<1>1. WellFormed(body) /\ ReturnNotWritten(body) BY DEF Sound
<1>2. EntryFlags(body) \in Flags /\ NoFlags \in Flags
  BY <1>1 DEF EntryFlags, NoFlags, Flags, WellFormed, Body
<1>3. entry \in [Blocks -> Flags] BY <1>2 DEF Start
<1>4. worklist \in Seq(Blocks) BY BlocksFact DEF Start
<1>5. blk \in 0 .. NumBlocks BY SizeAssumption DEF Start
<1> QED BY <1>1, <1>2, <1>3, <1>4, <1>5 DEF Start, TypeOK, Phases

LEMMA InitSound == Init => Start /\ Sound
BY BodiesAssumption DEF Init, Sound

LEMMA TypeInit == Init => TypeOK
BY TypeStart, InitSound

LEMMA TypeStep == TypeOK /\ [Next]_vars => TypeOK'
<1> SUFFICES ASSUME TypeOK, [Next]_vars PROVE TypeOK' OBVIOUS
<1> USE DEF TypeOK, Phases
<1>0. /\ WellFormed(body) /\ body' = body => WellFormed(body')
      /\ ReturnNotWritten(body) /\ body' = body => ReturnNotWritten(body')
  OBVIOUS
<1>1. CASE Pop
  <2>1. Last(worklist) \in Blocks /\ Front(worklist) \in Seq(Blocks) BY <1>1, PopType DEF Pop
  <2>2. entry[Last(worklist)] \in Flags BY <2>1
  <2>3. 1 \in 1 .. Len(body.points[Last(worklist)]) BY <2>1 DEF WellFormed, Body
  <2>4. Last(worklist) \in 0 .. NumBlocks BY <2>1, SizeAssumption DEF Blocks
  <2> QED BY <1>1, <2>1, <2>2, <2>3, <2>4 DEF Pop
<1>2. CASE Point
  <2>1. ThisPoint \in Event BY <1>2, PointType DEF Point, ThisPoint
  <2>2. flags' \in Flags BY <1>2, <2>1, ApplyType DEF Point
  <2>3. DOMAIN lastAssign' = Locals BY <1>2 DEF Point, Blame
  <2> QED BY <1>2, <2>2, <2>3 DEF Point, LastPoint
<1>3. CASE Edge
  <2>1. blk \in Blocks /\ at \in 1 .. Len(body.succ[blk]) BY <1>3, SuccType DEF Edge
  <2>2. body.succ[blk][at] \in Blocks BY <2>1, SuccType
  <2>3. Join(entry[body.succ[blk][at]], flags) \in Flags BY <2>2, JoinType
  <2>4. entry' \in [Blocks -> Flags] BY <1>3, <2>2, <2>3 DEF Edge
  <2>5. worklist' \in Seq(Blocks) BY <1>3, <2>2 DEF Edge
  <2> QED BY <1>3, <2>1, <2>4, <2>5 DEF Edge
<1>4. CASE NextBlock BY <1>4 DEF NextBlock
<1>5. CASE Converge BY <1>5, SizeAssumption DEF Converge
<1>6. CASE ScanBlock
  <2>1. blk \in Blocks BY <1>6, SizeAssumption DEF ScanBlock, Blocks
  <2>2. entry[blk] \in Flags BY <2>1
  <2>3. 1 \in 1 .. Len(body.points[blk]) BY <2>1 DEF WellFormed, Body
  <2>4. blk + 1 \in 0 .. NumBlocks BY <2>1, SizeAssumption DEF Blocks
  <2> QED BY <1>6, <2>1, <2>2, <2>3, <2>4 DEF ScanBlock
<1>7. CASE Replay
  <2>1. ThisPoint \in Event BY <1>7, PointType DEF Replay, ThisPoint
  <2>2. flags' \in Flags BY <1>7, <2>1, ApplyType DEF Replay
  <2>3. DOMAIN lastAssign' = Locals BY <1>7 DEF Replay, Blame
  <2>4. blk + 1 \in 0 .. NumBlocks BY <1>7, SizeAssumption DEF Blocks, Replay
  <2> QED BY <1>7, <2>2, <2>3, <2>4 DEF Replay, LastPoint
<1>8. CASE Finish BY <1>8 DEF Finish
<1>9. CASE UNCHANGED vars BY <1>9 DEF vars
<1> QED BY <1>1, <1>2, <1>3, <1>4, <1>5, <1>6, <1>7, <1>8, <1>9 DEF Next

(* analyze() stays inside the body it walks: every block, point and edge   *)
(* index is in range in every phase.                                       *)
THEOREM TypeCorrect == Spec => []TypeOK
<1>1. Init => TypeOK BY TypeInit
<1>2. TypeOK /\ [Next]_vars => TypeOK' BY TypeStep
<1> QED BY <1>1, <1>2, PTL DEF Spec

-----------------------------------------------------------------------------
(***************************************************************************)
(* The fixpoint.  A trace follows the flags through the points of a block  *)
(* from in-state s.  A block is closed when its trace from its current     *)
(* in-state has all its errors recorded and flows into its successors.     *)
(***************************************************************************)
Trace(b, s, n, tr) ==
  /\ tr \in [1 .. n -> Flags]
  /\ tr[1] = s
  /\ \A i \in 1 .. n - 1 : tr[i + 1] = Apply(body.points[b][i], tr[i])

Exit(b) == Len(body.points[b]) + 1

Recorded(b, i, s) ==
  \A e \in ErrorsAt(body.points[b][i], s) : <<b, i, e[1], e[2]>> \in errors

Walked(b, n, tr) ==
  /\ Trace(b, entry[b], n, tr)
  /\ \A i \in 1 .. n - 1 : Recorded(b, i, tr[i])

Flows(s, b, n) == \A k \in 1 .. n : Leq(s, entry[body.succ[b][k]])

Closed(b) == \E tr : Walked(b, Exit(b), tr) /\ Flows(tr[Exit(b)], b, Len(body.succ[b]))

Queued(b) == \E i \in 1 .. Len(worklist) : worklist[i] = b

(* The block in hand: what its walk has done so far.                       *)
InHand ==
  /\ phase = "points" => \E tr : Walked(blk, at, tr) /\ tr[at] = flags
  /\ phase = "edges" =>
       \/ Queued(blk)
       \/ \E tr : /\ Walked(blk, Exit(blk), tr) /\ tr[Exit(blk)] = flags
                  /\ Flows(flags, blk, at - 1)

(* Every block anything has flowed into is queued, in hand or closed.      *)
AllClosed ==
  \A b \in Blocks : entry[b] # NoFlags =>
    Queued(b) \/ Closed(b) \/ (b = blk /\ phase \in {"points", "edges"})

LeaksOf(s) == \A p \in (s.owned \cap body.needsDrop) \ {ReturnLocal} : \E l \in leaks : l[1] = p

(* The return blocks already scanned have had their leaks recorded.        *)
Scanned ==
  /\ phase \in {"scan", "replay", "done"} =>
       /\ worklist = << >>
       /\ \A b \in body.returns : b < blk =>
            \E tr : Trace(b, entry[b], Exit(b), tr) /\ LeaksOf(tr[Exit(b)])
  /\ phase = "replay" => \E tr : Trace(blk, entry[blk], at, tr) /\ tr[at] = flags
  /\ phase = "done" => blk = NumBlocks

Inv == /\ TypeOK
       /\ Leq(EntryFlags(body), entry[0])
       /\ AllClosed /\ InHand /\ Scanned

LEMMA LeqTrans ==
  ASSUME NEW x, NEW y, NEW z, Leq(x, y), Leq(y, z) PROVE Leq(x, z)
BY DEF Leq

LEMMA JoinUpper == ASSUME NEW x, NEW y PROVE Leq(x, Join(x, y)) /\ Leq(y, Join(x, y))
BY DEF Leq, Join

LEMMA JoinSame ==
  ASSUME NEW x, NEW y, Join(x, y) = x PROVE Leq(y, x)
BY JoinUpper

(* One more point continues a trace.                                       *)
Extends(b, s, n, tr, x) ==
  /\ Trace(b, s, n + 1, x)
  /\ x[n + 1] = Apply(body.points[b][n], tr[n])
  /\ \A k \in 1 .. n : x[k] = tr[k]

LEMMA TraceStep ==
  ASSUME TypeOK, NEW b \in Blocks, NEW s, NEW n \in 1 .. Len(body.points[b]), NEW tr,
         Trace(b, s, n, tr)
  PROVE  \E x : Extends(b, s, n, tr, x)
<1> DEFINE x == [k \in 1 .. n + 1 |-> IF k = n + 1 THEN Apply(body.points[b][n], tr[n]) ELSE tr[k]]
<1>1. body.points[b][n] \in Event BY PointType DEF TypeOK
<1>2. tr[n] \in Flags BY DEF Trace
<1>3. Apply(body.points[b][n], tr[n]) \in Flags BY <1>1, <1>2, ApplyType
<1>4. x \in [1 .. n + 1 -> Flags] BY <1>3 DEF Trace
<1>5. x[n + 1] = Apply(body.points[b][n], tr[n]) OBVIOUS
<1>6. \A k \in 1 .. n : x[k] = tr[k] OBVIOUS
<1>7. \A i \in 1 .. n : x[i + 1] = Apply(body.points[b][i], x[i])
  <2> SUFFICES ASSUME NEW i \in 1 .. n PROVE x[i + 1] = Apply(body.points[b][i], x[i]) OBVIOUS
  <2>1. CASE i = n BY <2>1, <1>5, <1>6
  <2>2. CASE i # n
    <3>1. i \in 1 .. n - 1 /\ i + 1 \in 1 .. n BY <2>2
    <3> QED BY <3>1, <1>6 DEF Trace
  <2> QED BY <2>1, <2>2
<1>8. x[1] = s BY <1>6 DEF Trace
<1>9. Trace(b, s, n + 1, x) BY <1>4, <1>7, <1>8 DEF Trace
<1>10. Extends(b, s, n, tr, x) BY <1>5, <1>6, <1>9 DEF Extends
<1> QED BY <1>10

LEMMA TraceStart ==
  ASSUME NEW b, NEW s \in Flags
  PROVE  Trace(b, s, 1, [k \in 1 .. 1 |-> s])
BY DEF Trace

LEMMA InvStart == Start /\ Sound => Inv
<1> SUFFICES ASSUME Start, Sound PROVE Inv OBVIOUS
<1>1. TypeOK BY TypeStart
<1>2. entry[0] = EntryFlags(body) BY BlocksFact DEF Start
<1>3. Leq(EntryFlags(body), entry[0]) BY <1>2 DEF Leq
<1>4. AllClosed
  <2> SUFFICES ASSUME NEW b \in Blocks, entry[b] # NoFlags PROVE Queued(b) BY DEF AllClosed
  <2>1. b = 0 BY DEF Start
  <2> QED BY <2>1 DEF Start, Queued
<1> QED BY <1>1, <1>3, <1>4 DEF Inv, Start, InHand, Scanned

LEMMA InvInit == Init => Inv
BY InvStart, InitSound

(* In-states that only grow and errors that only accumulate keep a walk,   *)
(* and with it a closed block whose own in-state did not change.           *)
LEMMA WalkedKept ==
  ASSUME body' = body, errors \subseteq errors', NEW b, entry'[b] = entry[b],
         NEW n, NEW tr, Walked(b, n, tr)
  PROVE  Walked(b, n, tr)'
BY DEF Walked, Trace, Recorded

LEMMA FlowsKept ==
  ASSUME TypeOK, body' = body, \A t \in Blocks : Leq(entry[t], entry'[t]),
         NEW b \in Blocks, NEW s, NEW n \in 0 .. Len(body.succ[b]), Flows(s, b, n)
  PROVE  Flows(s, b, n)'
<1> SUFFICES ASSUME NEW k \in 1 .. n PROVE Leq(s, entry'[body.succ[b][k]]) BY DEF Flows
<1>1. Len(body.succ[b]) \in Nat BY SuccType DEF TypeOK
<1>2. body.succ[b][k] \in Blocks BY <1>1, SuccType DEF TypeOK
<1> QED BY <1>2, LeqTrans DEF Flows

LEMMA ClosedKept ==
  ASSUME TypeOK, body' = body, errors \subseteq errors',
         \A t \in Blocks : Leq(entry[t], entry'[t]),
         NEW b \in Blocks, entry'[b] = entry[b], Closed(b)
  PROVE  Closed(b)'
<1>1. PICK tr : Walked(b, Exit(b), tr) /\ Flows(tr[Exit(b)], b, Len(body.succ[b]))
  BY DEF Closed
<1>2. Exit(b)' = Exit(b) BY DEF Exit
<1>3. PICK n, m : n = Exit(b) /\ m = Len(body.succ[b]) OBVIOUS
<1>4. m \in 0 .. Len(body.succ[b]) BY <1>3, SuccType DEF TypeOK
<1>5. Walked(b, n, tr)' BY <1>1, <1>3, WalkedKept
<1>6. Flows(tr[n], b, m)' BY <1>1, <1>3, <1>4, FlowsKept
<1>7. Walked(b, Exit(b), tr)' /\ Flows(tr[Exit(b)], b, Len(body.succ[b]))'
  BY <1>2, <1>3, <1>5, <1>6
<1> QED BY <1>7 DEF Closed

LEMMA PopStep == Inv /\ Pop => Inv'
<1> SUFFICES ASSUME Inv, Pop PROVE Inv' OBVIOUS
<1> USE DEF Inv
<1>1. TypeOK' BY TypeStep DEF Next
<1>2. /\ body' = body /\ entry' = entry /\ errors' = errors /\ phase = "pop" /\ phase' = "points"
      /\ at' = 1 /\ flags' = entry[blk'] /\ worklist' = Front(worklist)
      /\ worklist # << >> /\ blk' = Last(worklist)
  BY DEF Pop
<1>3. blk' \in Blocks BY <1>2, PopType DEF TypeOK
<1>4. Leq(EntryFlags(body), entry[0])' BY <1>2
<1>5. AllClosed'
  <2> SUFFICES ASSUME NEW b \in Blocks, entry[b] # NoFlags, b # blk' PROVE Queued(b)' \/ Closed(b)'
    BY <1>2 DEF AllClosed
  <2>1. CASE Closed(b) BY <2>1, <1>2, ClosedKept DEF Leq
  <2>2. CASE Queued(b)
    <3>1. PICK i \in 1 .. Len(worklist) : worklist[i] = b BY <2>2 DEF Queued
    <3>2. Len(worklist) \in Nat /\ worklist[Len(worklist)] = blk' BY <1>2 DEF TypeOK, Last
    <3>3. i \in 1 .. Len(worklist) - 1 BY <3>1, <3>2
    <3>4. worklist \in Seq(Blocks) BY DEF TypeOK
    <3>5. Len(worklist') = Len(worklist) - 1 /\ worklist'[i] = b
      BY <3>1, <3>2, <3>3, <3>4, <1>2 DEF Front
    <3> QED BY <3>3, <3>5 DEF Queued
  <2> QED BY <2>1, <2>2, <1>2 DEF AllClosed
<1>6. InHand'
  <2>1. PICK c, fl, tr : c = blk' /\ fl = flags' /\ tr = [k \in 1 .. 1 |-> fl] OBVIOUS
  <2>2. c \in Blocks /\ fl = entry[c] /\ fl \in Flags BY <2>1, <1>2, <1>3 DEF TypeOK
  <2>3. Trace(c, entry[c], 1, tr)' BY <2>1, <2>2, <1>2 DEF Trace
  <2>4. Walked(c, 1, tr)' BY <2>3 DEF Walked
  <2> QED BY <2>1, <2>4, <1>2 DEF InHand
<1>7. Scanned' BY <1>2 DEF Scanned
<1> QED BY <1>1, <1>4, <1>5, <1>6, <1>7

LEMMA PointStep == Inv /\ Point => Inv'
<1> SUFFICES ASSUME Inv, Point PROVE Inv' OBVIOUS
<1> USE DEF Inv
<1>1. TypeOK' BY TypeStep DEF Next
<1>2. /\ body' = body /\ entry' = entry /\ worklist' = worklist /\ blk' = blk
      /\ phase = "points" /\ phase' \in {"points", "edges"}
      /\ errors \subseteq errors' /\ flags' = Apply(ThisPoint, flags)
  BY DEF Point
<1>3. blk \in Blocks /\ at \in 1 .. Len(body.points[blk]) BY <1>2 DEF TypeOK
<1>4. Leq(EntryFlags(body), entry[0])' BY <1>2
<1>5. AllClosed'
  <2> SUFFICES ASSUME NEW b \in Blocks, entry[b] # NoFlags, b # blk PROVE Queued(b)' \/ Closed(b)'
    BY <1>2 DEF AllClosed
  <2>1. CASE Closed(b) BY <2>1, <1>2, ClosedKept DEF Leq
  <2>2. CASE Queued(b) BY <2>2, <1>2 DEF Queued
  <2> QED BY <2>1, <2>2, <1>2 DEF AllClosed
<1>6. InHand'
  <2>1. PICK tr : Walked(blk, at, tr) /\ tr[at] = flags BY <1>2 DEF InHand
  <2>2. PICK c, n, e : c = blk /\ n = at /\ e = entry[c] OBVIOUS
  <2>3. c \in Blocks /\ n \in 1 .. Len(body.points[c]) BY <2>2, <1>3
  <2>4. Trace(c, e, n, tr) BY <2>1, <2>2 DEF Walked
  <2>5. PICK x : /\ Trace(c, e, n + 1, x)
                 /\ x[n + 1] = Apply(body.points[c][n], tr[n])
                 /\ \A k \in 1 .. n : x[k] = tr[k]
    <3>1. TypeOK OBVIOUS
    <3>2. \E x : Extends(c, e, n, tr, x) BY ONLY <3>1, <2>3, <2>4, TraceStep
    <3> QED BY ONLY <3>2 DEF Extends
  <2>6. x[n + 1] = flags' /\ x[n] = flags BY <2>1, <2>2, <2>3, <2>5, <1>2 DEF ThisPoint
  <2>7. Recorded(c, n, x[n])' BY <2>2, <2>6, <1>2 DEF Point, ThisPoint, Recorded
  <2>8. \A i \in 1 .. n : Recorded(c, i, x[i])'
    <3> SUFFICES ASSUME NEW i \in 1 .. n, i # n PROVE Recorded(c, i, x[i])' BY <2>7
    <3>1. i \in 1 .. n - 1 BY <2>3
    <3>2. Recorded(c, i, tr[i]) BY <3>1, <2>1, <2>2 DEF Walked
    <3> QED BY <3>2, <2>5, <1>2 DEF Recorded
  <2>9. Trace(c, entry[c], n + 1, x)' BY <2>2, <2>5, <1>2 DEF Trace
  <2>10. (n + 1) - 1 = n BY <2>3
  <2>11. Walked(c, n + 1, x)' BY <2>8, <2>9, <2>10 DEF Walked
  <2>12. CASE LastPoint
    <3>1. phase' = "edges" /\ at' = 1 BY <2>12 DEF Point
    <3>2. n + 1 = Exit(c)' BY <2>12, <2>2, <1>2 DEF LastPoint, Exit
    <3>3. Flows(flags, c, at - 1)' BY <3>1 DEF Flows
    <3> QED BY <3>1, <3>2, <3>3, <2>2, <2>6, <2>11, <1>2 DEF InHand
  <2>13. CASE ~LastPoint
    <3>1. phase' = "points" /\ at' = n + 1 BY <2>13, <2>2 DEF Point
    <3> QED BY <3>1, <2>2, <2>6, <2>11, <1>2 DEF InHand
  <2> QED BY <2>12, <2>13
<1>7. Scanned' BY <1>2 DEF Scanned
<1> QED BY <1>1, <1>4, <1>5, <1>6, <1>7

LEMMA EdgeStep == Inv /\ Edge => Inv'
<1> SUFFICES ASSUME Inv, Edge PROVE Inv' OBVIOUS
<1> USE DEF Inv
<1>1. TypeOK' BY TypeStep DEF Next
<1> PICK c, n, t : c = blk /\ n = at /\ t = body.succ[blk][at] OBVIOUS
<1>2. /\ body' = body /\ errors' = errors /\ blk' = c /\ phase = "edges" /\ phase' = "edges"
      /\ flags' = flags /\ at' = n + 1
      /\ entry' = [entry EXCEPT ![t] = Join(entry[t], flags)]
      /\ worklist' = IF Join(entry[t], flags) # entry[t] THEN Append(worklist, t) ELSE worklist
  BY DEF Edge
<1>3. c \in Blocks /\ n \in 1 .. Len(body.succ[c]) BY SuccType DEF Edge, TypeOK
<1>4. t \in Blocks BY <1>3, SuccType DEF TypeOK
<1>5. entry'[t] = Join(entry[t], flags) /\ \A b \in Blocks : b # t => entry'[b] = entry[b]
  BY <1>2, <1>4 DEF TypeOK
<1>6. \A b \in Blocks : Leq(entry[b], entry'[b]) BY <1>5, JoinUpper DEF Leq
<1>7. Leq(flags, entry'[t]) BY <1>5, JoinUpper
<1>8. \A b : Queued(b) => Queued(b)'
  <2> SUFFICES ASSUME NEW b, Queued(b) PROVE Queued(b)' OBVIOUS
  <2>1. PICK i \in 1 .. Len(worklist) : worklist[i] = b BY DEF Queued
  <2>2. CASE worklist' = worklist BY <2>1, <2>2 DEF Queued
  <2>3. CASE worklist' = Append(worklist, t)
    <3>1. worklist \in Seq(Blocks) BY DEF TypeOK
    <3>2. Len(worklist') = Len(worklist) + 1 /\ worklist'[i] = worklist[i] BY <3>1, <2>1, <2>3
    <3>3. i \in 1 .. Len(worklist') BY <3>1, <3>2, <2>1
    <3> QED BY <2>1, <3>2, <3>3 DEF Queued
  <2> QED BY <2>2, <2>3, <1>2
<1>9. entry'[t] # entry[t] => Queued(t)'
  <2> SUFFICES ASSUME entry'[t] # entry[t] PROVE Queued(t)' OBVIOUS
  <2>1. worklist' = Append(worklist, t) /\ worklist \in Seq(Blocks) BY <1>2, <1>5 DEF TypeOK
  <2>2. Len(worklist') = Len(worklist) + 1 /\ worklist'[Len(worklist) + 1] = t BY <2>1, <1>4
  <2>3. Len(worklist) + 1 \in 1 .. Len(worklist') BY <2>1, <2>2
  <2> QED BY <2>2, <2>3 DEF Queued
<1>10. Leq(EntryFlags(body), entry[0])'
  BY <1>2, <1>6, BlocksFact, LeqTrans
<1>11. AllClosed'
  <2> SUFFICES ASSUME NEW b \in Blocks, entry'[b] # NoFlags, b # c PROVE Queued(b)' \/ Closed(b)'
    BY <1>2 DEF AllClosed
  <2>1. CASE entry'[b] # entry[b] BY <2>1, <1>5, <1>9
  <2>2. CASE entry'[b] = entry[b]
    <3>1. Queued(b) \/ Closed(b) BY <2>2 DEF AllClosed
    <3>2. Closed(b) => Closed(b)' BY <2>2, <1>2, <1>6, ClosedKept
    <3> QED BY <3>1, <3>2, <1>8
  <2> QED BY <2>1, <2>2
<1>12. InHand'
  <2>1. CASE Queued(c)' BY <2>1, <1>2 DEF InHand
  <2>2. CASE ~Queued(c)'
    <3>1. entry'[c] = entry[c] BY <2>2, <1>3, <1>5, <1>9
    <3>2. ~Queued(c) BY <2>2, <1>8
    <3>3. PICK tr : /\ Walked(blk, Exit(blk), tr) /\ tr[Exit(blk)] = flags
                    /\ Flows(flags, blk, at - 1)
      BY <3>2, <1>2 DEF InHand
    <3>4. PICK x, fl : x = Exit(c) /\ fl = flags OBVIOUS
    <3>5. Walked(c, x, tr)' BY <3>1, <3>3, <3>4, <1>2, WalkedKept
    <3>6. Flows(fl, c, n - 1)' BY <3>3, <3>4, <1>2, <1>3, <1>6, FlowsKept
    <3>7. Flows(fl, c, n)'
      <4> SUFFICES ASSUME NEW k \in 1 .. n PROVE Leq(fl, entry'[body.succ[c][k]])
        BY <1>2 DEF Flows
      <4>1. CASE k = n BY <4>1, <3>4, <1>7
      <4>2. CASE k # n
        <5>1. k \in 1 .. n - 1 BY <4>2, <1>3
        <5> QED BY <5>1, <3>6, <1>2 DEF Flows
      <4> QED BY <4>1, <4>2
    <3>8. Exit(c)' = x BY <3>4, <1>2 DEF Exit
    <3>9. (n + 1) - 1 = n BY <1>3
    <3> QED BY <3>3, <3>4, <3>5, <3>7, <3>8, <3>9, <1>2 DEF InHand
  <2> QED BY <2>1, <2>2
<1>13. Scanned' BY <1>2 DEF Scanned
<1> QED BY <1>1, <1>10, <1>11, <1>12, <1>13

LEMMA NextBlockStep == Inv /\ NextBlock => Inv'
<1> SUFFICES ASSUME Inv, NextBlock PROVE Inv' OBVIOUS
<1> USE DEF Inv
<1>1. TypeOK' BY TypeStep DEF Next
<1>2. /\ body' = body /\ errors' = errors /\ entry' = entry /\ worklist' = worklist /\ blk' = blk
      /\ phase = "edges" /\ phase' = "pop"
  BY DEF NextBlock
<1>3. blk \in Blocks BY <1>2 DEF TypeOK
<1>4. Queued(blk) \/ Closed(blk)
  <2> SUFFICES ASSUME ~Queued(blk) PROVE Closed(blk) OBVIOUS
  <2>1. PICK tr : /\ Walked(blk, Exit(blk), tr) /\ tr[Exit(blk)] = flags
                  /\ Flows(flags, blk, at - 1)
    BY <1>2 DEF InHand
  <2>2. at - 1 >= Len(body.succ[blk]) /\ Len(body.succ[blk]) \in Nat /\ at \in Nat
    BY <1>3, SuccType DEF NextBlock, TypeOK
  <2>3. Flows(flags, blk, Len(body.succ[blk])) BY <2>1, <2>2 DEF Flows
  <2> QED BY <2>1, <2>3 DEF Closed
<1>5. \A b \in Blocks : Closed(b) => Closed(b)'
  BY <1>2, ClosedKept DEF Leq
<1>6. \A b : Queued(b) => Queued(b)' BY <1>2 DEF Queued
<1>7. AllClosed'
  <2> SUFFICES ASSUME NEW b \in Blocks, entry[b] # NoFlags PROVE Queued(b)' \/ Closed(b)'
    BY <1>2 DEF AllClosed
  <2>1. Queued(b) \/ Closed(b) BY <1>4 DEF AllClosed
  <2> QED BY <2>1, <1>5, <1>6
<1>8. InHand' /\ Scanned' BY <1>2 DEF InHand, Scanned
<1> QED BY <1>1, <1>2, <1>7, <1>8

(* The steps after the fixpoint leave the in-states and the errors alone.  *)
LEMMA SettledKept ==
  ASSUME Inv, body' = body, errors' = errors, entry' = entry, worklist' = worklist,
         phase \notin {"points", "edges"}, phase' \notin {"points", "edges"}
  PROVE  Leq(EntryFlags(body), entry[0])' /\ AllClosed' /\ InHand'
<1> USE DEF Inv
<1>1. \A b \in Blocks : Closed(b) => Closed(b)' BY ClosedKept DEF Leq
<1>2. \A b : Queued(b) => Queued(b)' BY DEF Queued
<1>3. AllClosed' BY <1>1, <1>2 DEF AllClosed
<1> QED BY <1>3 DEF InHand

LEMMA ConvergeStep == Inv /\ Converge => Inv'
<1> SUFFICES ASSUME Inv, Converge PROVE Inv' OBVIOUS
<1> USE DEF Inv
<1>1. TypeOK' BY TypeStep DEF Next
<1>2. Leq(EntryFlags(body), entry[0])' /\ AllClosed' /\ InHand' BY SettledKept DEF Converge
<1>3. \A b \in body.returns : ~(b < 0) BY DEF TypeOK, WellFormed, Body, Blocks
<1>4. Scanned' BY <1>3 DEF Scanned, Converge
<1> QED BY <1>1, <1>2, <1>4

LEMMA ScanBlockStep == Inv /\ ScanBlock => Inv'
<1> SUFFICES ASSUME Inv, ScanBlock PROVE Inv' OBVIOUS
<1> USE DEF Inv
<1>1. TypeOK' BY TypeStep DEF Next
<1>2. /\ body' = body /\ errors' = errors /\ entry' = entry /\ worklist' = worklist /\ leaks' = leaks
      /\ phase = "scan" /\ phase' \in {"scan", "replay"}
  BY DEF ScanBlock
<1>3. Leq(EntryFlags(body), entry[0])' /\ AllClosed' /\ InHand' BY <1>2, SettledKept
<1>4. blk \in Blocks BY SizeAssumption DEF ScanBlock, TypeOK, Blocks
<1>5. \A b \in body.returns : b < blk' => b < blk
  BY <1>4 DEF ScanBlock, TypeOK, WellFormed, Body, Blocks
<1>6. \A b \in body.returns : b < blk' =>
        (\E tr : Trace(b, entry[b], Exit(b), tr) /\ LeaksOf(tr[Exit(b)]))'
  BY <1>2, <1>5 DEF Scanned, Trace, Exit, LeaksOf
<1>7. phase' = "replay" => (\E tr : Trace(blk, entry[blk], at, tr) /\ tr[at] = flags)'
  <2> SUFFICES ASSUME phase' = "replay" PROVE (\E tr : Trace(blk, entry[blk], at, tr) /\ tr[at] = flags)'
    OBVIOUS
  <2>1. blk' = blk /\ at' = 1 /\ flags' = entry[blk] BY <1>2 DEF ScanBlock
  <2>2. PICK c, fl, tr : c = blk /\ fl = entry[blk] /\ tr = [k \in 1 .. 1 |-> fl] OBVIOUS
  <2>3. fl \in Flags BY <2>2, <1>4 DEF TypeOK
  <2>4. Trace(c, fl, 1, tr)' BY <2>2, <2>3 DEF Trace
  <2> QED BY <2>1, <2>2, <2>4, <1>2
<1>8. Scanned' BY <1>2, <1>6, <1>7 DEF Scanned
<1> QED BY <1>1, <1>3, <1>8

LEMMA ReplayStep == Inv /\ Replay => Inv'
<1> SUFFICES ASSUME Inv, Replay PROVE Inv' OBVIOUS
<1> USE DEF Inv
<1>1. TypeOK' BY TypeStep DEF Next
<1>2. /\ body' = body /\ errors' = errors /\ entry' = entry /\ worklist' = worklist
      /\ leaks \subseteq leaks'
      /\ phase = "replay" /\ phase' \in {"scan", "replay"}
      /\ flags' = Apply(ThisPoint, flags)
  BY DEF Replay
<1>3. Leq(EntryFlags(body), entry[0])' /\ AllClosed' /\ InHand' BY <1>2, SettledKept
<1>4. blk \in Blocks /\ at \in 1 .. Len(body.points[blk]) BY <1>2 DEF TypeOK
<1>5. PICK tr : Trace(blk, entry[blk], at, tr) /\ tr[at] = flags BY <1>2 DEF Scanned
<1>6. PICK c, n, e : c = blk /\ n = at /\ e = entry[c] OBVIOUS
<1>7. PICK x : /\ Trace(c, e, n + 1, x)
               /\ x[n + 1] = Apply(body.points[c][n], tr[n])
               /\ \A k \in 1 .. n : x[k] = tr[k]
  <2>1. TypeOK OBVIOUS
  <2>2. c \in Blocks /\ n \in 1 .. Len(body.points[c]) BY <1>4, <1>6
  <2>3. Trace(c, e, n, tr) BY <1>5, <1>6
  <2>4. \E y : Extends(c, e, n, tr, y) BY ONLY <2>1, <2>2, <2>3, TraceStep
  <2> QED BY ONLY <2>4 DEF Extends
<1>8. x[n + 1] = flags' BY <1>2, <1>5, <1>6, <1>7 DEF ThisPoint
<1>9. Trace(c, entry[c], n + 1, x)' BY <1>2, <1>6, <1>7 DEF Trace
<1>10. \A b \in body.returns : b < blk =>
        (\E y : Trace(b, entry[b], Exit(b), y) /\ LeaksOf(y[Exit(b)]))'
  BY <1>2 DEF Scanned, Trace, Exit, LeaksOf
<1>11. CASE LastPoint
  <2>1. /\ phase' = "scan" /\ blk' = c + 1 /\ n + 1 = Exit(c)'
        /\ leaks' = leaks \cup Leaked(flags', lastAssign')
    BY <1>2, <1>6, <1>11 DEF Replay, LastPoint, Exit
  <2>2. LeaksOf(flags)'
    <3> SUFFICES ASSUME NEW p \in (flags'.owned \cap body.needsDrop) \ {ReturnLocal}
                 PROVE  \E l \in leaks' : l[1] = p
      BY <1>2 DEF LeaksOf
    <3>1. <<p, lastAssign'[p]>> \in Leaked(flags', lastAssign') BY DEF Leaked
    <3> QED BY <2>1, <3>1
  <2>3. (Trace(c, entry[c], Exit(c), x) /\ LeaksOf(x[Exit(c)]))'
    BY <2>1, <2>2, <1>8, <1>9 DEF LeaksOf
  <2>4. \A b \in body.returns : b < blk' => b < blk \/ b = c
    BY <2>1, <1>4, <1>6 DEF TypeOK, WellFormed, Body, Blocks
  <2> QED BY <2>1, <2>3, <2>4, <1>1, <1>2, <1>3, <1>10 DEF Scanned
<1>12. CASE ~LastPoint
  <2>1. phase' = "replay" /\ blk' = c /\ at' = n + 1 BY <1>2, <1>6, <1>12 DEF Replay
  <2> QED BY <2>1, <1>1, <1>2, <1>3, <1>6, <1>8, <1>9, <1>10 DEF Scanned
<1> QED BY <1>11, <1>12

LEMMA FinishStep == Inv /\ Finish => Inv'
<1> SUFFICES ASSUME Inv, Finish PROVE Inv' OBVIOUS
<1> USE DEF Inv
<1>1. TypeOK' BY TypeStep DEF Next
<1>2. Leq(EntryFlags(body), entry[0])' /\ AllClosed' /\ InHand' BY SettledKept DEF Finish
<1>3. Scanned' BY DEF Scanned, Finish, Trace, Exit, LeaksOf
<1> QED BY <1>1, <1>2, <1>3

LEMMA StutterStep == Inv /\ UNCHANGED vars => Inv'
<1> SUFFICES ASSUME Inv, UNCHANGED vars PROVE Inv' OBVIOUS
<1> USE DEF Inv
<1>1. TypeOK' BY TypeStep
<1>2. /\ body' = body /\ phase' = phase /\ worklist' = worklist /\ entry' = entry /\ blk' = blk
      /\ at' = at /\ flags' = flags /\ errors' = errors /\ leaks' = leaks
  BY DEF vars
<1>3. AllClosed' BY <1>2 DEF AllClosed, Queued, Closed, Walked, Trace, Recorded, Flows, Exit
<1>4. InHand' BY <1>2 DEF InHand, Queued, Walked, Trace, Recorded, Flows, Exit
<1>5. Scanned' BY <1>2 DEF Scanned, Trace, Exit, LeaksOf
<1> QED BY <1>1, <1>2, <1>3, <1>4, <1>5

LEMMA InvStep == Inv /\ [Next]_vars => Inv'
BY PopStep, PointStep, EdgeStep, NextBlockStep, ConvergeStep, ScanBlockStep, ReplayStep,
   FinishStep, StutterStep DEF Next

-----------------------------------------------------------------------------
(***************************************************************************)
(* Soundness.  An execution is covered by every trace of the block it is   *)
(* in, from the block's converged in-state.                                *)
(***************************************************************************)
Covered ==
  /\ entry[bb] # NoFlags
  /\ \A tr : Trace(bb, entry[bb], Exit(bb), tr) => Leq(Concrete(status), tr[pt])

RunInv ==
  /\ Inv
  /\ bb \in Blocks /\ pt \in 1 .. Exit(bb) /\ status \in [Locals -> Status]
  /\ status[ReturnLocal] # "filled"
  /\ phase # "done" => bb = 0 /\ pt = 1 /\ Concrete(status) = EntryFlags(body)
  /\ phase = "done" => Covered

(* One point: the flags after it cover the statuses after it.              *)
LEMMA ApplyCovers ==
  ASSUME NEW st \in [Locals -> Status], NEW s \in Flags, NEW ev \in Event, Leq(Concrete(st), s)
  PROVE  Leq(Concrete([p \in Locals |-> After(st[p], p, ev)]), Apply(ev, s))
BY DEF Concrete, Leq, Apply, After, Status, Flags, Event

LEMMA AfterType ==
  ASSUME NEW st \in Status, NEW p, NEW ev PROVE After(st, p, ev) \in Status
BY DEF After, Status

(* Flags that cover a status report the move error it commits.             *)
LEMMA ErrorsCover ==
  ASSUME NEW st \in [Locals -> Status], NEW s \in Flags, NEW ev, Leq(Concrete(st), s),
         NEW p \in Locals, IsMoveError(st[p], p, ev)
  PROVE  \E kind \in {"Moved", "Uninit"} :
           /\ <<p, kind>> \in ErrorsAt(ev, s)
           /\ st[p] = "moved" => kind = "Moved"
<1>1. st[p] = "moved" => p \in s.moved BY DEF Leq, Concrete
<1>2. st[p] \in {"uninit", "moved"} => p \in s.uninit BY DEF Leq, Concrete
<1>3. CASE p \in ev.accessed /\ st[p] \in {"uninit", "moved"}
  <2>1. <<p, IF p \in s.moved THEN "Moved" ELSE "Uninit">> \in ErrorsAt(ev, s)
    BY <1>2, <1>3 DEF ErrorsAt
  <2> QED BY <2>1, <1>1
<1>4. CASE p \in ev.borrowed /\ st[p] = "moved"
  <2>1. <<p, "Moved">> \in ErrorsAt(ev, s) BY <1>1, <1>4 DEF ErrorsAt
  <2> QED BY <2>1
<1> QED BY <1>3, <1>4 DEF IsMoveError

(* The return place always carries a bit, so no reached in-state is empty: *)
(* this is why the worklist reaches every block an execution can reach.    *)
LEMMA NonEmpty ==
  ASSUME NEW st \in [Locals -> Status], st[ReturnLocal] # "filled", NEW s, Leq(Concrete(st), s)
  PROVE  s # NoFlags
<1>1. ReturnLocal \in Locals BY BlocksFact DEF ReturnLocal
<1>2. ReturnLocal \in Concrete(st).uninit \/ ReturnLocal \in Concrete(st).owned
  BY <1>1 DEF Concrete, Status
<1> QED BY <1>2 DEF Leq, NoFlags

LEMMA RunInvInit == RunInit => RunInv
<1> SUFFICES ASSUME RunInit PROVE RunInv OBVIOUS
<1>1. Inv BY InvInit DEF RunInit
<1>2. bb = 0 /\ pt = 1 /\ status = [p \in Locals |-> InitialStatus(body, p)] /\ phase = "pop"
  BY DEF RunInit, Init, Start
<1>3. body.args \subseteq Locals \ {ReturnLocal} /\ WellFormed(body)
  BY <1>1 DEF Inv, TypeOK, WellFormed, Body
<1>4. status \in [Locals -> Status] BY <1>2 DEF InitialStatus, Status
<1>5. ReturnLocal \in Locals BY BlocksFact DEF ReturnLocal
<1>6. status[ReturnLocal] = "uninit" BY <1>2, <1>3, <1>5 DEF InitialStatus
<1>7. Concrete(status) = EntryFlags(body)
  BY <1>2, <1>3 DEF Concrete, InitialStatus, EntryFlags
<1>8. bb \in Blocks /\ pt \in 1 .. Exit(bb) BY <1>2, <1>3, BlocksFact DEF Exit, WellFormed, Body
<1> QED BY <1>1, <1>2, <1>4, <1>6, <1>7, <1>8 DEF RunInv

LEMMA AnalyzeStep == RunInv /\ Analyze => RunInv'
<1> SUFFICES ASSUME RunInv, Analyze PROVE RunInv' OBVIOUS
<1>1. Inv /\ Inv' BY InvStep DEF RunInv, Analyze
<1>2. bb' = bb /\ pt' = pt /\ status' = status BY DEF Analyze, runVars
<1>3. body' = body BY DEF Analyze, Next, Pop, Point, Edge, NextBlock, Converge, ScanBlock, Replay, Finish
<1>4. phase # "done"
  BY DEF Analyze, Next, Pop, Point, Edge, NextBlock, Converge, ScanBlock, Replay, Finish
<1>5. bb = 0 /\ pt = 1 /\ Concrete(status) = EntryFlags(body) BY <1>4 DEF RunInv
<1>6. Leq(Concrete(status)', entry[0]') BY <1>1, <1>2, <1>3, <1>5 DEF Inv, Concrete
<1>7. Covered'
  <2>1. entry[0]' # NoFlags
    BY <1>2, <1>6, NonEmpty DEF RunInv, Concrete
  <2> QED BY <2>1, <1>2, <1>5, <1>6 DEF Covered, Trace
<1>8. pt' \in 1 .. Exit(bb)' BY <1>2, <1>3 DEF RunInv, Exit
<1>9. Concrete(status)' = EntryFlags(body)' BY <1>2, <1>3, <1>5 DEF Concrete
<1> QED BY <1>1, <1>2, <1>5, <1>7, <1>8, <1>9 DEF RunInv

LEMMA ExecuteStep == RunInv /\ Execute => RunInv'
<1> SUFFICES ASSUME RunInv, Execute PROVE RunInv' OBVIOUS
<1> USE DEF RunInv
<1>1. Inv' BY StutterStep DEF Execute
<1>2. /\ phase = "done" /\ phase' = phase /\ body' = body /\ entry' = entry /\ bb' = bb
      /\ pt' = pt + 1 /\ pt \in 1 .. Len(body.points[bb])
      /\ status' = [p \in Locals |-> After(status[p], p, body.points[bb][pt])]
  BY DEF Execute, vars, Exit
<1>3. WellFormed(body) /\ ReturnNotWritten(body) BY DEF Inv, TypeOK
<1>4. body.points[bb][pt] \in Event BY <1>2, <1>3, PointType
<1>5. status' \in [Locals -> Status] BY <1>2, AfterType
<1>6. ReturnLocal \in Locals BY BlocksFact DEF ReturnLocal
<1>7. ReturnLocal \notin body.points[bb][pt].written BY <1>2, <1>3 DEF ReturnNotWritten
<1>8. status'[ReturnLocal] # "filled" BY <1>2, <1>6, <1>7 DEF After
<1>9. Exit(bb)' = Exit(bb) /\ Exit(bb) = Len(body.points[bb]) + 1 BY <1>2 DEF Exit
<1>10. Covered'
  <2>1. entry[bb]' # NoFlags BY <1>2 DEF Covered
  <2> SUFFICES ASSUME NEW tr, Trace(bb, entry[bb], Exit(bb), tr)'
               PROVE  Leq(Concrete(status'), tr[pt + 1])
    BY <2>1, <1>2 DEF Covered, Concrete
  <2>2. Trace(bb, entry[bb], Exit(bb), tr) BY <1>2, <1>9 DEF Trace
  <2>3. Leq(Concrete(status), tr[pt]) BY <1>2, <2>2 DEF Covered
  <2>4. pt \in 1 .. Exit(bb) - 1 BY <1>2, <1>9
  <2>5. tr[pt + 1] = Apply(body.points[bb][pt], tr[pt]) BY <2>2, <2>4 DEF Trace
  <2>6. tr[pt] \in Flags BY <2>2 DEF Trace
  <2>7. Leq(Concrete([p \in Locals |-> After(status[p], p, body.points[bb][pt])]),
            Apply(body.points[bb][pt], tr[pt]))
    BY <1>4, <2>3, <2>6, ApplyCovers
  <2> QED BY <1>2, <2>5, <2>7
<1>11. pt' \in 1 .. Exit(bb)' BY <1>2, <1>9
<1> QED BY <1>1, <1>2, <1>5, <1>8, <1>10, <1>11

LEMMA BranchStep == RunInv /\ Branch => RunInv'
<1> SUFFICES ASSUME RunInv, Branch PROVE RunInv' OBVIOUS
<1> USE DEF RunInv
<1>1. Inv' BY StutterStep DEF Branch
<1>2. /\ phase = "done" /\ phase' = phase /\ body' = body /\ entry' = entry /\ status' = status
      /\ pt' = 1 /\ pt > Len(body.points[bb])
  BY DEF Branch, vars
<1>3. WellFormed(body) BY DEF Inv, TypeOK
<1>4. PICK k \in 1 .. Len(body.succ[bb]) : bb' = body.succ[bb][k]
  <2>1. PICK t \in ToSet(body.succ[bb]) : bb' = t BY DEF Branch
  <2>2. PICK k \in DOMAIN body.succ[bb] : body.succ[bb][k] = t BY <2>1 DEF ToSet
  <2>3. body.succ[bb] \in Seq(Blocks) BY <1>3, SuccType
  <2> QED BY <2>1, <2>2, <2>3
<1>5. bb' \in Blocks BY <1>3, <1>4, SuccType
<1>6. Closed(bb)
  <2>1. ~Queued(bb) BY <1>2 DEF Inv, Scanned, Queued
  <2> QED BY <1>2, <2>1 DEF Inv, AllClosed, Covered
<1>7. PICK tr : /\ Trace(bb, entry[bb], Exit(bb), tr)
                /\ Flows(tr[Exit(bb)], bb, Len(body.succ[bb]))
  BY <1>6 DEF Closed, Walked
<1>8. Len(body.points[bb]) \in Nat BY <1>3 DEF WellFormed, Body
<1>9. pt = Exit(bb) BY <1>2, <1>8 DEF Exit
<1>10. Leq(Concrete(status), tr[pt]) BY <1>2, <1>7 DEF Covered
<1>11. Leq(tr[pt], entry[bb']) BY <1>4, <1>7, <1>9 DEF Flows
<1>12. Leq(Concrete(status), entry[bb']) BY <1>10, <1>11, LeqTrans
<1>13. entry[bb'] # NoFlags BY <1>12, NonEmpty
<1>14. Covered' BY <1>2, <1>12, <1>13 DEF Covered, Trace, Concrete
<1>15. pt' \in 1 .. Exit(bb)'
  <2>1. Len(body.points[bb']) \in Nat BY <1>3, <1>5 DEF WellFormed, Body
  <2> QED BY <1>2, <2>1 DEF Exit
<1> QED BY <1>1, <1>2, <1>5, <1>14, <1>15

LEMMA RunInvStep == RunInv /\ [RunNext]_allVars => RunInv'
<1>1. RunInv /\ UNCHANGED allVars => RunInv'
  <2> SUFFICES ASSUME RunInv, UNCHANGED allVars PROVE RunInv' OBVIOUS
  <2>1. UNCHANGED vars /\ bb' = bb /\ pt' = pt /\ status' = status BY DEF allVars, runVars
  <2>2. Inv' BY <2>1, StutterStep DEF RunInv
  <2>3. body' = body /\ phase' = phase /\ entry' = entry BY <2>1 DEF vars
  <2> QED BY <2>1, <2>2, <2>3 DEF RunInv, Covered, Concrete, Trace, Exit
<1> QED BY <1>1, AnalyzeStep, ExecuteStep, BranchStep DEF RunNext

LEMMA RunInvariant == RunSpec => []RunInv
<1> QED BY RunInvInit, RunInvStep, PTL DEF RunSpec

(* Every in-state the data flow ends with covers every execution reaching  *)
(* that block, for every graph: the worklist cannot stop too early.        *)
THEOREM EntrySound == RunSpec => []BlockEntryCovered
<1>1. RunInv => BlockEntryCovered
  <2> SUFFICES ASSUME RunInv, phase = "done", pt = 1 PROVE Leq(Concrete(status), entry[bb])
    BY DEF BlockEntryCovered
  <2>1. ~Queued(bb) BY DEF RunInv, Inv, Scanned, Queued
  <2>2. Closed(bb) BY <2>1 DEF RunInv, Inv, AllClosed, Covered
  <2>3. PICK tr : Trace(bb, entry[bb], Exit(bb), tr) BY <2>2 DEF Closed, Walked
  <2>4. Leq(Concrete(status), tr[1]) BY <2>3 DEF RunInv, Covered
  <2> QED BY <2>3, <2>4 DEF Trace
<1> QED BY <1>1, RunInvariant, PTL

(* No execution uses a moved or uninitialised local without a diagnostic   *)
(* at that very point, worded as a move when it was one.                   *)
THEOREM UsesSound == RunSpec => []UsesReported
<1>1. RunInv => UsesReported
  <2> SUFFICES ASSUME RunInv, phase = "done", pt <= Len(body.points[bb]), NEW p \in Locals,
                      IsMoveError(status[p], p, body.points[bb][pt])
               PROVE  \E kind \in {"Moved", "Uninit"} :
                        <<bb, pt, p, kind>> \in errors /\ (status[p] = "moved" => kind = "Moved")
    BY DEF UsesReported
  <2>1. ~Queued(bb) BY DEF RunInv, Inv, Scanned, Queued
  <2>2. Closed(bb) BY <2>1 DEF RunInv, Inv, AllClosed, Covered
  <2>3. PICK tr : Walked(bb, Exit(bb), tr) BY <2>2 DEF Closed
  <2>4. Leq(Concrete(status), tr[pt]) BY <2>3 DEF RunInv, Covered, Walked
  <2>5. tr[pt] \in Flags /\ pt \in 1 .. Exit(bb) - 1
    <3>1. Len(body.points[bb]) \in Nat BY DEF RunInv, Inv, TypeOK, WellFormed, Body
    <3> QED BY <2>3, <3>1 DEF RunInv, Walked, Trace, Exit
  <2>6. PICK kind \in {"Moved", "Uninit"} :
           <<p, kind>> \in ErrorsAt(body.points[bb][pt], tr[pt]) /\ (status[p] = "moved" => kind = "Moved")
    BY <2>4, <2>5, ErrorsCover DEF RunInv
  <2>7. Recorded(bb, pt, tr[pt]) BY <2>3, <2>5 DEF Walked
  <2>8. <<bb, pt, p, kind>> \in errors BY <2>6, <2>7 DEF Recorded
  <2> QED BY <2>6, <2>8
<1> QED BY <1>1, RunInvariant, PTL

(* No execution returns owning a droppable value without a leak warning    *)
(* about that local.                                                       *)
THEOREM LeaksSound == RunSpec => []LeaksReported
<1>1. RunInv => LeaksReported
  <2> SUFFICES ASSUME RunInv, phase = "done", bb \in body.returns, pt = Exit(bb),
                      NEW p \in body.needsDrop \ {ReturnLocal}, status[p] = "owned"
               PROVE  \E l \in leaks : l[1] = p
    BY DEF LeaksReported, Exit
  <2>1. bb < blk
    <3>1. blk = NumBlocks BY DEF RunInv, Inv, Scanned
    <3>2. bb \in 0 .. NumBlocks - 1 BY DEF RunInv, Blocks
    <3> QED BY <3>1, <3>2, SizeAssumption
  <2>2. PICK tr : Trace(bb, entry[bb], Exit(bb), tr) /\ LeaksOf(tr[Exit(bb)])
    BY <2>1 DEF RunInv, Inv, Scanned
  <2>3. Leq(Concrete(status), tr[pt]) BY <2>2 DEF RunInv, Covered
  <2>4. p \in Locals BY DEF RunInv, Inv, TypeOK, WellFormed, Body
  <2>5. p \in tr[pt].owned BY <2>3, <2>4 DEF Leq, Concrete
  <2> QED BY <2>2, <2>5 DEF LeaksOf
<1> QED BY <1>1, RunInvariant, PTL

(* The indices stay in range in the execution as well.                     *)
THEOREM RunTyped == RunSpec => []RunTypeOK
<1>1. RunInv => RunTypeOK BY DEF RunInv, Inv, RunTypeOK, Exit
<1> QED BY <1>1, RunInvariant, PTL

-----------------------------------------------------------------------------
(* Invariants of the analysis alone.  An execution leaves its variables as *)
(* they are, so they hold in RunSpec as well.                              *)

LEMMA AnalysisStep == [RunNext]_allVars => [Next]_vars
BY DEF RunNext, Analyze, Execute, Branch, allVars

LEMMA MovedStep == TypeOK /\ MovedIsUninit /\ [Next]_vars => MovedIsUninit'
<1> SUFFICES ASSUME TypeOK, MovedIsUninit, [Next]_vars PROVE MovedIsUninit' OBVIOUS
<1> USE DEF MovedIsUninit
<1>1. CASE Pop BY <1>1, PopType DEF Pop, TypeOK
<1>2. CASE Point BY <1>2 DEF Point, Apply
<1>3. CASE Edge
  <2> PICK t : t = body.succ[blk][at] OBVIOUS
  <2>1. t \in Blocks BY <1>3, SuccType DEF Edge, TypeOK
  <2>2. entry' = [entry EXCEPT ![t] = Join(entry[t], flags)] /\ flags' = flags BY <1>3 DEF Edge
  <2>3. Join(entry[t], flags).moved \subseteq Join(entry[t], flags).uninit BY <2>1 DEF Join
  <2> QED BY <2>1, <2>2, <2>3 DEF TypeOK
<1>4. CASE NextBlock BY <1>4 DEF NextBlock
<1>5. CASE Converge BY <1>5 DEF Converge
<1>6. CASE ScanBlock
  <2>1. blk \in Blocks BY <1>6, SizeAssumption DEF ScanBlock, Blocks, TypeOK
  <2> QED BY <1>6, <2>1 DEF ScanBlock
<1>7. CASE Replay BY <1>7 DEF Replay, Apply
<1>8. CASE Finish BY <1>8 DEF Finish
<1>9. CASE UNCHANGED vars BY <1>9 DEF vars
<1> QED BY <1>1, <1>2, <1>3, <1>4, <1>5, <1>6, <1>7, <1>8, <1>9 DEF Next

(* In every in-state and at every point of every walk, a local that may    *)
(* have been moved may be uninitialised: the test of `uninit` alone misses *)
(* no moved local.                                                         *)
THEOREM MovedAreUninit == RunSpec => []MovedIsUninit
<1>1. RunInit => TypeOK /\ MovedIsUninit
  <2>1. Init => MovedIsUninit BY DEF Init, Start, EntryFlags, NoFlags, MovedIsUninit
  <2> QED BY <2>1, TypeInit DEF RunInit
<1>2. TypeOK /\ MovedIsUninit /\ [RunNext]_allVars => (TypeOK /\ MovedIsUninit)'
  BY AnalysisStep, TypeStep, MovedStep
<1> QED BY <1>1, <1>2, PTL DEF RunSpec

(* Whatever is owned was passed in or assigned, and the table of last      *)
(* assignments, which is never cleared, has an entry for it.               *)
Accounted(s) == \A p \in s.owned : p \in body.args \/ lastAssign[p] # NoPoint

BlamesReal ==
  \A p \in Locals : lastAssign[p] # NoPoint =>
    p \in body.points[lastAssign[p][1]][lastAssign[p][2]].assigned

BlameInv ==
  /\ TypeOK /\ BlamesReal /\ BlameAssigns
  /\ Accounted(flags) /\ \A b \in Blocks : Accounted(entry[b])

(* A step that leaves the assignments and the in-states alone.             *)
LEMMA BlameKept ==
  ASSUME BlameInv, TypeOK', UNCHANGED <<body, entry, lastAssign, leaks>>, Accounted(flags')
  PROVE  BlameInv'
BY DEF BlameInv, BlamesReal, BlameAssigns, Accounted

(* One point, in the walk or in the replay.                                *)
LEMMA BlamePoint ==
  ASSUME BlameInv, NEW b \in Blocks, NEW i \in 1 .. Len(body.points[b]),
         NEW ev, ev = body.points[b][i], body' = body, entry' = entry,
         lastAssign' = Blame(ev, <<b, i>>), flags' = Apply(ev, flags)
  PROVE  /\ BlamesReal' /\ Accounted(flags)' /\ \A c \in Blocks : Accounted(entry[c])'
         /\ \A p \in Locals : lastAssign[p] # NoPoint => lastAssign'[p] # NoPoint
<1>1. <<b, i>> # NoPoint BY DEF NoPoint
<1>2. \A p \in Locals : lastAssign'[p] = IF p \in ev.assigned THEN <<b, i>> ELSE lastAssign[p]
  BY DEF Blame
<1>3. ev \in Event /\ flags \in Flags /\ entry \in [Blocks -> Flags]
  BY PointType DEF BlameInv, TypeOK
<1>4. BlamesReal'
  <2> SUFFICES ASSUME NEW p \in Locals, lastAssign'[p] # NoPoint
               PROVE  p \in body.points[lastAssign'[p][1]][lastAssign'[p][2]].assigned
    BY DEF BlamesReal
  <2>1. CASE p \in ev.assigned
    <3>1. lastAssign'[p][1] = b /\ lastAssign'[p][2] = i BY <1>2, <2>1
    <3> QED BY <2>1, <3>1
  <2>2. CASE p \notin ev.assigned
    <3>1. lastAssign'[p] = lastAssign[p] BY <1>2, <2>2
    <3> QED BY <3>1 DEF BlameInv, BlamesReal
  <2> QED BY <2>1, <2>2
<1>5. \A p \in Locals : lastAssign[p] # NoPoint => lastAssign'[p] # NoPoint BY <1>1, <1>2
<1>6. \A s \in Flags : Accounted(s) => Accounted(s)' BY <1>5 DEF Accounted, Flags
<1>7. \A c \in Blocks : Accounted(entry[c])'
  <2> SUFFICES ASSUME NEW c \in Blocks PROVE Accounted(entry[c])' OBVIOUS
  <2>1. entry[c] \in Flags /\ Accounted(entry[c]) BY <1>3 DEF BlameInv
  <2> QED BY <2>1, <1>6
<1>8. Accounted(flags)'
  <2> SUFFICES ASSUME NEW p \in flags'.owned PROVE p \in body.args \/ lastAssign'[p] # NoPoint
    BY DEF Accounted
  <2>1. p \in ev.assigned \/ p \in flags.owned BY DEF Apply
  <2>2. p \in Locals BY <1>3, <2>1 DEF Event, Flags
  <2>3. CASE p \in ev.assigned BY <2>2, <2>3, <1>1, <1>2
  <2>4. CASE p \in flags.owned BY <2>2, <2>4, <1>5 DEF BlameInv, Accounted
  <2> QED BY <2>1, <2>3, <2>4
<1> QED BY <1>4, <1>5, <1>7, <1>8

LEMMA BlameStep == BlameInv /\ [Next]_vars => BlameInv'
<1> SUFFICES ASSUME BlameInv, [Next]_vars PROVE BlameInv' OBVIOUS
<1>0. TypeOK /\ TypeOK' BY TypeStep DEF BlameInv
<1>1. CASE Pop
  <2>1. Accounted(flags') BY <1>0, <1>1, PopType DEF Pop, TypeOK, BlameInv
  <2> QED BY <1>0, <1>1, <2>1, BlameKept DEF Pop
<1>2. CASE Point
  <2>1. blk \in Blocks /\ at \in 1 .. Len(body.points[blk]) BY <1>0, <1>2 DEF Point, TypeOK
  <2>2. BlamesReal' /\ Accounted(flags)' /\ \A c \in Blocks : Accounted(entry[c])'
    BY <1>2, <2>1, BlamePoint DEF Point, ThisPoint
  <2>3. BlameAssigns' BY <1>2 DEF Point, BlameInv, BlameAssigns
  <2> QED BY <1>0, <2>2, <2>3 DEF BlameInv
<1>3. CASE Edge
  <2> PICK t : t = body.succ[blk][at] OBVIOUS
  <2>1. t \in Blocks BY <1>0, <1>3, SuccType DEF Edge, TypeOK
  <2>2. /\ entry' = [entry EXCEPT ![t] = Join(entry[t], flags)]
        /\ UNCHANGED <<body, flags, lastAssign, leaks>>
    BY <1>3 DEF Edge
  <2>3. Accounted(Join(entry[t], flags)) BY <2>1 DEF BlameInv, Accounted, Join
  <2>4. \A b \in Blocks : Accounted(entry'[b]) BY <1>0, <2>1, <2>2, <2>3 DEF BlameInv, TypeOK
  <2> QED BY <1>0, <2>2, <2>4 DEF BlameInv, BlamesReal, BlameAssigns, Accounted
<1>4. CASE NextBlock BY <1>0, <1>4, BlameKept DEF NextBlock, BlameInv
<1>5. CASE Converge BY <1>0, <1>5, BlameKept DEF Converge, BlameInv
<1>6. CASE ScanBlock
  <2>1. blk \in Blocks BY <1>0, <1>6, SizeAssumption DEF ScanBlock, Blocks, TypeOK
  <2>2. Accounted(flags') BY <1>6, <2>1 DEF ScanBlock, BlameInv
  <2> QED BY <1>0, <1>6, <2>2, BlameKept DEF ScanBlock
<1>7. CASE Replay
  <2>1. blk \in Blocks /\ at \in 1 .. Len(body.points[blk]) BY <1>0, <1>7 DEF Replay, TypeOK
  <2>2. BlamesReal' /\ Accounted(flags)' /\ \A c \in Blocks : Accounted(entry[c])'
    BY <1>7, <2>1, BlamePoint DEF Replay, ThisPoint
  <2>3. body' = body /\ body.needsDrop \subseteq Locals
    BY <1>0, <1>7 DEF Replay, TypeOK, WellFormed, Body
  <2>4. ASSUME NEW l \in Leaked(flags', lastAssign')
        PROVE  IF l[2] = NoPoint THEN l[1] \in body.args
               ELSE l[1] \in body.points[l[2][1]][l[2][2]].assigned
    <3>1. PICK p \in (flags'.owned \cap body'.needsDrop) \ {ReturnLocal} :
            l = <<p, lastAssign'[p]>>
      BY <2>3 DEF Leaked
    <3>2. p \in Locals /\ l[1] = p /\ l[2] = lastAssign'[p] BY <2>3, <3>1
    <3> QED BY <2>2, <2>3, <3>1, <3>2 DEF Accounted, BlamesReal
  <2>5. leaks' \subseteq leaks \cup Leaked(flags', lastAssign') BY <1>7 DEF Replay
  <2>6. BlameAssigns' BY <2>3, <2>4, <2>5 DEF BlameInv, BlameAssigns
  <2> QED BY <1>0, <2>2, <2>6 DEF BlameInv
<1>8. CASE Finish BY <1>0, <1>8, BlameKept DEF Finish, BlameInv
<1>9. CASE UNCHANGED vars BY <1>0, <1>9, BlameKept DEF vars, BlameInv
<1> QED BY <1>1, <1>2, <1>3, <1>4, <1>5, <1>6, <1>7, <1>8, <1>9 DEF Next

(* A leak is blamed on a point that assigns the local, whatever order the  *)
(* blocks were visited in; only an argument is blamed on its declaration.  *)
THEOREM BlamesAssign == RunSpec => []BlameAssigns
<1>1. RunInit => BlameInv
  <2>1. Init => BlamesReal /\ BlameAssigns BY DEF Init, Start, BlamesReal, BlameAssigns
  <2>2. Init => Accounted(flags) /\ \A b \in Blocks : Accounted(entry[b])
    BY DEF Init, Start, Accounted, EntryFlags, NoFlags
  <2> QED BY <2>1, <2>2, TypeInit DEF RunInit, BlameInv
<1>2. BlameInv /\ [RunNext]_allVars => BlameInv' BY AnalysisStep, BlameStep
<1>3. BlameInv => BlameAssigns BY DEF BlameInv
<1> QED BY <1>1, <1>2, <1>3, PTL DEF RunSpec

-----------------------------------------------------------------------------
(* Of the worklist: a step joins into the in-state of a successor and      *)
(* leaves every other in-state as it is, so that what a path contributed   *)
(* stays.                                                                  *)
THEOREM EntriesGrow == RunSpec => EntryGrows
<1>1. TypeOK /\ [RunNext]_allVars => [\A b \in Blocks : Leq(entry[b], entry'[b])]_vars
  <2> SUFFICES ASSUME TypeOK, [Next]_vars, NEW b \in Blocks PROVE Leq(entry[b], entry'[b])
    BY AnalysisStep
  <2>1. CASE Edge
    <3> PICK t : t = body.succ[blk][at]
      OBVIOUS
    <3>1. t \in Blocks
      BY <2>1, SuccType DEF Edge, TypeOK
    <3>2. entry' = [entry EXCEPT ![t] = Join(entry[t], flags)]
      BY <2>1 DEF Edge
    <3>3. entry'[b] = entry[b] \/ entry'[b] = Join(entry[b], flags)
      BY <3>1, <3>2 DEF TypeOK
    <3> QED BY <3>3, JoinUpper DEF Leq
  <2>2. CASE ~Edge
    <3>1. entry' = entry
      BY <2>2 DEF Next, vars, Pop, Point, NextBlock, Converge, ScanBlock, Replay, Finish
    <3> QED BY <3>1 DEF Leq
  <2> QED BY <2>1, <2>2
<1>2. RunSpec => []TypeOK
  <2>1. RunInit => TypeOK
    BY TypeInit DEF RunInit
  <2>2. TypeOK /\ [RunNext]_allVars => TypeOK'
    BY AnalysisStep, TypeStep
  <2> QED BY <2>1, <2>2, PTL DEF RunSpec
<1> QED BY <1>1, <1>2, PTL DEF RunSpec, EntryGrows

-----------------------------------------------------------------------------
(***************************************************************************)
(* The data flow of the move checker reaches the verdict of the definition *)
(* path by path: what its bits say of a local at a point is what some path *)
(* does to it, no more and no less.                                        *)
(***************************************************************************)
(* What a path does to a local in one block.                               *)

LEMMA SameAfter ==
  ASSUME NEW s, NEW p, NEW ev PROVE Check!After(s, p, ev) = After(s, p, ev)
BY DEF Check!After, After

(* Through is the function its recursive definition describes.             *)
LEMMA ThroughIs ==
  ASSUME NEW f, WellFormed(f), NEW p, NEW b \in Blocks, NEW s \in Status
  PROVE  /\ Check!Through(f, p, b, s) \in [1 .. Len(f.points[b]) + 1 -> Status]
         /\ Check!Through(f, p, b, s)[1] = s
         /\ \A i \in 1 .. Len(f.points[b]) :
              Check!Through(f, p, b, s)[i + 1] =
                After(Check!Through(f, p, b, s)[i], p, f.points[b][i])
<1> DEFINE n == Len(f.points[b])
           Is(g) == g = [i \in 1 .. n + 1 |->
                           IF i = 1 THEN s ELSE After(g[i - 1], p, f.points[b][i - 1])]
           step == [x \in (0 .. n - 1) \X Status |-> After(x[2], p, f.points[b][x[1] + 1])]
<1>1. n \in Nat
  BY DEF WellFormed, Body
<1>2. PICK g : Unfolds(g, n, Status, s, step)
  <2>1. step \in [(0 .. n - 1) \X Status -> Status]
    BY AfterType
  <2> HIDE DEF step, n
  <2>2. n \in Nat /\ s \in Status
    BY <1>1
  <2> QED BY <2>1, <2>2, Unfolding
<1>3. \A k \in 0 .. n - 1 : g[k + 1] = After(g[k], p, f.points[b][k + 1])
  <2> SUFFICES ASSUME NEW k \in 0 .. n - 1
               PROVE  g[k + 1] = After(g[k], p, f.points[b][k + 1])
    OBVIOUS
  <2>0. k \in 0 .. n
    BY <1>1
  <2>1. g[k] \in Status /\ g[k + 1] = step[<<k, g[k]>>]
    <3> HIDE DEF step, n
    <3> QED BY <2>0, <1>2 DEF Unfolds
  <2> QED BY <2>1
<1> HIDE DEF step
<1>4. \E h : Is(h)
  <2> DEFINE h == [i \in 1 .. n + 1 |-> g[i - 1]]
  <2>1. ASSUME NEW i \in 1 .. n + 1
        PROVE  h[i] = IF i = 1 THEN s ELSE After(h[i - 1], p, f.points[b][i - 1])
    <3>1. CASE i = 1
      BY <3>1, <1>1, <1>2 DEF Unfolds
    <3>2. CASE i # 1
      <4>1. /\ i - 2 \in 0 .. n - 1 /\ (i - 2) + 1 = i - 1
            /\ i - 1 \in 1 .. n + 1 /\ (i - 1) - 1 = i - 2
        BY <3>2, <1>1
      <4>2. g[i - 1] = After(g[i - 2], p, f.points[b][i - 1])
        BY <4>1, <1>3
      <4>3. h[i] = g[i - 1] /\ h[i - 1] = g[i - 2]
        BY <4>1
      <4> QED BY <3>2, <4>2, <4>3
    <3> QED BY <3>1, <3>2
  <2>2. Is(h)
    BY <2>1
  <2> QED BY <2>2
<1> DEFINE way == Check!Through(f, p, b, s)
<1>5. way = CHOOSE h : Is(h)
  BY SameAfter DEF Check!Through
<1>6. Is(way)
  BY <1>4, <1>5
<1> HIDE DEF way
<1>7. way[1] = s /\ \A i \in 1 .. n : way[i + 1] = After(way[i], p, f.points[b][i])
  <2>1. way[1] = s
    BY <1>1, <1>6
  <2>2. ASSUME NEW i \in 1 .. n PROVE way[i + 1] = After(way[i], p, f.points[b][i])
    <3>1. i + 1 \in 1 .. n + 1 /\ i + 1 # 1 /\ (i + 1) - 1 = i
      BY <1>1
    <3> QED BY <3>1, <1>6
  <2> QED BY <2>1, <2>2
<1>8. \A i \in 1 .. n + 1 : way[i] \in Status
  <2> DEFINE T == {k \in 0 .. n : way[k + 1] \in Status}
  <2>1. 0 \in T
    BY <1>1, <1>7
  <2>2. ASSUME NEW k \in 0 .. n - 1, k \in T PROVE k + 1 \in T
    <3>1. k + 1 \in 1 .. n /\ k + 1 \in 0 .. n
      BY <1>1
    <3>2. way[(k + 1) + 1] = After(way[k + 1], p, f.points[b][k + 1])
      BY <3>1, <1>7
    <3> QED BY <2>2, <3>1, <3>2, AfterType
  <2> HIDE DEF T
  <2>3. 0 .. n \subseteq T
    BY <1>1, <2>1, <2>2, UpTo
  <2> SUFFICES ASSUME NEW i \in 1 .. n + 1 PROVE way[i] \in Status
    OBVIOUS
  <2>4. i - 1 \in 0 .. n /\ (i - 1) + 1 = i
    BY <1>1
  <2> QED BY <2>3, <2>4 DEF T
<1>9. way \in [1 .. n + 1 -> Status]
  BY <1>6, <1>8
<1> QED BY <1>7, <1>9 DEF way

LEMMA ThroughStart ==
  ASSUME NEW f, WellFormed(f), NEW p, NEW b \in Blocks, NEW s \in Status
  PROVE  Check!Through(f, p, b, s)[1] = s
<1> PICK way : way = Check!Through(f, p, b, s)
  OBVIOUS
<1>1. way[1] = s
  BY ThroughIs
<1> QED BY <1>1

-----------------------------------------------------------------------------
(* The paths to a block: what is reached is what is reached first, and all *)
(* that is reached from it, and nothing else.                              *)

(* The status of p past the end of a block entered as in e.                *)
Ends(f, p, e) == Check!Through(f, p, e[1], e[2])[Len(f.points[e[1]]) + 1]

Onward(f, p, r) == UNION { {<<t, Ends(f, p, e)>> : t \in ToSet(f.succ[e[1]])} : e \in r }

LEMMA EndsType ==
  ASSUME NEW f, WellFormed(f), NEW p, NEW e \in Blocks \X Status
  PROVE  Ends(f, p, e) \in Status
<1>1. e[1] \in Blocks /\ e[2] \in Status /\ Len(f.points[e[1]]) \in Nat
  BY DEF WellFormed, Body
<1>2. Check!Through(f, p, e[1], e[2]) \in [1 .. Len(f.points[e[1]]) + 1 -> Status]
  BY <1>1, ThroughIs
<1> QED BY <1>1, <1>2 DEF Ends

LEMMA OnwardType ==
  ASSUME NEW f, WellFormed(f), NEW p, NEW r \in SUBSET (Blocks \X Status)
  PROVE  Onward(f, p, r) \in SUBSET (Blocks \X Status)
<1> SUFFICES ASSUME NEW e \in r, NEW t \in ToSet(f.succ[e[1]])
             PROVE  <<t, Ends(f, p, e)>> \in Blocks \X Status
  BY DEF Onward
<1>1. e[1] \in Blocks
  OBVIOUS
<1>2. f.succ[e[1]] \in Seq(Blocks)
  BY <1>1, SuccType
<1>3. t \in Blocks
  BY <1>2 DEF ToSet
<1> QED BY <1>3, EndsType

LEMMA OnwardGrows ==
  ASSUME NEW f, NEW p, NEW r, NEW x, r \subseteq x
  PROVE  Onward(f, p, r) \subseteq Onward(f, p, x)
BY DEF Onward

LEMMA PairsFinite ==
  /\ IsFiniteSet(Blocks \X Status)
  /\ Cardinality(Blocks \X Status) = NumBlocks * Cardinality(Status)
  /\ Cardinality(Status) \in Nat
<1>1. IsFiniteSet(Blocks) /\ Cardinality(Blocks) = NumBlocks
  BY SizeAssumption, FS_Interval DEF Blocks
<1>2. IsFiniteSet(Status)
  <2>1. Status = ((({} \union {"uninit"}) \union {"moved"}) \union {"filled"}) \union {"owned"}
    BY DEF Status
  <2> QED BY <2>1, FS_EmptySet, FS_AddElement
<1> QED BY <1>1, <1>2, FS_Product, FS_CardinalityType

(* The chain within[0], within[1], ... of Reached.                         *)
Bound == NumBlocks * Cardinality(Status)

Chained(f, p, w) ==
  /\ w \in [0 .. Bound -> SUBSET (Blocks \X Status)]
  /\ w[0] = {<<0, InitialStatus(f, p)>>}
  /\ \A k \in 0 .. Bound - 1 : w[k + 1] = w[k] \union Onward(f, p, w[k])

LEMMA BoundType == Bound \in Nat
BY PairsFinite, SizeAssumption DEF Bound

LEMMA SameCardinality == Check!Cardinality(Check!Status) = Cardinality(Status)
BY DEF Check!Cardinality, Cardinality, Check!Status, Status

(* Reached's own reading of a step, and the one above.                     *)
LEMMA SameOnward ==
  ASSUME NEW f, NEW p, NEW r
  PROVE  UNION { {<<t, Check!Through(f, p, e[1], e[2])[Len(f.points[e[1]]) + 1]>>
                    : t \in Check!ToSet(f.succ[e[1]])} : e \in r } = Onward(f, p, r)
BY DEF Onward, Ends, Check!ToSet, ToSet

LEMMA ReachedChain ==
  ASSUME NEW f, WellFormed(f), NEW p
  PROVE  \E w : Chained(f, p, w) /\ Check!Reached(f, p) = w[Bound]
<1> DEFINE U == Blocks \X Status
           start == {<<0, InitialStatus(f, p)>>}
           step == [x \in (0 .. Bound - 1) \X SUBSET U |-> x[2] \union Onward(f, p, x[2])]
           Is(h) == h = [k \in 0 .. Bound |->
                           IF k = 0 THEN start ELSE h[k - 1] \union Onward(f, p, h[k - 1])]
<1>1. start \in SUBSET U
  BY BlocksFact DEF InitialStatus, Status
<1>2. step \in [(0 .. Bound - 1) \X SUBSET U -> SUBSET U]
  BY OnwardType
<1> HIDE DEF start, step, U
<1>3. PICK g : Unfolds(g, Bound, SUBSET U, start, step)
  BY <1>1, <1>2, BoundType, Unfolding
<1>4. ASSUME NEW k \in 0 .. Bound - 1
      PROVE  g[k + 1] = g[k] \union Onward(f, p, g[k])
  <2>1. k \in 0 .. Bound /\ g[k] \in SUBSET U /\ g[k + 1] = step[<<k, g[k]>>]
    BY <1>3, BoundType DEF Unfolds
  <2> QED BY <2>1 DEF step
<1>5. Is(g)
  <2>1. ASSUME NEW k \in 0 .. Bound
        PROVE  g[k] = IF k = 0 THEN start ELSE g[k - 1] \union Onward(f, p, g[k - 1])
    <3>1. CASE k = 0
      BY <3>1, <1>3 DEF Unfolds
    <3>2. CASE k # 0
      <4>1. k - 1 \in 0 .. Bound - 1 /\ (k - 1) + 1 = k
        BY <3>2, BoundType
      <4> QED BY <4>1, <3>2, <1>4
    <3> QED BY <3>1, <3>2
  <2>2. g = [k \in 0 .. Bound |-> g[k]]
    BY <1>3 DEF Unfolds
  <2> QED BY <2>1, <2>2
<1> DEFINE limit == NumBlocks * Check!Cardinality(Check!Status)
           next(r) == UNION { {<<t, Check!Through(f, p, e[1], e[2])[Len(f.points[e[1]]) + 1]>>
                                 : t \in Check!ToSet(f.succ[e[1]])} : e \in r }
           IsToo(h) == h = [k \in 0 .. limit |->
                              IF k = 0 THEN {<<0, Check!InitialStatus(f, p)>>}
                                       ELSE LET r == h[k - 1] IN r \union next(r)]
           w == CHOOSE h : IsToo(h)
<1>6. Is(w)
  <2>1. limit = Bound /\ {<<0, Check!InitialStatus(f, p)>>} = start
    BY SameCardinality DEF Bound, start, Check!InitialStatus, InitialStatus
  <2>2. \A r : next(r) = Onward(f, p, r)
    BY SameOnward
  <2> HIDE DEF limit, next
  <2>3. \A h : Is(h) <=> IsToo(h)
    BY <2>1, <2>2
  <2> HIDE DEF Is, IsToo
  <2> QED BY <1>5, <2>3 DEF w
<1>7. Check!Reached(f, p) = w[Bound]
  <2>1. Check!Reached(f, p) = w[limit]
    BY DEF Check!Reached
  <2> QED BY <2>1, SameCardinality DEF Bound
<1> HIDE DEF w
<1>8. w[0] = start
  BY <1>6, BoundType
<1>9. \A k \in 0 .. Bound - 1 : w[k + 1] = w[k] \union Onward(f, p, w[k])
  <2> SUFFICES ASSUME NEW k \in 0 .. Bound - 1
               PROVE  w[k + 1] = w[k] \union Onward(f, p, w[k])
    OBVIOUS
  <2>1. k + 1 \in 0 .. Bound /\ k + 1 # 0 /\ (k + 1) - 1 = k
    BY BoundType
  <2> QED BY <2>1, <1>6
<1>10. 0 .. Bound \subseteq {k \in 0 .. Bound : w[k] \in SUBSET U}
  <2> DEFINE T == {k \in 0 .. Bound : w[k] \in SUBSET U}
  <2>1. 0 \in T
    BY <1>1, <1>8, BoundType
  <2>2. ASSUME NEW k \in 0 .. Bound - 1, k \in T PROVE k + 1 \in T
    <3>1. k + 1 \in 0 .. Bound
      BY BoundType
    <3>2. Onward(f, p, w[k]) \in SUBSET U
      BY <2>2, OnwardType DEF U
    <3> QED BY <2>2, <3>1, <3>2, <1>9
  <2> HIDE DEF T
  <2>3. 0 .. Bound \subseteq T
    BY <2>1, <2>2, BoundType, UpTo
  <2> QED BY <2>3 DEF T
<1>11. w \in [0 .. Bound -> SUBSET U]
  BY <1>6, <1>10
<1> QED BY <1>7, <1>8, <1>9, <1>11 DEF Chained, U, start

(* No path is longer than the chain: it stands still before its bound.     *)
LEMMA ReachedIs ==
  ASSUME NEW f, WellFormed(f), NEW p
  PROVE  /\ Check!Reached(f, p) \in SUBSET (Blocks \X Status)
         /\ <<0, InitialStatus(f, p)>> \in Check!Reached(f, p)
         /\ Onward(f, p, Check!Reached(f, p)) \subseteq Check!Reached(f, p)
<1>1. PICK w : Chained(f, p, w) /\ Check!Reached(f, p) = w[Bound]
  BY ReachedChain
<1>2. PICK k \in 0 .. Bound - 1 : w[k + 1] = w[k]
  <2>1. w[0] # {} /\ \A i \in 0 .. Bound - 1 : w[i] \subseteq w[i + 1]
    BY <1>1 DEF Chained
  <2>2. w \in [0 .. Bound -> SUBSET (Blocks \X Status)]
    BY <1>1 DEF Chained
  <2>3. IsFiniteSet(Blocks \X Status) /\ Cardinality(Blocks \X Status) <= Bound
    BY PairsFinite, BoundType DEF Bound
  <2> QED BY <2>1, <2>2, <2>3, BoundType, ChainStops
<1>3. Onward(f, p, w[k]) \subseteq w[k]
  BY <1>1, <1>2 DEF Chained
<1>4. w[Bound] = w[k]
  <2> DEFINE T == {j \in 0 .. Bound - k : w[k + j] = w[k]}
  <2>1. 0 \in T /\ Bound - k \in Nat
    BY BoundType
  <2>2. ASSUME NEW j \in 0 .. (Bound - k) - 1, j \in T PROVE j + 1 \in T
    <3>1. k + j \in 0 .. Bound - 1 /\ j + 1 \in 0 .. Bound - k /\ (k + j) + 1 = k + (j + 1)
      BY BoundType
    <3>2. w[(k + j) + 1] = w[k + j] \union Onward(f, p, w[k + j])
      BY <3>1, <1>1 DEF Chained
    <3> QED BY <2>2, <3>1, <3>2, <1>3
  <2> HIDE DEF T
  <2>3. 0 .. Bound - k \subseteq T
    BY <2>1, <2>2, UpTo
  <2>4. Bound - k \in T /\ k + (Bound - k) = Bound
    BY <2>1, <2>3, BoundType
  <2> QED BY <2>4 DEF T
<1>5. {<<0, InitialStatus(f, p)>>} \subseteq w[Bound]
  <2> DEFINE T == {j \in 0 .. Bound : w[0] \subseteq w[j]}
  <2>1. 0 \in T
    BY BoundType
  <2>2. ASSUME NEW j \in 0 .. Bound - 1, j \in T PROVE j + 1 \in T
    BY <2>2, <1>1, BoundType DEF Chained
  <2> HIDE DEF T
  <2>3. 0 .. Bound \subseteq T
    BY <2>1, <2>2, BoundType, UpTo
  <2>4. Bound \in T
    BY <2>3, BoundType
  <2> QED BY <2>4, <1>1 DEF T, Chained
<1>6. w[Bound] \in SUBSET (Blocks \X Status)
  BY <1>1, BoundType DEF Chained
<1> QED BY <1>1, <1>3, <1>4, <1>5, <1>6

(* What has the first pair and goes on from each of its pairs has all.     *)
LEMMA ReachedLeast ==
  ASSUME NEW f, WellFormed(f), NEW p, NEW x,
         <<0, InitialStatus(f, p)>> \in x, Onward(f, p, x) \subseteq x
  PROVE  Check!Reached(f, p) \subseteq x
<1>1. PICK w : Chained(f, p, w) /\ Check!Reached(f, p) = w[Bound]
  BY ReachedChain
<1> DEFINE T == {j \in 0 .. Bound : w[j] \subseteq x}
<1>2. 0 \in T
  BY <1>1, BoundType DEF Chained
<1>3. ASSUME NEW j \in 0 .. Bound - 1, j \in T PROVE j + 1 \in T
  <2>1. w[j + 1] = w[j] \union Onward(f, p, w[j]) /\ j + 1 \in 0 .. Bound
    BY <1>1, BoundType DEF Chained
  <2>2. Onward(f, p, w[j]) \subseteq x
    BY <1>3, OnwardGrows
  <2> QED BY <1>3, <2>1, <2>2
<1> HIDE DEF T
<1>4. 0 .. Bound \subseteq T
  BY <1>2, <1>3, BoundType, UpTo
<1>5. Bound \in T
  BY <1>4, BoundType
<1> QED BY <1>1, <1>5 DEF T

-----------------------------------------------------------------------------
(* What the paths do to a local up to a point.                             *)

Statuses(f, b, i, p) ==
  { Check!Through(f, p, b, r[2])[i] : r \in { r \in Check!Reached(f, p) : r[1] = b } }

(* Some path visits the block.                                             *)
Visited(f, b) == \A p \in Locals : \E r \in Check!Reached(f, p) : r[1] = b

LEMMA StatusesStart ==
  ASSUME NEW f, WellFormed(f), NEW p \in Locals
  PROVE  InitialStatus(f, p) \in Statuses(f, 0, 1, p)
<1>1. <<0, InitialStatus(f, p)>> \in Check!Reached(f, p)
  BY ReachedIs
<1>2. InitialStatus(f, p) \in Status /\ 0 \in Blocks
  BY BlocksFact DEF InitialStatus, Status
<1>3. Check!Through(f, p, 0, InitialStatus(f, p))[1] = InitialStatus(f, p)
  BY <1>2, ThroughStart
<1>4. PICK r : r = <<0, InitialStatus(f, p)>>
  OBVIOUS
<1>5. r \in Check!Reached(f, p) /\ r[1] = 0 /\ Check!Through(f, p, 0, r[2])[1] = InitialStatus(f, p)
  BY <1>1, <1>3, <1>4
<1> QED BY <1>5 DEF Statuses

LEMMA StatusesNext ==
  ASSUME NEW f, WellFormed(f), NEW p \in Locals, NEW b \in Blocks,
         NEW i \in 1 .. Len(f.points[b]), NEW st \in Statuses(f, b, i, p)
  PROVE  After(st, p, f.points[b][i]) \in Statuses(f, b, i + 1, p)
<1>1. PICK r \in Check!Reached(f, p) : r[1] = b /\ st = Check!Through(f, p, b, r[2])[i]
  BY DEF Statuses
<1>2. r[2] \in Status
  <2>1. Check!Reached(f, p) \in SUBSET (Blocks \X Status)
    BY ReachedIs
  <2> QED BY <2>1
<1>3. Check!Through(f, p, b, r[2])[i + 1] = After(st, p, f.points[b][i])
  <2>1. PICK s \in Status : s = r[2]
    BY <1>2
  <2>2. WellFormed(f) /\ b \in Blocks /\ i \in 1 .. Len(f.points[b])
    OBVIOUS
  <2>3. Check!Through(f, p, b, s)[i + 1] = After(Check!Through(f, p, b, s)[i], p, f.points[b][i])
    BY ONLY s \in Status, <2>2, ThroughIs
  <2> QED BY <1>1, <2>1, <2>3
<1> QED BY <1>1, <1>3 DEF Statuses

LEMMA StatusesEdge ==
  ASSUME NEW f, WellFormed(f), NEW p, NEW b \in Blocks, NEW t \in ToSet(f.succ[b]),
         NEW st \in Statuses(f, b, Len(f.points[b]) + 1, p)
  PROVE  st \in Statuses(f, t, 1, p)
<1>1. PICK r \in Check!Reached(f, p) :
        r[1] = b /\ st = Check!Through(f, p, b, r[2])[Len(f.points[b]) + 1]
  BY DEF Statuses
<1>2. st = Ends(f, p, r)
  BY <1>1 DEF Ends
<1>3. <<t, st>> \in Onward(f, p, Check!Reached(f, p))
  BY <1>1, <1>2 DEF Onward
<1>4. <<t, st>> \in Check!Reached(f, p)
  BY <1>3, ReachedIs
<1>5. t \in Blocks /\ st \in Status
  <2>1. Check!Reached(f, p) \in SUBSET (Blocks \X Status)
    BY ReachedIs
  <2> QED BY <1>4, <2>1
<1>6. Check!Through(f, p, t, st)[1] = st
  BY <1>5, ThroughStart
<1>7. PICK q : q = <<t, st>>
  OBVIOUS
<1>8. q \in Check!Reached(f, p) /\ q[1] = t /\ Check!Through(f, p, t, q[2])[1] = st
  BY <1>4, <1>6, <1>7
<1> QED BY <1>8 DEF Statuses

LEMMA VisitedSome ==
  ASSUME NEW f, NEW b, Visited(f, b), NEW p \in Locals, NEW i
  PROVE  \E st : st \in Statuses(f, b, i, p)
BY DEF Visited, Statuses

LEMMA VisitedStart ==
  ASSUME NEW f, WellFormed(f) PROVE Visited(f, 0)
<1> SUFFICES ASSUME NEW p \in Locals PROVE \E r \in Check!Reached(f, p) : r[1] = 0
  BY DEF Visited
<1>1. PICK r : r = <<0, InitialStatus(f, p)>>
  OBVIOUS
<1> QED BY <1>1, ReachedIs

LEMMA VisitedEdge ==
  ASSUME NEW f, WellFormed(f), NEW b \in Blocks, NEW t \in ToSet(f.succ[b]), Visited(f, b)
  PROVE  Visited(f, t)
<1> SUFFICES ASSUME NEW p \in Locals PROVE \E r \in Check!Reached(f, p) : r[1] = t
  BY DEF Visited
<1>1. PICK st : st \in Statuses(f, b, Len(f.points[b]) + 1, p)
  BY VisitedSome
<1>2. st \in Statuses(f, t, 1, p)
  BY <1>1, StatusesEdge
<1> QED BY <1>2 DEF Statuses

-----------------------------------------------------------------------------
(* No bit without a path: the flags at a point are justified when each of  *)
(* them is what some path does to the local.                               *)

Justified(f, s, b, i) ==
  \A p \in Locals :
    /\ p \in s.uninit \ s.moved => "uninit" \in Statuses(f, b, i, p)
    /\ p \in s.moved => "moved" \in Statuses(f, b, i, p)
    /\ p \in s.owned => "owned" \in Statuses(f, b, i, p)

LEMMA JustifiedEntry ==
  ASSUME NEW f, WellFormed(f) PROVE Justified(f, EntryFlags(f), 0, 1)
<1>1. \A p \in Locals : InitialStatus(f, p) \in Statuses(f, 0, 1, p)
  BY StatusesStart
<1> QED BY <1>1 DEF Justified, EntryFlags, InitialStatus

LEMMA JustifiedNone ==
  ASSUME NEW f, NEW b, NEW i PROVE Justified(f, NoFlags, b, i)
BY DEF Justified, NoFlags

LEMMA JustifiedJoin ==
  ASSUME NEW f, NEW b, NEW i, NEW x, NEW y, Justified(f, x, b, i), Justified(f, y, b, i)
  PROVE  Justified(f, Join(x, y), b, i)
BY DEF Justified, Join

LEMMA JustifiedEdge ==
  ASSUME NEW f, WellFormed(f), NEW b \in Blocks, NEW t \in ToSet(f.succ[b]), NEW s,
         Justified(f, s, b, Len(f.points[b]) + 1)
  PROVE  Justified(f, s, t, 1)
BY StatusesEdge DEF Justified

LEMMA JustifiedPoint ==
  ASSUME NEW f, WellFormed(f), NEW b \in Blocks, NEW i \in 1 .. Len(f.points[b]),
         Visited(f, b), NEW s \in Flags, Justified(f, s, b, i)
  PROVE  Justified(f, Apply(f.points[b][i], s), b, i + 1)
<1> DEFINE ev == f.points[b][i]
           out == Apply(ev, s)
<1> SUFFICES ASSUME NEW p \in Locals
             PROVE  /\ p \in out.uninit \ out.moved => "uninit" \in Statuses(f, b, i + 1, p)
                    /\ p \in out.moved => "moved" \in Statuses(f, b, i + 1, p)
                    /\ p \in out.owned => "owned" \in Statuses(f, b, i + 1, p)
  BY DEF Justified
<1>1. \A st \in Statuses(f, b, i, p) : After(st, p, ev) \in Statuses(f, b, i + 1, p)
  BY StatusesNext
<1>2. PICK any : any \in Statuses(f, b, i, p)
  BY VisitedSome
<1> HIDE DEF ev
<1>3. ASSUME p \in out.uninit \ out.moved PROVE "uninit" \in Statuses(f, b, i + 1, p)
  <2>1. p \in s.uninit \ s.moved /\ p \notin ev.moved \union ev.written \union ev.assigned
    BY <1>3 DEF Apply
  <2>2. After("uninit", p, ev) = "uninit"
    BY <2>1 DEF After
  <2>3. "uninit" \in Statuses(f, b, i, p)
    BY <2>1 DEF Justified
  <2> QED BY <2>2, <2>3, <1>1
<1>4. ASSUME p \in out.moved PROVE "moved" \in Statuses(f, b, i + 1, p)
  <2>1. p \in s.moved \union ev.moved /\ p \notin ev.written \union ev.assigned
    BY <1>4 DEF Apply
  <2>2. CASE p \in ev.moved
    <3>1. After(any, p, ev) = "moved"
      BY <2>1, <2>2 DEF After
    <3> QED BY <3>1, <1>1, <1>2
  <2>3. CASE p \notin ev.moved
    <3>1. After("moved", p, ev) = "moved" /\ "moved" \in Statuses(f, b, i, p)
      BY <2>1, <2>3 DEF After, Justified
    <3> QED BY <3>1, <1>1
  <2> QED BY <2>2, <2>3
<1>5. ASSUME p \in out.owned PROVE "owned" \in Statuses(f, b, i + 1, p)
  <2>1. p \in ev.assigned \/ (p \in s.owned /\ p \notin ev.moved)
    BY <1>5 DEF Apply
  <2>2. CASE p \in ev.assigned
    <3>1. After(any, p, ev) = "owned"
      BY <2>2 DEF After
    <3> QED BY <3>1, <1>1, <1>2
  <2>3. CASE p \in s.owned /\ p \notin ev.moved
    <3>1. After("owned", p, ev) = "owned" /\ "owned" \in Statuses(f, b, i, p)
      BY <2>3 DEF After, Justified
    <3> QED BY <3>1, <1>1
  <2> QED BY <2>1, <2>2, <2>3
<1> QED BY <1>3, <1>4, <1>5

(* An error that some path commits, worded as that path has it.            *)
ErrorOf(f, e) ==
  \E b \in Blocks, p \in Locals, kind \in {"Moved", "Uninit"} :
    \E i \in 1 .. Len(f.points[b]) :
      /\ e = <<b, i, p, kind>>
      /\ kind = "Moved" => /\ p \in f.points[b][i].accessed \union f.points[b][i].borrowed
                           /\ "moved" \in Statuses(f, b, i, p)
      /\ kind = "Uninit" => /\ p \in f.points[b][i].accessed
                            /\ "uninit" \in Statuses(f, b, i, p)

LEMMA ErrorsJustified ==
  ASSUME NEW f, WellFormed(f), NEW b \in Blocks, NEW i \in 1 .. Len(f.points[b]),
         NEW s \in Flags, Justified(f, s, b, i), NEW e \in ErrorsAt(f.points[b][i], s)
  PROVE  ErrorOf(f, <<b, i, e[1], e[2]>>)
<1> DEFINE ev == f.points[b][i]
<1>1. PICK p \in Locals :
        \/ /\ p \in ev.accessed /\ p \in s.uninit
           /\ e = <<p, IF p \in s.moved THEN "Moved" ELSE "Uninit">>
        \/ p \in ev.borrowed /\ p \in s.moved /\ e = <<p, "Moved">>
  BY DEF ErrorsAt, Flags
<1>2. CASE p \in s.moved
  <2>1. e[1] = p /\ e[2] = "Moved" /\ p \in ev.accessed \union ev.borrowed
    BY <1>1, <1>2
  <2>2. "moved" \in Statuses(f, b, i, p)
    BY <1>2 DEF Justified
  <2> QED BY <2>1, <2>2 DEF ErrorOf
<1>3. CASE p \notin s.moved
  <2>1. e[1] = p /\ e[2] = "Uninit" /\ p \in ev.accessed /\ p \in s.uninit
    BY <1>1, <1>3
  <2>2. "uninit" \in Statuses(f, b, i, p)
    BY <1>3, <2>1 DEF Justified
  <2> QED BY <2>1, <2>2 DEF ErrorOf
<1> QED BY <1>2, <1>3

(* A leak of a return block, owned by some path if one gets there.         *)
LeakOf(f, l) ==
  /\ l[1] \in f.needsDrop \ {ReturnLocal}
  /\ \E b \in f.returns :
       Visited(f, b) => "owned" \in Statuses(f, b, Len(f.points[b]) + 1, l[1])

(* Nothing the analysis holds or has said is without a path.               *)
WalkJustified ==
  /\ phase \in {"points", "edges"} => Visited(body, blk)
  /\ phase = "points" => Justified(body, flags, blk, at)
  /\ phase = "edges" => Justified(body, flags, blk, Exit(blk))
  /\ phase = "replay" => (Visited(body, blk) => Justified(body, flags, blk, at))

PathInv ==
  /\ TypeOK /\ body \in Bodies
  /\ \A b \in Blocks : Justified(body, entry[b], b, 1)
  /\ \A k \in 1 .. Len(worklist) : Visited(body, worklist[k])
  /\ WalkJustified
  /\ \A e \in errors : ErrorOf(body, e)
  /\ \A l \in leaks : LeakOf(body, l)

LEMMA PathInit == Init => PathInv
<1> SUFFICES ASSUME Init PROVE PathInv
  OBVIOUS
<1>1. TypeOK /\ body \in Bodies /\ WellFormed(body)
  BY TypeInit DEF Init, TypeOK
<1>2. \A b \in Blocks : Justified(body, entry[b], b, 1)
  <2> SUFFICES ASSUME NEW b \in Blocks PROVE Justified(body, entry[b], b, 1)
    OBVIOUS
  <2>1. CASE b = 0
    BY <2>1, <1>1, JustifiedEntry DEF Init, Start
  <2>2. CASE b # 0
    BY <2>2, JustifiedNone DEF Init, Start
  <2> QED BY <2>1, <2>2
<1>3. \A k \in 1 .. Len(worklist) : Visited(body, worklist[k])
  BY <1>1, VisitedStart DEF Init, Start
<1>4. WalkJustified /\ errors = {} /\ leaks = {}
  BY DEF WalkJustified, Init, Start
<1> QED BY <1>1, <1>2, <1>3, <1>4 DEF PathInv

(* A step that leaves the in-states alone and says nothing new.            *)
LEMMA PathKept ==
  ASSUME PathInv, TypeOK', UNCHANGED <<body, entry, worklist, errors, leaks>>, WalkJustified'
  PROVE  PathInv'
<1> PICK f, q : f = body /\ q = worklist
  OBVIOUS
<1>1. \A b \in Blocks : Justified(f, entry'[b], b, 1)
  BY DEF PathInv
<1>2. \A k \in 1 .. Len(q) : Visited(f, q[k])
  BY DEF PathInv
<1>3. (\A e \in errors' : ErrorOf(f, e)) /\ \A l \in leaks' : LeakOf(f, l)
  BY DEF PathInv
<1> QED BY <1>1, <1>2, <1>3 DEF PathInv

LEMMA PathPop == PathInv /\ Pop => PathInv'
<1> SUFFICES ASSUME PathInv, Pop PROVE PathInv'
  OBVIOUS
<1> PICK f, c, fl : f = body /\ c = blk' /\ fl = flags'
  OBVIOUS
<1>1. TypeOK' /\ TypeOK
  BY TypeStep DEF Next, PathInv
<1>2. /\ c = Last(worklist) /\ worklist' = Front(worklist) /\ worklist # << >> /\ fl = entry[c]
      /\ at' = 1 /\ phase' = "points"
      /\ UNCHANGED <<body, entry, errors, leaks>>
  BY DEF Pop
<1>3. worklist \in Seq(Blocks) /\ Len(worklist) \in Nat \ {0}
  BY <1>1, <1>2 DEF TypeOK
<1>4. c \in Blocks /\ Visited(f, c)
  <2>1. c = worklist[Len(worklist)] /\ Len(worklist) \in 1 .. Len(worklist)
    BY <1>2, <1>3 DEF Last
  <2> QED BY <2>1, <1>3 DEF PathInv
<1>5. Justified(f, fl, c, 1)
  BY <1>2, <1>4 DEF PathInv
<1>6. WalkJustified'
  BY <1>2, <1>4, <1>5 DEF WalkJustified
<1>7. \A k \in 1 .. Len(worklist') : Visited(f, worklist'[k])
  <2>1. worklist' = SubSeq(worklist, 1, Len(worklist) - 1)
    BY <1>2 DEF Front
  <2>2. \A k \in 1 .. Len(worklist') : k \in 1 .. Len(worklist) /\ worklist'[k] = worklist[k]
    BY <2>1, <1>3
  <2> QED BY <2>2 DEF PathInv
<1>8. \A b \in Blocks : Justified(f, entry'[b], b, 1)
  BY <1>2 DEF PathInv
<1>9. (\A e \in errors' : ErrorOf(f, e)) /\ \A l \in leaks' : LeakOf(f, l)
  BY <1>2 DEF PathInv
<1> QED BY <1>1, <1>2, <1>6, <1>7, <1>8, <1>9 DEF PathInv

LEMMA PathPoint == PathInv /\ Point => PathInv'
<1> SUFFICES ASSUME PathInv, Point PROVE PathInv'
  OBVIOUS
<1> PICK f, c, n, fl : f = body /\ c = blk /\ n = at /\ fl = flags
  OBVIOUS
<1>1. TypeOK' /\ TypeOK /\ WellFormed(f)
  BY TypeStep DEF Next, PathInv, TypeOK
<1>2. /\ phase = "points" /\ blk' = c
      /\ flags' = Apply(f.points[c][n], fl)
      /\ errors' = errors \union {<<c, n, e[1], e[2]>> : e \in ErrorsAt(f.points[c][n], fl)}
      /\ IF n = Len(f.points[c]) THEN phase' = "edges" ELSE phase' = "points" /\ at' = n + 1
      /\ UNCHANGED <<body, entry, worklist, leaks>>
  BY DEF Point, ThisPoint, LastPoint
<1>3. c \in Blocks /\ n \in 1 .. Len(f.points[c]) /\ fl \in Flags
  BY <1>1, <1>2 DEF TypeOK
<1>4. Visited(f, c) /\ Justified(f, fl, c, n)
  BY <1>2 DEF PathInv, WalkJustified
<1>5. Justified(f, Apply(f.points[c][n], fl), c, n + 1)
  BY <1>1, <1>3, <1>4, JustifiedPoint
<1>6. WalkJustified'
  <2>1. CASE n = Len(f.points[c])
    <3>1. Exit(blk)' = n + 1
      BY <2>1, <1>2 DEF Exit
    <3> QED BY <2>1, <3>1, <1>2, <1>4, <1>5 DEF WalkJustified
  <2>2. CASE n # Len(f.points[c])
    BY <2>2, <1>2, <1>4, <1>5 DEF WalkJustified
  <2> QED BY <2>1, <2>2
<1>7. \A e \in errors' : ErrorOf(f, e)
  <2>1. \A e \in ErrorsAt(f.points[c][n], fl) : ErrorOf(f, <<c, n, e[1], e[2]>>)
    BY <1>1, <1>3, <1>4, ErrorsJustified
  <2> QED BY <2>1, <1>2 DEF PathInv
<1>8. \A b \in Blocks : Justified(f, entry'[b], b, 1)
  BY <1>2 DEF PathInv
<1>9. /\ \A k \in 1 .. Len(worklist') : Visited(f, worklist'[k])
      /\ \A l \in leaks' : LeakOf(f, l)
  BY <1>2 DEF PathInv
<1> QED BY <1>1, <1>2, <1>6, <1>7, <1>8, <1>9 DEF PathInv

LEMMA PathEdge == PathInv /\ Edge => PathInv'
<1> SUFFICES ASSUME PathInv, Edge PROVE PathInv'
  OBVIOUS
<1> PICK f, c, fl, t : f = body /\ c = blk /\ fl = flags /\ t = body.succ[blk][at]
  OBVIOUS
<1>1. TypeOK' /\ TypeOK /\ WellFormed(f)
  BY TypeStep DEF Next, PathInv, TypeOK
<1>2. /\ phase = "edges" /\ phase' = "edges" /\ blk' = c /\ flags' = fl
      /\ at <= Len(f.succ[c])
      /\ entry' = [entry EXCEPT ![t] = Join(entry[t], fl)]
      /\ worklist' = worklist \/ worklist' = Append(worklist, t)
      /\ UNCHANGED <<body, errors, leaks>>
  BY DEF Edge
<1>3. c \in Blocks /\ at \in 1 .. Len(f.succ[c])
  BY <1>1, <1>2, SuccType DEF Edge, TypeOK
<1>4. t \in ToSet(f.succ[c]) /\ t \in Blocks
  <2>1. f.succ[c] \in Seq(Blocks) /\ t = f.succ[c][at]
    BY <1>1, <1>3, SuccType
  <2> QED BY <2>1, <1>3 DEF ToSet
<1>5. Visited(f, c) /\ Justified(f, fl, c, Len(f.points[c]) + 1)
  BY <1>2 DEF PathInv, WalkJustified, Exit
<1>6. Visited(f, t) /\ Justified(f, fl, t, 1)
  BY <1>1, <1>3, <1>4, <1>5, VisitedEdge, JustifiedEdge
<1>7. \A b \in Blocks : Justified(f, entry'[b], b, 1)
  <2> SUFFICES ASSUME NEW b \in Blocks PROVE Justified(f, entry'[b], b, 1)
    OBVIOUS
  <2>1. Justified(f, entry[b], b, 1)
    BY DEF PathInv
  <2>2. CASE b = t
    <3>1. entry'[b] = Join(entry[b], fl)
      BY <2>2, <1>1, <1>2, <1>4 DEF TypeOK
    <3> QED BY <2>1, <2>2, <3>1, <1>6, JustifiedJoin
  <2>3. CASE b # t
    BY <2>1, <2>3, <1>1, <1>2 DEF TypeOK
  <2> QED BY <2>2, <2>3
<1>8. \A k \in 1 .. Len(worklist') : Visited(f, worklist'[k])
  <2>1. worklist \in Seq(Blocks) /\ \A k \in 1 .. Len(worklist) : Visited(f, worklist[k])
    BY <1>1 DEF TypeOK, PathInv
  <2>2. CASE worklist' = Append(worklist, t)
    <3>1. /\ Len(worklist') = Len(worklist) + 1 /\ worklist'[Len(worklist) + 1] = t
          /\ \A k \in 1 .. Len(worklist) : worklist'[k] = worklist[k]
      BY <2>1, <2>2, <1>4
    <3> QED BY <2>1, <3>1, <1>6
  <2> QED BY <2>1, <2>2, <1>2
<1>9. WalkJustified'
  <2>1. Exit(blk)' = Len(f.points[c]) + 1
    BY <1>2 DEF Exit
  <2> QED BY <2>1, <1>2, <1>5 DEF WalkJustified
<1>10. (\A e \in errors' : ErrorOf(f, e)) /\ \A l \in leaks' : LeakOf(f, l)
  BY <1>2 DEF PathInv
<1> QED BY <1>1, <1>2, <1>7, <1>8, <1>9, <1>10 DEF PathInv

LEMMA PathScan == PathInv /\ ScanBlock => PathInv'
<1> SUFFICES ASSUME PathInv, ScanBlock PROVE PathInv'
  OBVIOUS
<1> PICK f, c : f = body /\ c = blk
  OBVIOUS
<1>1. TypeOK' /\ TypeOK
  BY TypeStep DEF Next, PathInv
<1>2. c \in Blocks
  BY <1>1, SizeAssumption DEF ScanBlock, TypeOK, Blocks
<1>3. CASE c \in f.returns
  <2>1. /\ phase' = "replay" /\ flags' = entry[c] /\ at' = 1 /\ blk' = c
        /\ UNCHANGED <<body, entry, worklist, errors, leaks>>
    BY <1>3 DEF ScanBlock
  <2>2. Justified(f, entry[c], c, 1)
    BY <1>2 DEF PathInv
  <2>3. WalkJustified'
    BY <2>1, <2>2 DEF WalkJustified
  <2> QED BY <2>1, <2>3, <1>1, PathKept
<1>4. CASE c \notin f.returns
  <2>1. phase = "scan" /\ phase' = phase /\ UNCHANGED <<body, entry, worklist, errors, leaks>>
    BY <1>4 DEF ScanBlock
  <2>2. WalkJustified'
    BY <2>1 DEF WalkJustified
  <2> QED BY <2>1, <2>2, <1>1, PathKept
<1> QED BY <1>3, <1>4

LEMMA PathReplay == PathInv /\ blk \in body.returns /\ Replay => PathInv'
<1> SUFFICES ASSUME PathInv, blk \in body.returns, Replay PROVE PathInv'
  OBVIOUS
<1> PICK f, c, n, fl : f = body /\ c = blk /\ n = at /\ fl = flags
  OBVIOUS
<1>1. TypeOK' /\ TypeOK /\ WellFormed(f)
  BY TypeStep DEF Next, PathInv, TypeOK
<1>2. /\ phase = "replay"
      /\ flags' = Apply(f.points[c][n], fl)
      /\ IF n = Len(f.points[c])
         THEN leaks' = leaks \union Leaked(flags', lastAssign') /\ phase' = "scan"
         ELSE leaks' = leaks /\ phase' = "replay" /\ at' = n + 1 /\ blk' = c
      /\ UNCHANGED <<body, entry, worklist, errors>>
  BY DEF Replay, ThisPoint, LastPoint
<1>3. c \in Blocks /\ n \in 1 .. Len(f.points[c]) /\ fl \in Flags
  BY <1>1, <1>2 DEF TypeOK
<1>4. Visited(f, c) => Justified(f, flags', c, n + 1)
  <2> SUFFICES ASSUME Visited(f, c) PROVE Justified(f, flags', c, n + 1)
    OBVIOUS
  <2>1. Justified(f, fl, c, n)
    BY <1>2 DEF PathInv, WalkJustified
  <2> QED BY <2>1, <1>1, <1>2, <1>3, JustifiedPoint
<1>5. WalkJustified'
  BY <1>2, <1>4 DEF WalkJustified
<1>6. \A l \in leaks' : LeakOf(f, l)
  <2>1. \A l \in leaks : LeakOf(f, l)
    BY DEF PathInv
  <2>2. CASE n = Len(f.points[c])
    <3>1. leaks' = leaks \union Leaked(flags', lastAssign')
      BY <2>2, <1>2
    <3>2. ASSUME NEW l \in Leaked(flags', lastAssign') PROVE LeakOf(f, l)
      <4>1. l[1] \in (flags'.owned \cap f.needsDrop) \ {ReturnLocal}
        BY <1>2 DEF Leaked
      <4>2. l[1] \in Locals
        BY <4>1, <1>1 DEF WellFormed, Body
      <4>3. Visited(f, c) => "owned" \in Statuses(f, c, Len(f.points[c]) + 1, l[1])
        BY <4>1, <4>2, <2>2, <1>4 DEF Justified
      <4> QED BY <4>1, <4>3 DEF LeakOf
    <3> QED BY <2>1, <3>1, <3>2
  <2>3. CASE n # Len(f.points[c])
    BY <2>1, <2>3, <1>2
  <2> QED BY <2>2, <2>3
<1>7. \A b \in Blocks : Justified(f, entry'[b], b, 1)
  BY <1>2 DEF PathInv
<1>8. /\ \A k \in 1 .. Len(worklist') : Visited(f, worklist'[k])
      /\ \A e \in errors' : ErrorOf(f, e)
  BY <1>2 DEF PathInv
<1> QED BY <1>1, <1>2, <1>5, <1>6, <1>7, <1>8 DEF PathInv

(* Only return blocks are replayed.                                        *)
ReplayReturns == phase = "replay" => blk \in body.returns

LEMMA ReplayReturnsStep == ReplayReturns /\ [Next]_vars => ReplayReturns'
<1> SUFFICES ASSUME ReplayReturns, [Next]_vars PROVE ReplayReturns'
  OBVIOUS
<1>1. CASE Pop BY <1>1 DEF Pop, ReplayReturns
<1>2. CASE Point BY <1>2 DEF Point, ReplayReturns
<1>3. CASE Edge BY <1>3 DEF Edge, ReplayReturns
<1>4. CASE NextBlock \/ Converge \/ Finish
  BY <1>4 DEF NextBlock, Converge, Finish, ReplayReturns
<1>5. CASE ScanBlock BY <1>5 DEF ScanBlock, ReplayReturns
<1>6. CASE Replay BY <1>6 DEF Replay, ReplayReturns
<1>7. CASE UNCHANGED vars BY <1>7 DEF vars, ReplayReturns
<1> QED BY <1>1, <1>2, <1>3, <1>4, <1>5, <1>6, <1>7 DEF Next

LEMMA PathStep == PathInv /\ ReplayReturns /\ [Next]_vars => PathInv'
<1> SUFFICES ASSUME PathInv, ReplayReturns, [Next]_vars PROVE PathInv'
  OBVIOUS
<1>0. TypeOK'
  BY TypeStep DEF PathInv
<1>1. CASE NextBlock \/ Converge \/ Finish
  <2>1. UNCHANGED <<body, entry, worklist, errors, leaks>> /\ phase' \in {"pop", "scan", "done"}
    BY <1>1 DEF NextBlock, Converge, Finish
  <2>2. WalkJustified'
    BY <2>1 DEF WalkJustified
  <2> QED BY <2>1, <2>2, <1>0, PathKept
<1>2. CASE UNCHANGED vars
  <2>1. WalkJustified'
    BY <1>2 DEF vars, PathInv, WalkJustified, Exit
  <2> QED BY <2>1, <1>0, <1>2, PathKept DEF vars
<1>3. CASE Replay
  BY <1>3, PathReplay DEF Replay, ReplayReturns
<1> QED BY <1>1, <1>2, <1>3, PathPop, PathPoint, PathEdge, PathScan DEF Next

-----------------------------------------------------------------------------
(* No path without its bits: when the analysis is done, what a path does   *)
(* to a local is in the flags of every point on it.                        *)

Covers(s, p, st) ==
  /\ st \in {"uninit", "moved"} => p \in s.uninit
  /\ st = "moved" => p \in s.moved
  /\ st = "owned" => p \in s.owned

(* The return place is never filled, so that some bit is always set.       *)
Live(s) == ReturnLocal \in s.uninit \union s.owned

LEMMA CoversPoint ==
  ASSUME NEW s \in Flags, NEW ev \in Event, NEW p, NEW st \in Status, Covers(s, p, st)
  PROVE  Covers(Apply(ev, s), p, After(st, p, ev))
<1>1. CASE p \in ev.assigned
  <2>1. After(st, p, ev) = "owned"
    BY <1>1 DEF After
  <2> QED BY <1>1, <2>1 DEF Covers, Apply
<1>2. CASE p \notin ev.assigned /\ p \in ev.written
  <2>1. After(st, p, ev) = IF st = "owned" /\ p \notin ev.moved THEN "owned" ELSE "filled"
    BY <1>2 DEF After
  <2> QED BY <1>2, <2>1 DEF Covers, Apply
<1>3. CASE p \notin ev.assigned /\ p \notin ev.written /\ p \in ev.moved
  <2>1. After(st, p, ev) = "moved"
    BY <1>3 DEF After
  <2> QED BY <1>3, <2>1 DEF Covers, Apply
<1>4. CASE p \notin ev.assigned /\ p \notin ev.written /\ p \notin ev.moved
  <2>1. After(st, p, ev) = st
    BY <1>4 DEF After
  <2> QED BY <1>4, <2>1 DEF Covers, Apply
<1> QED BY <1>1, <1>2, <1>3, <1>4

LEMMA LivePoint ==
  ASSUME NEW s \in Flags, NEW ev \in Event, ReturnLocal \notin ev.written, Live(s)
  PROVE  Live(Apply(ev, s))
BY DEF Live, Apply

LEMMA LiveSome == ASSUME NEW s, Live(s) PROVE s # NoFlags
BY DEF Live, NoFlags

LEMMA MoreCovers ==
  ASSUME NEW x, NEW y, Leq(x, y), NEW p, NEW st
  PROVE  (Covers(x, p, st) => Covers(y, p, st)) /\ (Live(x) => Live(y))
BY DEF Leq, Covers, Live

(* A trace through a block covers what the block does to each local.       *)
LEMMA TraceCovers ==
  ASSUME TypeOK, NEW b \in Blocks, NEW s, NEW tr, Trace(b, s, Exit(b), tr),
         NEW p, NEW st \in Status, Live(s), Covers(s, p, st)
  PROVE  \A i \in 1 .. Exit(b) :
           Live(tr[i]) /\ Covers(tr[i], p, Check!Through(body, p, b, st)[i])
<1> PICK f, n, way : f = body /\ n = Len(f.points[b]) /\ way = Check!Through(f, p, b, st)
  OBVIOUS
<1>1. WellFormed(f) /\ ReturnNotWritten(f) /\ n \in Nat /\ Exit(b) = n + 1
  BY DEF TypeOK, WellFormed, Body, Exit
<1>2. /\ way \in [1 .. n + 1 -> Status] /\ way[1] = st
      /\ \A i \in 1 .. n : way[i + 1] = After(way[i], p, f.points[b][i])
  <2>1. WellFormed(f) /\ b \in Blocks /\ st \in Status
    BY <1>1
  <2>2. Check!Through(f, p, b, st) \in [1 .. Len(f.points[b]) + 1 -> Status]
    BY ONLY <2>1, ThroughIs
  <2>3. Check!Through(f, p, b, st)[1] = st
    BY ONLY <2>1, ThroughIs
  <2>4. ASSUME NEW i \in 1 .. Len(f.points[b])
        PROVE  Check!Through(f, p, b, st)[i + 1] =
                 After(Check!Through(f, p, b, st)[i], p, f.points[b][i])
    BY ONLY <2>1, ThroughIs, i \in 1 .. Len(f.points[b])
  <2> QED BY <2>2, <2>3, <2>4
<1>3. /\ tr \in [1 .. n + 1 -> Flags] /\ tr[1] = s
      /\ \A i \in 1 .. n : tr[i + 1] = Apply(f.points[b][i], tr[i])
  BY <1>1 DEF Trace
<1> DEFINE T == {k \in 0 .. n : Live(tr[k + 1]) /\ Covers(tr[k + 1], p, way[k + 1])}
<1>4. 0 \in T
  BY <1>1, <1>2, <1>3
<1>5. ASSUME NEW k \in 0 .. n - 1, k \in T PROVE k + 1 \in T
  <2>1. k + 1 \in 1 .. n /\ k + 1 \in 1 .. n + 1 /\ k + 1 \in 0 .. n
    BY <1>1
  <2>2. f.points[b][k + 1] \in Event /\ ReturnLocal \notin f.points[b][k + 1].written
    BY <1>1, <2>1, PointType DEF ReturnNotWritten
  <2>3. tr[k + 1] \in Flags /\ way[k + 1] \in Status
    BY <1>2, <1>3, <2>1
  <2>4. /\ tr[(k + 1) + 1] = Apply(f.points[b][k + 1], tr[k + 1])
        /\ way[(k + 1) + 1] = After(way[k + 1], p, f.points[b][k + 1])
    BY <1>2, <1>3, <2>1
  <2>5. Live(tr[(k + 1) + 1]) /\ Covers(tr[(k + 1) + 1], p, way[(k + 1) + 1])
    BY <1>5, <2>2, <2>3, <2>4, CoversPoint, LivePoint
  <2> QED BY <2>1, <2>5
<1> HIDE DEF T
<1>6. 0 .. n \subseteq T
  BY <1>1, <1>4, <1>5, UpTo
<1> SUFFICES ASSUME NEW i \in 1 .. n + 1 PROVE Live(tr[i]) /\ Covers(tr[i], p, way[i])
  BY <1>1
<1>7. i - 1 \in 0 .. n /\ (i - 1) + 1 = i
  BY <1>1
<1> QED BY <1>6, <1>7 DEF T

LEMMA DoneClosed ==
  ASSUME Inv, phase = "done", NEW b \in Blocks, Live(entry[b])
  PROVE  Closed(b)
<1>1. ~Queued(b)
  BY DEF Inv, Scanned, Queued
<1> QED BY <1>1, LiveSome DEF Inv, AllClosed

LEMMA DoneCovers ==
  ASSUME Inv, phase = "done", NEW p \in Locals
  PROVE  \A r \in Check!Reached(body, p) :
           /\ r[1] \in Blocks /\ r[2] \in Status
           /\ Live(entry[r[1]]) /\ Covers(entry[r[1]], p, r[2])
<1> PICK f : f = body
  OBVIOUS
<1> DEFINE x == {e \in Blocks \X Status : Live(entry[e[1]]) /\ Covers(entry[e[1]], p, e[2])}
<1>1. WellFormed(f) /\ TypeOK
  BY DEF Inv, TypeOK
<1>2. <<0, InitialStatus(f, p)>> \in x
  <2>1. Live(EntryFlags(f)) /\ Covers(EntryFlags(f), p, InitialStatus(f, p))
    BY <1>1, BlocksFact DEF Live, Covers, EntryFlags, InitialStatus, WellFormed, Body, ReturnLocal
  <2>2. Leq(EntryFlags(f), entry[0])
    BY DEF Inv
  <2>3. Live(entry[0]) /\ Covers(entry[0], p, InitialStatus(f, p))
    BY <2>1, <2>2, MoreCovers
  <2>4. 0 \in Blocks /\ InitialStatus(f, p) \in Status
    BY BlocksFact DEF InitialStatus, Status
  <2> QED BY <2>3, <2>4
<1>3. ASSUME NEW e \in x, NEW t \in ToSet(f.succ[e[1]]) PROVE <<t, Ends(f, p, e)>> \in x
  <2> PICK b, st : b = e[1] /\ st = e[2]
    OBVIOUS
  <2>1. b \in Blocks /\ st \in Status /\ Live(entry[b]) /\ Covers(entry[b], p, st)
    OBVIOUS
  <2>2. PICK tr : Walked(b, Exit(b), tr) /\ Flows(tr[Exit(b)], b, Len(body.succ[b]))
    BY <2>1, DoneClosed DEF Closed
  <2>3. Exit(b) \in 1 .. Exit(b) /\ Exit(b) = Len(f.points[b]) + 1
    BY <1>1, <2>1 DEF Exit, WellFormed, Body
  <2>4. Live(tr[Exit(b)]) /\ Covers(tr[Exit(b)], p, Ends(f, p, e))
    BY <1>1, <2>1, <2>2, <2>3, TraceCovers DEF Walked, Ends
  <2>5. PICK k \in 1 .. Len(f.succ[b]) : f.succ[b][k] = t
    BY <1>1, <2>1, SuccType DEF ToSet
  <2>6. t \in Blocks /\ Leq(tr[Exit(b)], entry[t])
    BY <1>1, <2>1, <2>2, <2>5, SuccType DEF Flows
  <2>7. Live(entry[t]) /\ Covers(entry[t], p, Ends(f, p, e))
    BY <2>4, <2>6, MoreCovers
  <2>8. Ends(f, p, e) \in Status
    BY <1>1, EndsType
  <2> QED BY <2>6, <2>7, <2>8
<1>4. Onward(f, p, x) \subseteq x
  <2> HIDE DEF x
  <2> QED BY <1>3 DEF Onward
<1> HIDE DEF x
<1>5. Check!Reached(f, p) \subseteq x
  BY <1>1, <1>2, <1>4, ReachedLeast
<1> QED BY <1>5 DEF x

(* Every move error that a path commits at a point has been recorded.      *)
LEMMA DoneRecords ==
  ASSUME Inv, phase = "done", NEW b \in Blocks, NEW i \in 1 .. Len(body.points[b]),
         NEW p \in Locals, NEW st \in Statuses(body, b, i, p)
  PROVE  /\ IsMoveError(st, p, body.points[b][i]) =>
              \E kind \in {"Moved", "Uninit"} : <<b, i, p, kind>> \in errors
         /\ st = "moved" /\ p \in body.points[b][i].accessed \union body.points[b][i].borrowed
              => <<b, i, p, "Moved">> \in errors
<1> PICK f, ev : f = body /\ ev = f.points[b][i]
  OBVIOUS
<1>1. TypeOK /\ WellFormed(f)
  BY DEF Inv, TypeOK
<1>2. PICK r \in Check!Reached(f, p) : r[1] = b /\ st = Check!Through(f, p, b, r[2])[i]
  BY DEF Statuses
<1>3. r[2] \in Status /\ Live(entry[b]) /\ Covers(entry[b], p, r[2])
  BY <1>2, DoneCovers
<1>4. PICK tr : Walked(b, Exit(b), tr)
  BY <1>3, DoneClosed DEF Closed
<1>5. i \in 1 .. Exit(b) /\ i \in 1 .. Exit(b) - 1
  BY <1>1 DEF Exit, WellFormed, Body
<1>6. Covers(tr[i], p, st)
  BY <1>1, <1>2, <1>3, <1>4, <1>5, TraceCovers DEF Walked
<1>7. \A e \in ErrorsAt(ev, tr[i]) : <<b, i, e[1], e[2]>> \in errors
  BY <1>4, <1>5 DEF Walked, Recorded
<1>8. \A kind : <<p, kind>> \in ErrorsAt(ev, tr[i]) => <<b, i, p, kind>> \in errors
  BY <1>7
<1>9. ASSUME p \in ev.accessed, p \in tr[i].uninit
      PROVE  \E kind \in {"Moved", "Uninit"} : <<b, i, p, kind>> \in errors
  <2>1. <<p, IF p \in tr[i].moved THEN "Moved" ELSE "Uninit">> \in ErrorsAt(ev, tr[i])
    BY <1>9 DEF ErrorsAt
  <2> QED BY <2>1, <1>8
<1>10. ASSUME st = "moved", p \in ev.accessed \union ev.borrowed
       PROVE  <<b, i, p, "Moved">> \in errors
  <2>1. p \in tr[i].uninit /\ p \in tr[i].moved
    BY <1>6, <1>10 DEF Covers
  <2>2. <<p, "Moved">> \in ErrorsAt(ev, tr[i])
    BY <1>10, <2>1 DEF ErrorsAt
  <2> QED BY <2>2, <1>8
<1>11. ASSUME IsMoveError(st, p, ev)
       PROVE  \E kind \in {"Moved", "Uninit"} : <<b, i, p, kind>> \in errors
  <2>1. CASE p \in ev.accessed /\ st \in {"uninit", "moved"}
    BY <2>1, <1>6, <1>9 DEF Covers
  <2>2. CASE p \in ev.borrowed /\ st = "moved"
    BY <2>2, <1>10
  <2> QED BY <2>1, <2>2, <1>11 DEF IsMoveError
<1> QED BY <1>10, <1>11

-----------------------------------------------------------------------------
(* The verdict.                                                            *)

VerdictInv == Inv /\ PathInv /\ ReplayReturns

(* Both ways together: an error is reported at exactly the points where a  *)
(* path commits one.                                                       *)
LEMMA ErrorsExact ==
  ASSUME VerdictInv, phase = "done"
  PROVE  { <<e[1], e[2], e[3]>> : e \in errors } = Check!MoveErrors(body)
<1> PICK f : f = body
  OBVIOUS
<1> DEFINE sites == UNION { { <<b, i, p>> : i \in 1 .. Len(f.points[b]), p \in Locals } : b \in Blocks }
           goesWrong(e) == \E st \in Statuses(f, e[1], e[2], e[3]) :
                             IsMoveError(st, e[3], f.points[e[1]][e[2]])
<1>1. Check!MoveErrors(f) = { e \in sites : goesWrong(e) }
  <2> DEFINE commits(e) == \E r \in Check!Reached(f, e[3]) :
                             /\ r[1] = e[1]
                             /\ Check!IsMoveError(Check!Through(f, e[3], e[1], r[2])[e[2]],
                                                  e[3], f.points[e[1]][e[2]])
  <2>1. Check!MoveErrors(f) = { e \in sites : commits(e) }
    BY DEF Check!MoveErrors, Check!Blocks, Blocks, Check!Locals, Locals
  <2>2. ASSUME NEW st, NEW p, NEW ev PROVE Check!IsMoveError(st, p, ev) <=> IsMoveError(st, p, ev)
    BY DEF Check!IsMoveError, IsMoveError
  <2>3. ASSUME NEW e PROVE commits(e) <=> goesWrong(e)
    BY <2>2 DEF Statuses
  <2> HIDE DEF commits, goesWrong, sites
  <2> QED BY <2>1, <2>3
<1>2. ASSUME NEW e \in errors PROVE <<e[1], e[2], e[3]>> \in Check!MoveErrors(f)
  <2>1. ErrorOf(f, e)
    BY DEF VerdictInv, PathInv
  <2>2. PICK b \in Blocks, p \in Locals, kind \in {"Moved", "Uninit"} :
          \E i \in 1 .. Len(f.points[b]) :
            /\ e = <<b, i, p, kind>>
            /\ kind = "Moved" => /\ p \in f.points[b][i].accessed \union f.points[b][i].borrowed
                                 /\ "moved" \in Statuses(f, b, i, p)
            /\ kind = "Uninit" => /\ p \in f.points[b][i].accessed
                                  /\ "uninit" \in Statuses(f, b, i, p)
    BY <2>1 DEF ErrorOf
  <2>3. PICK i \in 1 .. Len(f.points[b]) :
          /\ e = <<b, i, p, kind>>
          /\ kind = "Moved" => /\ p \in f.points[b][i].accessed \union f.points[b][i].borrowed
                               /\ "moved" \in Statuses(f, b, i, p)
          /\ kind = "Uninit" => /\ p \in f.points[b][i].accessed
                                /\ "uninit" \in Statuses(f, b, i, p)
    BY <2>2
  <2>4. \E st \in Statuses(f, b, i, p) : IsMoveError(st, p, f.points[b][i])
    BY <2>3 DEF IsMoveError
  <2>5. PICK site : site = <<b, i, p>>
    OBVIOUS
  <2>6. site \in sites /\ goesWrong(site)
    BY <2>4, <2>5
  <2>7. <<e[1], e[2], e[3]>> = site
    BY <2>3, <2>5
  <2> HIDE DEF sites, goesWrong
  <2> QED BY <1>1, <2>6, <2>7
<1>3. ASSUME NEW e \in Check!MoveErrors(f)
      PROVE  e \in { <<d[1], d[2], d[3]>> : d \in errors }
  <2>1. e \in sites /\ goesWrong(e)
    BY <1>1
  <2> PICK b \in Blocks : e \in { <<b, i, p>> : i \in 1 .. Len(f.points[b]), p \in Locals }
    BY <2>1
  <2>2. PICK i \in 1 .. Len(f.points[b]), p \in Locals : e = <<b, i, p>>
    OBVIOUS
  <2>3. PICK st \in Statuses(f, b, i, p) : IsMoveError(st, p, f.points[b][i])
    BY <2>1, <2>2
  <2>4. PICK kind : <<b, i, p, kind>> \in errors
    BY <2>3, DoneRecords DEF VerdictInv
  <2>5. PICK d : d = <<b, i, p, kind>>
    OBVIOUS
  <2>6. d \in errors /\ e = <<d[1], d[2], d[3]>>
    BY <2>2, <2>4, <2>5
  <2> QED BY <2>6
<1> HIDE DEF sites, goesWrong
<1> QED BY <1>2, <1>3

(* A return block that no path visits is replayed from empty flags, and    *)
(* the leaks it would have are reported; hence the condition.              *)
ReturnsVisited(f) == \A b \in f.returns : Visited(f, b)

LEMMA LeaksExact ==
  ASSUME VerdictInv, phase = "done", ReturnsVisited(body)
  PROVE  { l[1] : l \in leaks } = Check!Leaks(body)
<1> PICK f : f = body
  OBVIOUS
<1>1. WellFormed(f) /\ TypeOK /\ f.needsDrop \subseteq Locals /\ f.returns \subseteq Blocks
  BY DEF VerdictInv, Inv, TypeOK, WellFormed, Body
<1>2. Check!Leaks(f) = { p \in f.needsDrop \ {ReturnLocal} :
                          \E b \in f.returns : "owned" \in Statuses(f, b, Len(f.points[b]) + 1, p) }
  BY DEF Check!Leaks, Check!AtReturn, Statuses, Check!ReturnLocal, ReturnLocal
<1>3. ASSUME NEW l \in leaks PROVE l[1] \in Check!Leaks(f)
  <2>1. LeakOf(f, l)
    BY DEF VerdictInv, PathInv
  <2> QED BY <2>1, <1>2 DEF LeakOf, ReturnsVisited
<1>4. ASSUME NEW p \in Check!Leaks(f) PROVE p \in { l[1] : l \in leaks }
  <2>1. PICK b \in f.returns : "owned" \in Statuses(f, b, Len(f.points[b]) + 1, p)
    BY <1>2
  <2>2. b \in Blocks /\ p \in Locals /\ p \in f.needsDrop \ {ReturnLocal}
    BY <1>1, <1>2
  <2>3. PICK r \in Check!Reached(f, p) :
          r[1] = b /\ "owned" = Check!Through(f, p, b, r[2])[Len(f.points[b]) + 1]
    BY <2>1 DEF Statuses
  <2>4. r[2] \in Status /\ Live(entry[b]) /\ Covers(entry[b], p, r[2])
    BY <2>2, <2>3, DoneCovers DEF VerdictInv
  <2>5. b < blk
    BY <2>2, SizeAssumption DEF VerdictInv, Inv, Scanned, Blocks
  <2>6. PICK tr : Trace(b, entry[b], Exit(b), tr) /\ LeaksOf(tr[Exit(b)])
    BY <2>5 DEF VerdictInv, Inv, Scanned
  <2>7. Exit(b) \in 1 .. Exit(b) /\ Exit(b) = Len(f.points[b]) + 1
    BY <1>1, <2>2 DEF Exit, WellFormed, Body
  <2>8. Covers(tr[Exit(b)], p, "owned")
    BY <1>1, <2>2, <2>3, <2>4, <2>6, <2>7, TraceCovers
  <2>9. p \in (tr[Exit(b)].owned \cap f.needsDrop) \ {ReturnLocal}
    BY <2>2, <2>8 DEF Covers
  <2>10. \E l \in leaks : l[1] = p
    BY <2>6, <2>9 DEF LeaksOf
  <2> QED BY <2>10
<1> QED BY <1>3, <1>4

LEMMA VerdictInit == Init => VerdictInv
BY InvInit, PathInit DEF VerdictInv, ReplayReturns, Init, Start

LEMMA VerdictStep == VerdictInv /\ [Next]_vars => VerdictInv'
BY InvStep, PathStep, ReplayReturnsStep DEF VerdictInv

LEMMA VerdictInvariant == RunSpec => []VerdictInv
<1>1. RunInit => VerdictInv
  BY VerdictInit DEF RunInit
<1>2. VerdictInv /\ [RunNext]_allVars => VerdictInv'
  BY AnalysisStep, VerdictStep
<1> QED BY <1>1, <1>2, PTL DEF RunSpec

(* Of the errors of analyze(): when the data flow ends, it has reported a  *)
(* point and a local for exactly the move errors that some path from the   *)
(* entry commits, for every graph, in whatever order blocks were walked.   *)
ErrorsOfPaths ==
  phase = "done" => { <<e[1], e[2], e[3]>> : e \in errors } = Check!MoveErrors(body)

THEOREM ErrorsAreOfPaths == RunSpec => []ErrorsOfPaths
<1>1. VerdictInv => ErrorsOfPaths
  BY ErrorsExact DEF ErrorsOfPaths
<1> QED BY <1>1, VerdictInvariant, PTL

(* Of the wording of errors (enum UseKind): a local is said to have been   *)
(* moved exactly when some path has moved it, and never initialised only   *)
(* when some path has never initialised it, though the word was chosen     *)
(* from whatever had reached the block when it was walked.                 *)
THEOREM KindsOfPaths == RunSpec => []KindsJustified
<1>1. VerdictInv => KindsJustified
  <2> SUFFICES ASSUME VerdictInv, phase = "done", NEW p \in Locals, NEW b \in Blocks,
                      NEW i \in 1 .. Len(body.points[b])
               PROVE  LET ev == body.points[b][i]
                          at_i == StatusesAt(b, i, p, Check!Reached(body, p)) IN
                      /\ <<b, i, p, "Moved">> \in errors <=>
                           p \in ev.accessed \cup ev.borrowed /\ "moved" \in at_i
                      /\ <<b, i, p, "Uninit">> \in errors => "uninit" \in at_i
    BY DEF KindsJustified
  <2> PICK f, ev : f = body /\ ev = f.points[b][i]
    OBVIOUS
  <2>1. StatusesAt(b, i, p, Check!Reached(f, p)) = Statuses(f, b, i, p)
    BY DEF StatusesAt, Statuses
  <2>2. ASSUME NEW kind, <<b, i, p, kind>> \in errors
        PROVE  /\ kind = "Moved" => /\ p \in ev.accessed \union ev.borrowed
                                    /\ "moved" \in Statuses(f, b, i, p)
               /\ kind = "Uninit" => "uninit" \in Statuses(f, b, i, p)
    <3>1. ErrorOf(f, <<b, i, p, kind>>)
      BY <2>2 DEF VerdictInv, PathInv
    <3> QED BY <3>1 DEF ErrorOf
  <2>3. "moved" \in Statuses(f, b, i, p) /\ p \in ev.accessed \union ev.borrowed
          => <<b, i, p, "Moved">> \in errors
    BY DoneRecords DEF VerdictInv
  <2> QED BY <2>1, <2>2, <2>3
<1> QED BY <1>1, VerdictInvariant, PTL

(* Of check_leaks: it names the locals that some path still owns at a      *)
(* return, when every block that returns is on some path.                  *)
LeaksOfPaths ==
  phase = "done" /\ ReturnsVisited(body) => { l[1] : l \in leaks } = Check!Leaks(body)

THEOREM LeaksAreOfPaths == RunSpec => []LeaksOfPaths
<1>1. VerdictInv => LeaksOfPaths
  BY LeaksExact DEF LeaksOfPaths
<1> QED BY <1>1, VerdictInvariant, PTL

(* Of analyze() and check_leaks: step by step the data flow implements the *)
(* checker that looks at every path, provided that every block that        *)
(* returns is on a path; for one that is not, leaks are reported that no   *)
(* path has (LeakOnSomePath is violated).                                  *)
THEOREM DataflowImplements ==
  ASSUME \A f \in Bodies : ReturnsVisited(f)
  PROVE  RunSpec => ImplementsMoveCheck
<1>1. RunInit => Check!Init
  BY TypeInit DEF RunInit, Init, Start, Check!Init, TypeOK, WellFormed, Check!WellFormed,
                  Body, Check!Body, Event, Check!Event, Blocks, Check!Blocks, Locals, Check!Locals,
                  ReturnLocal, Check!ReturnLocal
<1>2. VerdictInv /\ ErrorsOfPaths' /\ LeaksOfPaths' /\ [RunNext]_allVars
        => [Check!Decide]_(Check!vars)
  <2> SUFFICES ASSUME VerdictInv, ErrorsOfPaths', LeaksOfPaths', [Next]_vars
               PROVE  [Check!Decide]_(Check!vars)
    BY AnalysisStep
  <2>1. CASE phase = "done" \/ phase' # "done"
    <3>1. UNCHANGED <<body, phase>> \/ (phase # "done" /\ phase' # "done" /\ body' = body)
      BY <2>1 DEF Next, vars, Pop, Point, Edge, NextBlock, Converge, ScanBlock, Replay, Finish
    <3>2. phase = "done" => UNCHANGED <<errors, leaks>>
      BY <2>1 DEF Next, vars, Pop, Point, Edge, NextBlock, Converge, ScanBlock, Replay, Finish
    <3> QED BY <3>1, <3>2 DEF Check!vars
  <2>2. CASE phase # "done" /\ phase' = "done"
    <3>1. UNCHANGED body
      BY <2>2 DEF Next, vars, Pop, Point, Edge, NextBlock, Converge, ScanBlock, Replay, Finish
    <3>2. ReturnsVisited(body')
      BY <3>1 DEF VerdictInv, PathInv
    <3>3. { <<e[1], e[2], e[3]>> : e \in errors' } = Check!MoveErrors(body')
      BY <2>2 DEF ErrorsOfPaths
    <3>4. { l[1] : l \in leaks' } = Check!Leaks(body')
      BY <2>2, <3>2 DEF LeaksOfPaths
    <3> QED BY <2>2, <3>1, <3>3, <3>4 DEF Check!Decide, Check!Verdict
  <2> QED BY <2>1, <2>2
<1> QED BY <1>1, <1>2, VerdictInvariant, ErrorsAreOfPaths, LeaksAreOfPaths, PTL
        DEF RunSpec, ImplementsMoveCheck, Check!Spec

=============================================================================
