------------------------- MODULE CompileDriverProofs -------------------------
(***************************************************************************)
(* What co2cc links is what it was asked to link, for any inputs, whatever *)
(* the names of their objects and the failures of the programs it calls.   *)
(***************************************************************************)
EXTENDS CompileDriver, TLAPS

Linking == {"shared", "runtime", "stub", "system", "cc", "last"}

(* There is an object for each input that was read.                        *)
Paired ==
    /\ inputs \in Seq(Files)
    /\ objects \in Seq(DOMAIN disk)
    /\ Len(objects) <= Len(inputs)
    /\ phase \in Linking => Len(objects) = Len(inputs)

(* Inputs may share an object; then it holds a later one of them.          *)
Held ==
    \A i \in 1..Len(objects) :
        \E j \in i..Len(objects) :
            objects[j] = objects[i] /\ disk[objects[i]].of = inputs[j]

(* Nothing is put in place before the end.                                 *)
Staged ==
    /\ phase = "emit" => Emits
    /\ ~Ended => output = <<>>

DInv == Paired /\ Held /\ Staged /\ LinkedIsAsked

-----------------------------------------------------------------------------

(* The first state: no object has been written.                            *)
LEMMA InitDInv == Init => DInv
<1> SUFFICES ASSUME Init PROVE DInv
  OBVIOUS
<1>1. PICK n \in 1..MaxInputs : inputs \in [1..n -> Files]
  BY DEF Init
<1>2. inputs \in Seq(Files) /\ Len(inputs) \in Nat
  <2>1. n \in Nat
    BY DriverAssumption DEF DriverAssumption
  <2>2. inputs \in Seq(Files)
    BY <2>1, <1>1
  <2> QED BY <2>2
<1>3. objects = <<>> /\ DOMAIN disk = {} /\ phase = "parsed" /\ output = <<>>
  BY DEF Init
<1>4. Paired
  BY <1>2, <1>3 DEF Paired, Linking
<1>5. Held
  BY <1>3 DEF Held
<1>6. Staged /\ LinkedIsAsked
  BY <1>3 DEF Staged, LinkedIsAsked, Ended
<1> QED BY <1>4, <1>5, <1>6 DEF DInv

(* A step that leaves the objects alone and puts nothing in place.         *)
LEMMA QuietStep ==
  ASSUME DInv,
         UNCHANGED <<inputs, flags, disk, objects, output>>,
         output = <<>>,
         phase' \in Linking => phase \in Linking \/ Len(objects) = Len(inputs),
         phase' = "emit" => Emits,
         phase' = "ended" => exit' # 0
  PROVE  DInv'
<1>1. Paired'
  BY DEF DInv, Paired
<1>2. Held'
  BY DEF DInv, Held
<1>3. Staged'
  BY DEF Staged, Ended, Emits
<1>4. LinkedIsAsked'
  BY DEF LinkedIsAsked, Ended
<1> QED BY <1>1, <1>2, <1>3, <1>4 DEF DInv

(* A link that succeeds is given as many objects as there are inputs, and  *)
(* twice only those without strong symbols, so that any other holds its    *)
(* own input.                                                              *)
LEMMA LinkedStep ==
  ASSUME DInv, phase \in Linking, Linked,
         UNCHANGED <<flags, inputs, archive, disk, objects>>
  PROVE  DInv'
<1>1. Len(objects) = Len(inputs) /\ objects \in Seq(DOMAIN disk) /\ inputs \in Seq(Files)
  BY DEF DInv, Paired
<1> DEFINE code == [i \in DOMAIN objects |-> disk[objects[i]].of]
<1>2. InPlace(code)
  <2>1. DOMAIN code = DOMAIN inputs /\ DOMAIN inputs = 1..Len(objects) /\ Len(objects) \in Nat
    BY <1>1
  <2>2. ASSUME NEW i \in DOMAIN inputs
        PROVE  \/ code[i] = inputs[i]
               \/ \E j \in DOMAIN inputs : j > i /\ code[i] = inputs[j] /\ inputs[j] \in Weak
    <3>1. PICK j \in i..Len(objects) : objects[j] = objects[i] /\ disk[objects[i]].of = inputs[j]
      BY <2>1 DEF DInv, Held
    <3>2. code[i] = inputs[j] /\ j \in DOMAIN inputs /\ (j = i \/ j > i)
      BY <3>1, <2>1
    <3>3. j # i => inputs[j] \in Weak
      <4>1. i \in DOMAIN objects /\ j \in DOMAIN objects
        BY <3>2, <2>1, <1>1
      <4> QED BY <4>1, <3>1 DEF Linked, Repeated
    <3> HIDE DEF code
    <3> QED BY <3>2, <3>3
  <2> HIDE DEF code
  <2> QED BY <2>1, <2>2 DEF InPlace
<1>3. output' = <<[code |-> code, runtime |-> offered]>>
  BY DEF Linked, Produce
<1> HIDE DEF code
<1>6. output'[1].code = code /\ output'[1].runtime = offered /\ output' # <<>>
  BY <1>3
<1>7. phase' = "ended" /\ exit' = 0 /\ (~Holes => Needs \subseteq offered)
  BY DEF Linked, Return, Missing
<1>8. UNCHANGED <<Needs, Holes>>
  BY DEF Needs, Holes
<1>9. Paired'
  BY <1>7 DEF DInv, Paired, Linking
<1>10. Held'
  BY DEF DInv, Held
<1>11. Staged'
  BY <1>7 DEF Staged, Ended
<1>12. LinkedIsAsked'
  <2>1. InPlace(output[1].code)'
    BY <1>2, <1>6 DEF InPlace
  <2> QED BY <2>1, <1>6, <1>7, <1>8 DEF LinkedIsAsked
<1> QED BY <1>9, <1>10, <1>11, <1>12 DEF DInv

(* An input that was compiled: its object may take the place of another.   *)
LEMMA CompiledStep ==
  ASSUME DInv, phase = "compile", Len(objects) < Len(inputs),
         NEW path, NEW needs,
         disk' = [p \in DOMAIN disk \union {path} |->
                     IF p = path THEN [of |-> inputs[Len(objects) + 1], needs |-> needs] ELSE disk[p]],
         objects' = Append(objects, path),
         UNCHANGED <<flags, inputs, phase, exit, output>>
  PROVE  DInv'
<1>1. objects \in Seq(DOMAIN disk) /\ inputs \in Seq(Files) /\ Len(objects) \in Nat
  BY DEF DInv, Paired
<1>2. /\ DOMAIN disk' = DOMAIN disk \union {path}
      /\ objects \in Seq(DOMAIN disk')
  BY <1>1
<1>3. /\ objects' \in Seq(DOMAIN disk')
      /\ Len(objects') = Len(objects) + 1
      /\ \A i \in 1..Len(objects) : objects'[i] = objects[i]
      /\ objects'[Len(objects) + 1] = path
  BY <1>2
<1>4. Paired'
  BY <1>1, <1>3 DEF DInv, Paired, Linking
<1>5. Held'
  <2> SUFFICES ASSUME NEW i \in 1..Len(objects')
               PROVE  \E j \in i..Len(objects') :
                         objects'[j] = objects'[i] /\ disk'[objects'[i]].of = inputs'[j]
    BY DEF Held
  <2>1. CASE objects'[i] = path
    <3>1. Len(objects) + 1 \in i..Len(objects')
      BY <1>1, <1>3
    <3> QED BY <2>1, <3>1, <1>3
  <2>2. CASE objects'[i] # path
    <3>1. i \in 1..Len(objects) /\ objects'[i] = objects[i] /\ objects[i] \in DOMAIN disk
      BY <2>2, <1>1, <1>3
    <3>2. PICK j \in i..Len(objects) : objects[j] = objects[i] /\ disk[objects[i]].of = inputs[j]
      BY <3>1 DEF DInv, Held
    <3>3. disk'[objects'[i]].of = inputs[j]
      BY <2>2, <3>1, <3>2
    <3>4. objects'[j] = objects'[i] /\ j \in i..Len(objects')
      BY <1>1, <1>3, <3>1, <3>2
    <3> QED BY <3>3, <3>4
  <2> QED BY <2>1, <2>2
<1>6. Staged' /\ LinkedIsAsked'
  BY DEF DInv, Staged, LinkedIsAsked, Ended
<1> QED BY <1>4, <1>5, <1>6 DEF DInv

-----------------------------------------------------------------------------

(* Every step keeps the invariant.                                         *)
LEMMA NextDInv == DInv /\ [Next]_vars => DInv'
<1> SUFFICES ASSUME DInv, [Next]_vars PROVE DInv'
  OBVIOUS
<1>a. ~Ended => output = <<>>
  BY DEF DInv, Staged
<1>b. phase \in Linking \union {"parsed", "emit", "compile"} => output = <<>>
  BY <1>a DEF Ended, Linking
<1>1. CASE UNCHANGED vars
  <2>1. Paired' /\ Held' /\ Staged'
    BY <1>1 DEF vars, DInv, Paired, Held, Staged, Ended, Emits
  <2>2. LinkedIsAsked'
    BY <1>1 DEF vars, DInv, LinkedIsAsked, InPlace, Ended, Emits, Links, Holes, Needs
  <2> QED BY <2>1, <2>2 DEF DInv
<1>2. CASE CheckArgs
  <2>1. output = <<>> /\ UNCHANGED <<inputs, flags, disk, objects, output>>
    BY <1>2, <1>b DEF CheckArgs
  <2>2. \/ phase' = "ended" /\ exit' = 2
        \/ phase' = "emit" /\ Emits
        \/ phase' = "compile"
    BY <1>2 DEF CheckArgs, Return
  <2> QED BY <2>1, <2>2, QuietStep DEF Linking
<1>3. CASE Emit
  <2>1. /\ UNCHANGED <<inputs, flags, disk, objects>> /\ phase' = "ended"
        /\ Emits /\ output = <<>>
    BY <1>3, <1>b DEF Emit, Return, DInv, Staged
  <2>2. \/ output' # <<>> /\ exit' = 0
        \/ output' = output /\ exit' \in {5, 101}
    BY <1>3 DEF Emit, Return, Refusals
  <2>3. CASE output' # <<>> /\ exit' = 0
    <3>1. Paired' /\ Held' /\ Staged'
      BY <2>1 DEF DInv, Paired, Held, Staged, Linking, Ended
    <3>2. LinkedIsAsked'
      BY <2>1, <2>3 DEF LinkedIsAsked, Links, Emits
    <3> QED BY <3>1, <3>2 DEF DInv
  <2>4. CASE output' = output /\ exit' \in {5, 101}
    BY <2>1, <2>4, QuietStep DEF Linking
  <2> QED BY <2>2, <2>3, <2>4
<1>4. CASE Compile
  <2> DEFINE input == inputs[Len(objects) + 1]
             file == Resolved(input)
             path == IF file.ext = "o" THEN file ELSE ObjectPath(file)
  <2>1. /\ phase = "compile" /\ Len(objects) < Len(inputs) /\ output = <<>>
        /\ UNCHANGED <<flags, inputs, output>>
    BY <1>4, <1>b DEF Compile
  <2>2. CASE \E needs \in SUBSET Parts :
               /\ disk' = [p \in DOMAIN disk \union {path} |->
                             IF p = path THEN [of |-> input, needs |-> needs] ELSE disk[p]]
               /\ objects' = Append(objects, path)
               /\ UNCHANGED <<phase, exit>>
    BY <2>1, <2>2, CompiledStep
  <2>3. CASE \E status \in Refusals(file) : Return(status) /\ UNCHANGED <<disk, objects>>
    <3>1. phase' = "ended" /\ exit' \in {5, 101} /\ UNCHANGED <<disk, objects>>
      BY <2>3 DEF Return, Refusals
    <3> QED BY <2>1, <3>1, QuietStep DEF Linking
  <2> QED BY <1>4, <2>2, <2>3 DEF Compile, Listed
<1>5. CASE StartLink
  BY <1>5, <1>b, QuietStep DEF StartLink
<1>6. CASE LinkShared
  <2>1. phase \in Linking /\ output = <<>> /\ UNCHANGED <<flags, inputs, archive, disk, objects>>
    BY <1>6, <1>b DEF LinkShared, Linking
  <2>2. CASE Linked
    BY <2>1, <2>2, LinkedStep
  <2>3. CASE ~Linked
    BY <1>6, <2>1, <2>3, QuietStep DEF LinkShared, Refused, Again, GiveUp, ExitProcess
  <2> QED BY <2>2, <2>3
<1>7. CASE BuildRuntime
  <2>1. phase \in Linking
    BY <1>7 DEF BuildRuntime, Linking
  <2> QED BY <1>7, <1>b, <2>1, QuietStep DEF BuildRuntime, ExitProcess
<1>8. CASE LinkStub
  <2>1. phase \in Linking /\ output = <<>> /\ UNCHANGED <<flags, inputs, archive, disk, objects>>
    BY <1>8, <1>b DEF LinkStub, Linking
  <2>2. CASE Linked
    BY <2>1, <2>2, LinkedStep
  <2>3. CASE ~Linked
    BY <1>8, <2>1, <2>3, QuietStep DEF LinkStub, Refused, Again, GiveUp, ExitProcess
  <2> QED BY <2>2, <2>3
<1>9. CASE BuildStub
  <2>1. phase \in Linking
    BY <1>9 DEF BuildStub, Linking
  <2> QED BY <1>9, <1>b, <2>1, QuietStep DEF BuildStub, ExitProcess
<1>10. CASE LinkSystemC
  <2>1. phase \in Linking /\ output = <<>> /\ UNCHANGED <<flags, inputs, archive, disk, objects>>
    BY <1>10, <1>b DEF LinkSystemC, Linking
  <2>2. CASE Linked
    BY <2>1, <2>2, LinkedStep
  <2>3. CASE ~Linked
    BY <1>10, <2>1, <2>3, QuietStep DEF LinkSystemC, Refused, Again, GiveUp, ExitProcess
  <2> QED BY <2>2, <2>3
<1>11. CASE LinkAgain
  <2>1. phase \in Linking /\ output = <<>> /\ UNCHANGED <<flags, inputs, archive, disk, objects>>
    BY <1>11, <1>b DEF LinkAgain, Linking
  <2>2. CASE Linked
    BY <2>1, <2>2, LinkedStep
  <2>3. CASE ~Linked
    BY <1>11, <2>1, <2>3, QuietStep DEF LinkAgain, Refused, GiveUp, ExitProcess
  <2> QED BY <2>2, <2>3
<1>12. CASE CannotRun
  <2>1. phase \in Linking
    BY <1>12 DEF CannotRun, Linking
  <2> QED BY <1>12, <1>b, <2>1, QuietStep DEF CannotRun, Return, Linking
<1> QED BY <1>1, <1>2, <1>3, <1>4, <1>5, <1>6, <1>7, <1>8, <1>9, <1>10, <1>11, <1>12 DEF Next

(* Of run_co2c and link_objects: a link that succeeds holds the code of    *)
(* every input, in order and once, but for what an object without strong   *)
(* symbols was written over, and all of the runtime it needs, but for a    *)
(* shared library with holes; a command that fails leaves nothing.  This   *)
(* holds for any number of inputs.                                         *)
THEOREM LinksTheInputs == Spec => []LinkedIsAsked
<1>1. DInv => LinkedIsAsked
  BY DEF DInv
<1> QED BY InitDInv, NextDInv, <1>1, PTL DEF Spec

-----------------------------------------------------------------------------
(***************************************************************************)
(* What a link is tried with.  The first offer depends on the way to link; *)
(* a second one is made only of what the first was refused for, and leaves *)
(* out std only when std was not missing.                                  *)
(***************************************************************************)
ReallyNeedsRust == ~(Needs \subseteq {"core"})

Offers ==
    /\ phase = "stub" => offered = {"core"} /\ "-shared" \notin flags
    /\ phase \in {"system", "cc"} => offered = {"unwind"} /\ "-shared" \notin flags /\ archive
    /\ phase = "shared" => offered = {"unwind"} /\ "-shared" \in flags
    /\ phase = "runtime" => offered = Runtime /\ "-shared" \in flags
    /\ phase = "last" =>
         \/ offered = Runtime /\ ("-shared" \notin flags => ReallyNeedsRust)
         \/ /\ offered = {"core"} /\ "-shared" \notin flags /\ archive
            /\ "std" \notin Needs /\ Needs # {"unwind"}

OfferInv == Offers /\ Staged /\ StdOnlyIfNeeded

(* A link that succeeds ends the command with what was offered.            *)
LEMMA LinkedOffer ==
  ASSUME Linked, UNCHANGED <<flags, disk, objects>>,
         "-shared" \notin flags /\ "std" \in offered => ReallyNeedsRust
  PROVE  OfferInv'
<1>1. phase' = "ended" /\ output' # <<>> /\ output'[1].runtime = offered
  BY DEF Linked, Return, Produce
<1>2. Needs' = Needs
  BY DEF Needs
<1>3. StdOnlyIfNeeded'
  BY <1>1, <1>2 DEF StdOnlyIfNeeded, ReallyNeedsRust
<1> QED BY <1>1, <1>3 DEF OfferInv, Offers, Staged, Ended

(* A command that ends without a link has nothing to answer for.           *)
LEMMA EndedOffer ==
  ASSUME phase' = "ended", output' = <<>> PROVE OfferInv'
BY DEF OfferInv, Offers, Staged, StdOnlyIfNeeded, Ended

(* The command line is refused, or the command goes on.                    *)
LEMMA Checked ==
  ASSUME CheckArgs
  PROVE  \/ Return(2)
         \/ /\ phase' = IF Emits THEN "emit" ELSE "compile"
            /\ temps' = {"compile"} /\ exit' = exit
<1> DEFINE bad(missing) ==
             \/ missing # {}
             \/ Emits /\ Cardinality({n \in DOMAIN inputs : IsSource(inputs[n])}) # 1
<1>1. PICK missing : IF bad(missing) THEN Return(2)
                     ELSE /\ phase' = IF Emits THEN "emit" ELSE "compile"
                          /\ temps' = {"compile"}
                          /\ UNCHANGED exit
  BY DEF CheckArgs
<1> HIDE DEF bad
<1>2. CASE bad(missing)
  BY <1>1, <1>2
<1>3. CASE ~bad(missing)
  BY <1>1, <1>3
<1> QED BY <1>2, <1>3

LEMMA OfferStep == OfferInv /\ [Next]_vars => OfferInv'
<1> SUFFICES ASSUME OfferInv, [Next]_vars PROVE OfferInv'
  OBVIOUS
<1>a. ~Ended => output = <<>>
  BY DEF OfferInv, Staged
<1>0. ASSUME UNCHANGED <<flags, disk, objects>> PROVE UNCHANGED <<Needs, ReallyNeedsRust>>
  BY <1>0 DEF Needs, ReallyNeedsRust
<1>1. CASE UNCHANGED vars
  BY <1>1, <1>0 DEF vars, OfferInv, Offers, Staged, StdOnlyIfNeeded, Ended, Emits, ReallyNeedsRust
<1>2. CASE CheckArgs
  <2>1. output' = <<>> /\ UNCHANGED flags
    BY <1>2, <1>a DEF CheckArgs, Ended
  <2>2. phase' = "ended" \/ (phase' = "emit" /\ Emits) \/ phase' = "compile"
    BY <1>2, Checked DEF Return
  <2> QED BY <2>1, <2>2 DEF OfferInv, Offers, Staged, StdOnlyIfNeeded, Ended, Emits
<1>3. CASE Emit
  <2>1. phase' = "ended" /\ (output' = <<>> \/ output'[1].runtime = {})
    BY <1>3, <1>a DEF Emit, Return, Ended
  <2> QED BY <2>1 DEF OfferInv, Offers, Staged, StdOnlyIfNeeded, Ended
<1>4. CASE Compile
  <2>1. output' = <<>> /\ (phase' = "ended" \/ phase' = "compile")
    BY <1>4, <1>a DEF Compile, Return, Ended
  <2> QED BY <2>1 DEF OfferInv, Offers, Staged, StdOnlyIfNeeded, Ended
<1>5. CASE StartLink
  <2>1. /\ output' = <<>> /\ UNCHANGED <<flags, archive>>
        /\ phase' = IF "-shared" \in flags THEN "shared" ELSE IF archive THEN "system" ELSE "stub"
        /\ offered' = IF phase' = "stub" THEN {"core"} ELSE {"unwind"}
    BY <1>5, <1>a DEF StartLink, Ended
  <2> QED BY <2>1 DEF OfferInv, Offers, Staged, StdOnlyIfNeeded, Ended
<1>6. CASE LinkShared
  <2>1. phase = "shared" /\ output = <<>> /\ UNCHANGED <<flags, archive, disk, objects>>
    BY <1>6, <1>a DEF LinkShared, Ended
  <2>2. offered = {"unwind"} /\ "-shared" \in flags
    BY <2>1 DEF OfferInv, Offers
  <2>3. CASE Linked
    BY <2>1, <2>2, <2>3, LinkedOffer
  <2>4. CASE Refused /\ Again(Runtime, "runtime")
    BY <2>1, <2>2, <2>4 DEF Refused, Again, OfferInv, Offers, Staged, StdOnlyIfNeeded, Ended
  <2>5. CASE Refused /\ GiveUp
    BY <2>1, <2>5, EndedOffer DEF Refused, GiveUp, ExitProcess
  <2> QED BY <1>6, <2>3, <2>4, <2>5 DEF LinkShared
<1>7. CASE BuildRuntime
  <2>1. output' = <<>> /\ UNCHANGED <<flags, offered>>
    BY <1>7, <1>a DEF BuildRuntime, Ended
  <2>2. offered = Runtime /\ "-shared" \in flags
    BY <1>7 DEF BuildRuntime, OfferInv, Offers
  <2>3. phase' \in {"last", "ended"}
    BY <1>7 DEF BuildRuntime, ExitProcess
  <2> QED BY <2>1, <2>2, <2>3 DEF OfferInv, Offers, Staged, StdOnlyIfNeeded, Ended
<1>8. CASE LinkStub
  <2>1. phase = "stub" /\ output = <<>> /\ UNCHANGED <<flags, archive, disk, objects>>
    BY <1>8, <1>a DEF LinkStub, Ended
  <2>2. offered = {"core"}
    BY <2>1 DEF OfferInv, Offers
  <2>3. CASE Linked
    BY <2>1, <2>2, <2>3, LinkedOffer
  <2>4. CASE Refused /\ Missing \intersect {"std", "alloc", "unwind"} # {} /\ Again(Runtime, "last")
    <3>1. ReallyNeedsRust'
      BY <2>1, <2>4, <1>0 DEF Missing, ReallyNeedsRust
    <3> QED BY <2>1, <2>4, <3>1 DEF Refused, Again, OfferInv, Offers, Staged, StdOnlyIfNeeded, Ended
  <2>5. CASE output' = output /\ GiveUp
    BY <2>1, <2>5, EndedOffer DEF GiveUp, ExitProcess
  <2> QED BY <1>8, <2>3, <2>4, <2>5 DEF LinkStub, Refused
<1>9. CASE BuildStub
  <2>1. output' = <<>> /\ UNCHANGED <<flags, archive, offered>>
    BY <1>9, <1>a DEF BuildStub, Ended
  <2>2. offered = {"unwind"} /\ "-shared" \notin flags /\ archive
    BY <1>9 DEF BuildStub, OfferInv, Offers
  <2>3. phase' \in {"cc", "ended"}
    BY <1>9 DEF BuildStub, ExitProcess
  <2> QED BY <2>1, <2>2, <2>3 DEF OfferInv, Offers, Staged, StdOnlyIfNeeded, Ended
<1>10. CASE LinkSystemC
  <2>1. phase = "cc" /\ output = <<>> /\ UNCHANGED <<flags, archive, disk, objects>>
    BY <1>10, <1>a DEF LinkSystemC, Ended
  <2>2. offered = {"unwind"} /\ "-shared" \notin flags /\ archive
    BY <2>1 DEF OfferInv, Offers
  <2>3. CASE Linked
    BY <2>1, <2>2, <2>3, LinkedOffer
  <2>4. CASE Refused /\ NeedsRuntime /\ Again(SecondRuntime, "last")
    <3>1. /\ "std" \in Needs => ReallyNeedsRust
          /\ Needs # {"unwind"}
          /\ "std" \in Missing <=> "std" \in Needs
      BY <2>2, <2>4 DEF NeedsRuntime, Missing, ReallyNeedsRust
    <3>2. /\ offered' = IF "std" \in Missing THEN Runtime ELSE {"core"}
          /\ phase' = "last" /\ output' = <<>>
      BY <2>1, <2>4 DEF Refused, Again, SecondRuntime
    <3> QED BY <2>1, <2>2, <3>1, <3>2, <1>0 DEF OfferInv, Offers, Staged, StdOnlyIfNeeded, Ended
  <2>5. CASE Refused /\ GiveUp
    BY <2>1, <2>5, EndedOffer DEF Refused, GiveUp, ExitProcess
  <2> QED BY <1>10, <2>3, <2>4, <2>5 DEF LinkSystemC
<1>11. CASE LinkAgain
  <2>1. phase = "last" /\ output = <<>> /\ UNCHANGED <<flags, archive, disk, objects>>
    BY <1>11, <1>a DEF LinkAgain, Ended
  <2>2. "-shared" \notin flags /\ "std" \in offered => ReallyNeedsRust
    BY <2>1 DEF OfferInv, Offers
  <2>3. CASE Linked
    BY <2>1, <2>2, <2>3, LinkedOffer
  <2>4. CASE Refused /\ GiveUp
    BY <2>1, <2>4, EndedOffer DEF Refused, GiveUp, ExitProcess
  <2> QED BY <1>11, <2>3, <2>4 DEF LinkAgain
<1>12. CASE CannotRun
  BY <1>12, <1>a, EndedOffer DEF CannotRun, Return, Ended
<1> QED BY <1>1, <1>2, <1>3, <1>4, <1>5, <1>6, <1>7, <1>8, <1>9, <1>10, <1>11, <1>12 DEF Next

(* Of link_with_rust_stub and link_with_system_c: std is in an executable  *)
(* only if its objects refer to more than core (link.rs:69), whichever of  *)
(* the links it took and whatever failed before.                           *)
THEOREM StdWhenNeeded == Spec => []StdOnlyIfNeeded
<1>1. Init => OfferInv
  BY DEF Init, OfferInv, Offers, Staged, StdOnlyIfNeeded, Ended
<1>2. OfferInv => StdOnlyIfNeeded
  BY DEF OfferInv
<1> QED BY <1>1, <1>2, OfferStep, PTL DEF Spec

-----------------------------------------------------------------------------
(***************************************************************************)
(* When nothing goes wrong in the programs that are called, a command that *)
(* does not link gives a reason that its user can see: an object that was  *)
(* written twice, or that half of the runtime which has no archive.        *)
(***************************************************************************)
(* The object of an input.                                                 *)
ObjectOf(input) ==
    LET file == Resolved(input) IN IF file.ext = "o" THEN file ELSE ObjectPath(file)

Named ==
    /\ Len(inputs) >= 1
    /\ \A i \in 1..Len(objects) : objects[i] = ObjectOf(inputs[i])
    /\ \A p \in DOMAIN disk : disk[p].needs \subseteq Runtime
    /\ phase \in Linking \union {"compile"} => Links

CanInv == Named /\ LinksWhatItCan

(* An object's name has no letters left to replace.                        *)
LEMMA ObjectPathTwice ==
  ASSUME NEW file PROVE ObjectPath(ObjectPath(file)) = ObjectPath(file)
<1> DEFINE stem == [i \in DOMAIN file.stem |-> IF file.stem[i] = "-" THEN "_" ELSE file.stem[i]]
<1>1. ObjectPath(file) = [dir |-> "temp", ext |-> "o", stem |-> stem]
  BY DEF ObjectPath
<1>2. \A i \in DOMAIN stem : stem[i] # "-"
  OBVIOUS
<1>3. [i \in DOMAIN stem |-> IF stem[i] = "-" THEN "_" ELSE stem[i]] = stem
  BY <1>2
<1> HIDE DEF stem
<1>4. ObjectPath(ObjectPath(file)) = [dir |-> "temp", ext |-> "o", stem |-> stem]
  BY <1>1, <1>3 DEF ObjectPath
<1> QED BY <1>1, <1>4

(* An object is linked twice only if two inputs share its name.            *)
LEMMA RepeatedShares ==
  ASSUME DInv, Named, Repeated PROVE SharedName
<1>1. PICK i, j \in DOMAIN objects : i # j /\ objects[i] = objects[j]
  BY DEF Repeated
<1> DEFINE one == Resolved(inputs[i])
           two == Resolved(inputs[j])
<1>2. /\ i \in 1..Len(objects) /\ j \in 1..Len(objects)
      /\ i \in DOMAIN inputs /\ j \in DOMAIN inputs
  BY DEF DInv, Paired
<1>3. ObjectOf(inputs[i]) = ObjectOf(inputs[j])
  BY <1>1, <1>2 DEF Named
<1>4. CASE one.ext = "o" /\ two.ext = "o"
  <2>1. one = two
    BY <1>3, <1>4 DEF ObjectOf
  <2>2. one = inputs[i] /\ two = inputs[j]
    BY <1>4 DEF Resolved
  <2> QED BY <1>1, <1>2, <2>1, <2>2 DEF SharedName
<1>5. CASE ~(one.ext = "o" /\ two.ext = "o")
  <2>1. \/ ObjectPath(one) = ObjectPath(two)
        \/ one = ObjectPath(two)
        \/ two = ObjectPath(one)
    BY <1>3, <1>5 DEF ObjectOf
  <2>2. ObjectPath(one) = ObjectPath(two)
    BY <2>1, ObjectPathTwice
  <2> QED BY <1>1, <1>2, <2>2 DEF SharedName
<1> QED BY <1>4, <1>5

(* Objects refer to no more than there is of the runtime.                  *)
LEMMA NeedsSome ==
  ASSUME DInv, Named PROVE Needs \subseteq Runtime
<1>1. \A i \in DOMAIN objects : objects[i] \in DOMAIN disk
  BY DEF DInv, Paired
<1> QED BY <1>1 DEF Needs, Named

(* A step that leaves the objects alone and does not end in silence.       *)
LEMMA SameObjects ==
  ASSUME CanInv, UNCHANGED <<flags, inputs, archive, disk, objects>>,
         phase' \in Linking \union {"compile"} => Links,
         phase' = "ended" => exit' = 0 \/ faults' # {} \/ ~Sensible
  PROVE  CanInv'
<1>1. UNCHANGED <<Links, Needs, SharedName, HalfTheRuntime, ObjectFirst>>
  BY DEF Links, Emits, Needs, SharedName, HalfTheRuntime, ObjectFirst
<1>2. UNCHANGED Emits
  BY DEF Emits
<1>3. Sensible' <=> Sensible
  BY <1>1, <1>2 DEF Sensible
<1>4. Named'
  BY <1>1 DEF CanInv, Named
<1>5. LinksWhatItCan'
  BY <1>3 DEF LinksWhatItCan, Ended
<1> QED BY <1>4, <1>5 DEF CanInv

(* A link that was offered all the objects refer to is refused only for    *)
(* objects that share a name.                                              *)
LEMMA RefusedStep ==
  ASSUME CanInv, DInv, Refused, GiveUp, phase \in Linking,
         faults' = {} => Missing = {} \/ ~Sensible,
         UNCHANGED <<flags, inputs, archive, disk, objects>>
  PROVE  CanInv'
<1>1. Links
  BY DEF CanInv, Named
<1>2. phase' = "ended"
  BY DEF GiveUp, ExitProcess
<1>3. ASSUME faults' = {}, Missing = {} PROVE ~Sensible
  <2>1. Repeated
    BY <1>3 DEF Refused
  <2> QED BY <2>1, <1>1, RepeatedShares DEF CanInv, Sensible, Links
<1> QED BY <1>2, <1>3, SameObjects DEF Linking

LEMMA CanStep == CanInv /\ DInv /\ OfferInv /\ [Next]_vars => CanInv'
<1> SUFFICES ASSUME CanInv, DInv, OfferInv, [Next]_vars PROVE CanInv'
  OBVIOUS
<1>0. Needs \subseteq Runtime
  BY NeedsSome DEF CanInv
<1>1. CASE UNCHANGED vars
  BY <1>1, SameObjects DEF vars, CanInv, Named, LinksWhatItCan, Ended
<1>2. CASE CheckArgs
  <2>1. UNCHANGED <<flags, inputs, archive, disk, objects>>
    BY <1>2 DEF CheckArgs
  <2> DEFINE sources == {n \in DOMAIN inputs : IsSource(inputs[n])}
             bad(missing) == missing # {} \/ (Emits /\ Cardinality(sources) # 1)
  <2>2. PICK missing : /\ faults' = missing
                       /\ IF bad(missing) THEN Return(2)
                          ELSE phase' = IF Emits THEN "emit" ELSE "compile"
    BY <1>2 DEF CheckArgs
  <2>3. CASE bad(missing)
    <3>1. faults' = {} => ~Sensible
      BY <2>2, <2>3 DEF Sensible
    <3>2. phase' = "ended"
      BY <2>2, <2>3 DEF Return
    <3> QED BY <2>1, <3>1, <3>2, SameObjects DEF Linking
  <2>4. CASE ~bad(missing)
    <3> HIDE DEF bad
    <3>1. phase' = IF Emits THEN "emit" ELSE "compile"
      BY <2>2, <2>4
    <3> QED BY <2>1, <3>1, SameObjects DEF Linking, Links
  <2> QED BY <2>3, <2>4
<1>3. CASE Emit
  <2> DEFINE file == Resolved(inputs[1])
             accepted == \/ file.ext = "c" \/ Assembled(file)
                         \/ file.ext = "s" /\ "-E" \in flags
  <2>1. /\ UNCHANGED <<flags, inputs, archive, disk, objects>>
        /\ Emits /\ 1 \in DOMAIN inputs
    BY <1>3 DEF Emit, DInv, Staged, Paired, CanInv, Named
  <2>2. phase' = "ended" /\ (exit' = 0 \/ faults' = IF accepted THEN {file} ELSE {})
    BY <1>3 DEF Emit, Return
  <2>3. ASSUME ~accepted, Sensible PROVE FALSE
    <3>1. IsSource(inputs[1]) /\ ("-S" \in flags \ {"-E"} => inputs[1].ext # "s")
      BY <2>1, <2>3 DEF Sensible, ObjectFirst
    <3>2. inputs[1] # Stdin
      BY <2>3 DEF Resolved
    <3>3. inputs[1].ext = "s" /\ file = inputs[1]
      BY <3>1, <3>2, <2>3 DEF IsSource, Resolved
    <3> QED BY <3>1, <3>3, <2>3 DEF Assembled
  <2>4. faults' = {} => exit' = 0 \/ ~accepted
    BY <2>2
  <2> HIDE DEF file, accepted
  <2> QED BY <2>1, <2>2, <2>3, <2>4, SameObjects DEF Linking
<1>4. CASE Compile
  <2> DEFINE input == inputs[Len(objects) + 1]
             file == Resolved(input)
             path == IF file.ext = "o" THEN file ELSE ObjectPath(file)
  <2>1. /\ phase = "compile" /\ Len(objects) < Len(inputs) /\ Links
        /\ UNCHANGED <<flags, inputs, archive>>
    BY <1>4 DEF Compile, CanInv, Named
  <2>2. ASSUME NEW needs \in SUBSET Parts,
               disk' = [p \in DOMAIN disk \union {path} |->
                          IF p = path THEN [of |-> input, needs |-> needs] ELSE disk[p]],
               objects' = Append(objects, path),
               UNCHANGED <<phase, exit>>
        PROVE  CanInv'
    <3>1. objects \in Seq(DOMAIN disk) /\ Len(objects) \in Nat
      BY DEF DInv, Paired
    <3>2. /\ Len(objects') = Len(objects) + 1
          /\ \A i \in 1..Len(objects) : objects'[i] = objects[i]
          /\ objects'[Len(objects) + 1] = path
      <4>1. objects \in Seq(DOMAIN disk \union {path})
        BY <3>1
      <4> QED BY <4>1, <2>2
    <3>3. path = ObjectOf(input)
      BY DEF ObjectOf
    <3> HIDE DEF path
    <3>4. \A i \in 1..Len(objects') : objects'[i] = ObjectOf(inputs[i])
      BY <3>1, <3>2, <3>3 DEF CanInv, Named
    <3>5. \A p \in DOMAIN disk' : disk'[p].needs \subseteq Runtime
      BY <2>2, DriverAssumption DEF DriverAssumption, CanInv, Named
    <3>6. Links'
      BY <2>1 DEF Links, Emits
    <3>7. Named'
      BY <2>1, <3>4, <3>5, <3>6 DEF ObjectOf, CanInv, Named
    <3>8. LinksWhatItCan'
      BY <2>1, <2>2 DEF LinksWhatItCan, Ended
    <3> QED BY <3>7, <3>8 DEF CanInv
  <2>3. ASSUME \E status \in Refusals(file) : Return(status),
               faults' = {file}, UNCHANGED <<disk, objects>>
        PROVE  CanInv'
    BY <2>1, <2>3, SameObjects DEF Return, Linking
  <2> QED BY <1>4, <2>2, <2>3 DEF Compile, Listed
<1>5. CASE StartLink
  BY <1>5, SameObjects DEF StartLink, CanInv, Named
<1>6. CASE LinkShared
  <2>1. phase = "shared" /\ UNCHANGED <<flags, inputs, archive, disk, objects>>
    BY <1>6 DEF LinkShared
  <2>2. Links /\ offered = {"unwind"}
    BY <2>1 DEF CanInv, Named, Linking, OfferInv, Offers
  <2>3. CASE Linked
    BY <2>1, <2>2, <2>3, SameObjects DEF Linked, Return
  <2>4. CASE Again(Runtime, "runtime")
    BY <2>1, <2>2, <2>4, SameObjects DEF Again
  <2>5. CASE Refused /\ ~NeedsRuntime /\ GiveUp
    <3>1. Missing = {}
      BY <1>0, <2>2, <2>5 DEF Missing, NeedsRuntime, Runtime
    <3> QED BY <2>1, <2>5, <3>1, RefusedStep DEF Linking
  <2> QED BY <1>6, <2>3, <2>4, <2>5 DEF LinkShared
<1>7. CASE BuildRuntime
  <2>1. UNCHANGED <<flags, inputs, archive, disk, objects>> /\ Links
    BY <1>7 DEF BuildRuntime, CanInv, Named, Linking
  <2>2. phase' = "last" \/ (phase' = "ended" /\ faults' # {})
    BY <1>7 DEF BuildRuntime, ExitProcess
  <2> QED BY <2>1, <2>2, SameObjects
<1>8. CASE LinkStub
  <2>1. phase = "stub" /\ UNCHANGED <<flags, inputs, archive, disk, objects>>
    BY <1>8 DEF LinkStub
  <2>2. Links /\ offered = {"core"}
    BY <2>1 DEF CanInv, Named, Linking, OfferInv, Offers
  <2>3. CASE Linked
    BY <2>1, <2>2, <2>3, SameObjects DEF Linked, Return
  <2>4. CASE Again(Runtime, "last")
    BY <2>1, <2>2, <2>4, SameObjects DEF Again
  <2>5. CASE Refused /\ Missing \intersect {"std", "alloc", "unwind"} = {} /\ GiveUp
    <3>1. Missing = {}
      BY <1>0, <2>2, <2>5 DEF Missing, Runtime
    <3> QED BY <2>1, <2>5, <3>1, RefusedStep DEF Linking
  <2>6. CASE GiveUp /\ faults' = faults \union {"linker"}
    BY <2>1, <2>6, SameObjects DEF GiveUp, ExitProcess, Linking
  <2> QED BY <1>8, <2>3, <2>4, <2>5, <2>6 DEF LinkStub
<1>9. CASE BuildStub
  <2>1. UNCHANGED <<flags, inputs, archive, disk, objects>> /\ Links
    BY <1>9 DEF BuildStub, CanInv, Named, Linking
  <2>2. phase' = "cc" \/ (phase' = "ended" /\ faults' # {})
    BY <1>9 DEF BuildStub, ExitProcess
  <2> QED BY <2>1, <2>2, SameObjects
<1>10. CASE LinkSystemC
  <2>1. phase = "cc" /\ UNCHANGED <<flags, inputs, archive, disk, objects>>
    BY <1>10 DEF LinkSystemC
  <2>2. Links /\ offered = {"unwind"}
    BY <2>1 DEF CanInv, Named, Linking, OfferInv, Offers
  <2>3. CASE Linked
    BY <2>1, <2>2, <2>3, SameObjects DEF Linked, Return
  <2>4. CASE Again(SecondRuntime, "last")
    BY <2>1, <2>2, <2>4, SameObjects DEF Again
  <2>5. CASE Refused /\ ~NeedsRuntime /\ GiveUp
    <3>1. Missing = {}
      BY <1>0, <2>2, <2>5 DEF Missing, NeedsRuntime, Runtime
    <3> QED BY <2>1, <2>5, <3>1, RefusedStep DEF Linking
  <2> QED BY <1>10, <2>3, <2>4, <2>5 DEF LinkSystemC
<1>11. CASE LinkAgain
  <2>1. phase = "last" /\ UNCHANGED <<flags, inputs, archive, disk, objects>>
    BY <1>11 DEF LinkAgain
  <2>2. Links
    BY <2>1 DEF CanInv, Named, Linking
  <2>3. CASE Linked
    BY <2>1, <2>2, <2>3, SameObjects DEF Linked, Return
  <2>4. CASE Refused /\ GiveUp
    <3>1. CASE offered = Runtime
      BY <1>0, <2>1, <2>4, <3>1, RefusedStep DEF Missing, Linking
    <3>2. CASE offered # Runtime
      <4>1. /\ offered = {"core"} /\ "-shared" \notin flags /\ archive
            /\ "std" \notin Needs /\ Needs # {"unwind"}
        BY <2>1, <3>2 DEF OfferInv, Offers
      <4>2. Missing = {} \/ HalfTheRuntime
        BY <4>1 DEF Missing, HalfTheRuntime
      <4>3. Missing = {} \/ ~Sensible
        BY <4>2, <2>2 DEF Sensible, Links
      <4> QED BY <2>1, <2>4, <4>3, RefusedStep DEF Linking
    <3> QED BY <3>1, <3>2
  <2> QED BY <1>11, <2>3, <2>4 DEF LinkAgain
<1>12. CASE CannotRun
  BY <1>12, SameObjects DEF CannotRun, Return, Linking
<1> QED BY <1>1, <1>2, <1>3, <1>4, <1>5, <1>6, <1>7, <1>8, <1>9, <1>10, <1>11, <1>12 DEF Next

LEMMA InitCan == Init => CanInv
<1> SUFFICES ASSUME Init PROVE CanInv
  OBVIOUS
<1>1. PICK n \in 1..MaxInputs : inputs \in [1..n -> Files]
  BY DEF Init
<1>2. Len(inputs) >= 1
  <2>1. n \in Nat /\ n >= 1
    BY DriverAssumption DEF DriverAssumption
  <2>2. inputs \in Seq(Files) /\ DOMAIN inputs = 1..n
    BY <2>1, <1>1
  <2>3. Len(inputs) = n
    BY <2>1, <2>2
  <2> QED BY <2>1, <2>3
<1>3. objects = <<>> /\ DOMAIN disk = {} /\ phase = "parsed"
  BY DEF Init
<1> QED BY <1>2, <1>3 DEF CanInv, Named, LinksWhatItCan, Ended, Linking

(* Of link_objects and the three ways to link: what can be linked is.  The *)
(* parts a second link is made with are the ones the first was refused     *)
(* for, whatever the objects refer to, so that only objects that share a   *)
(* name, or half of the runtime, keep a faultless command from linking.    *)
THEOREM CanBeLinked == Spec => []LinksWhatItCan
<1> DEFINE Whole == CanInv /\ DInv /\ OfferInv
<1>1. Init => Whole
  BY InitCan, InitDInv DEF Init, OfferInv, Offers, Staged, StdOnlyIfNeeded, Ended
<1>2. Whole /\ [Next]_vars => Whole'
  BY CanStep, NextDInv, OfferStep
<1>3. Whole => LinksWhatItCan
  BY DEF CanInv
<1> HIDE DEF Whole
<1> QED BY <1>1, <1>2, <1>3, PTL DEF Spec

-----------------------------------------------------------------------------
(* The temporary directories there are while the command runs.             *)
Swept == temps \subseteq {"compile", "link"} /\ DirectoriesRemoved

(* Of the directories of co2cc (compile.rs, link.rs): none is left behind, *)
(* but that of the objects by a link that failed.                          *)
THEOREM DirectoriesSwept == Spec => []DirectoriesRemoved
<1>1. Init => Swept
  BY DEF Init, Swept, DirectoriesRemoved, Ended
<1>2. Swept /\ [Next]_vars => Swept'
  <2> SUFFICES ASSUME Swept, [Next]_vars PROVE Swept'
    OBVIOUS
  <2>1. ASSUME NEW status, Return(status) PROVE Swept'
    BY <2>1 DEF Return, Swept, DirectoriesRemoved
  <2>2. ASSUME ExitProcess(1) PROVE Swept'
    BY <2>2 DEF ExitProcess, Swept, DirectoriesRemoved
  <2>3. ASSUME NEW runtime, NEW stage, stage # "ended", Again(runtime, stage) PROVE Swept'
    BY <2>3 DEF Again, Swept, DirectoriesRemoved, Ended
  <2>4. ASSUME phase' # "ended", temps' \subseteq temps \union {"compile", "link"} PROVE Swept'
    BY <2>4 DEF Swept, DirectoriesRemoved, Ended
  <2>5. CASE UNCHANGED vars
    BY <2>5 DEF vars, Swept, DirectoriesRemoved, Ended
  <2>6. CASE CheckArgs
    <3>1. Return(2) \/ (phase' \in {"emit", "compile"} /\ temps' = {"compile"})
      BY <2>6, Checked
    <3> QED BY <3>1, <2>1, <2>4
  <2>7. CASE Emit
    <3>1. \E status : Return(status)
      BY <2>7 DEF Emit
    <3> QED BY <3>1, <2>1
  <2>8. CASE Compile
    <3>1. (\E status : Return(status)) \/ (phase = "compile" /\ UNCHANGED <<phase, temps>>)
      BY <2>8 DEF Compile
    <3> QED BY <3>1, <2>1, <2>4
  <2>9. CASE StartLink
    <3>1. phase' \in {"shared", "system", "stub"} /\ temps' \subseteq temps \union {"link"}
      BY <2>9 DEF StartLink
    <3> QED BY <3>1, <2>4
  <2>10. CASE LinkShared \/ LinkStub \/ LinkSystemC \/ LinkAgain
    <3>1. \/ Return(0) \/ ExitProcess(1)
          \/ Again(Runtime, "runtime") \/ Again(Runtime, "last") \/ Again(SecondRuntime, "last")
      BY <2>10 DEF LinkShared, LinkStub, LinkSystemC, LinkAgain, Linked, GiveUp
    <3> QED BY <3>1, <2>1, <2>2, <2>3
  <2>11. CASE BuildRuntime \/ BuildStub
    <3>1. ExitProcess(1) \/ (phase' \in {"last", "cc"} /\ UNCHANGED temps)
      BY <2>11 DEF BuildRuntime, BuildStub
    <3> QED BY <3>1, <2>2, <2>4
  <2>12. CASE CannotRun
    BY <2>12, <2>1 DEF CannotRun
  <2> QED BY <2>5, <2>6, <2>7, <2>8, <2>9, <2>10, <2>11, <2>12 DEF Next
<1>3. Swept => DirectoriesRemoved
  BY DEF Swept
<1> QED BY <1>1, <1>2, <1>3, PTL DEF Spec

=============================================================================
