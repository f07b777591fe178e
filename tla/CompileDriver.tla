---------------------------- MODULE CompileDriver ----------------------------
(***************************************************************************)
(* One command line of co2cc (cli.rs, compile.rs, link.rs): every input is *)
(* compiled to an object in a temporary directory, one after the other, by *)
(* a co2cc of its own, and the objects are linked, at first with as little *)
(* of the Rust runtime as may do.                                          *)
(*                                                                         *)
(* Compilers, assemblers and linkers are other programs.  They may fail at *)
(* any call.  A linker also refuses an object it is given twice, when that *)
(* defines a strong symbol, and missing parts of the Rust runtime, which   *)
(* it names; but a shared library may keep them as holes.                  *)
(***************************************************************************)
EXTENDS Naturals, Sequences, FiniteSets, SequencesExt

CONSTANTS Files,    \* inputs: [dir, stem (a sequence of letters), ext]
          Weak,     \* those whose objects define no strong symbol
          Parts,    \* of the runtime that objects of C files may refer to
          MaxInputs

(* "unwind" is _Unwind_Resume.                                             *)
Runtime == {"core", "alloc", "std", "unwind"}

ASSUME FilesAssumption ==
    Files \subseteq [dir : STRING, stem : Seq(STRING), ext : {"c", "s", "o", ""}] /\ Weak \subseteq Files
ASSUME DriverAssumption == Parts \subseteq Runtime /\ MaxInputs \in Nat

VARIABLES flags, inputs, archive, \* the command line; archive: it names a .a
          phase,
          disk,      \* the contents of the objects written so far
          objects,   \* those to link, in order
          offered,   \* the parts of the runtime the next link is made with
          temps,     \* the temporary directories there are
          output,    \* what was linked, <<>> when nothing was
          exit,      \* the status of the process
          faults     \* what went wrong in the programs that were called

vars == <<flags, inputs, archive, phase, disk, objects, offered, temps, output, exit, faults>>

Stdin == [dir |-> "", stem |-> <<"-">>, ext |-> ""]

Flags == {"-E", "-S", "-c", "-shared", "-Wl,--no-undefined"}

Init ==
    /\ flags \in SUBSET Flags
    /\ inputs \in UNION {[1..n -> Files] : n \in 1..MaxInputs}
    /\ archive \in BOOLEAN
    /\ phase = "parsed"
    /\ disk = <<>> /\ objects = <<>> /\ offered = {}
    /\ temps = {} /\ output = <<>> /\ exit = "running" /\ faults = {}

-----------------------------------------------------------------------------
(* How the process ends *)

(* Slip: process::exit is called before the directory is removed.          *)
ExitProcess_AtOnce(status) == exit' = status /\ phase' = "ended" /\ temps' = temps

(* A return or a panic, which is caught, drops the directories.            *)
Return(status) == exit' = status /\ phase' = "ended" /\ temps' = {}

(* process::exit drops nothing; link.rs removes its own directory before.  *)
ExitProcess(status) == exit' = status /\ phase' = "ended" /\ temps' = temps \ {"link"}

(* What was linked, and with which parts.                                  *)
Produce(paths) == output' = <<[code |-> [i \in DOMAIN paths |-> disk[paths[i]].of], runtime |-> offered]>>

-----------------------------------------------------------------------------
(* The command line *)

Emits == flags \intersect {"-E", "-S", "-c"} # {}
IsSource(file) == file = Stdin \/ file.ext \in {"c", "s"}

(* parse_args and main_with_args.                                          *)
CheckArgs ==
    /\ phase = "parsed"
    /\ \E missing \in SUBSET (ToSet(inputs) \ {Stdin}) :
          /\ Cardinality(missing) <= 1
          /\ faults' = missing
          /\ IF \/ missing # {}
                \/ Emits /\ Cardinality({n \in DOMAIN inputs : IsSource(inputs[n])}) # 1
             THEN Return(2)
             ELSE /\ phase' = IF Emits THEN "emit" ELSE "compile"
                  /\ temps' = {"compile"}
                  /\ UNCHANGED exit
    /\ UNCHANGED <<flags, inputs, archive, disk, objects, offered, output>>

-----------------------------------------------------------------------------
(* Compiling *)

(* resolve_stdin: the standard input becomes a file of its own.            *)
Resolved(file) == IF file = Stdin THEN [dir |-> "temp", stem |-> <<"stdin">>, ext |-> "c"] ELSE file

(* object_stem *)
ObjectPath(file) ==
    [dir |-> "temp", ext |-> "o",
     stem |-> [i \in DOMAIN file.stem |-> IF file.stem[i] = "-" THEN "_" ELSE file.stem[i]]]

(* What is asked of the assembler fails with 101.  A C file is refused     *)
(* with diagnostics or in another way: the co2cc that compiles it ends     *)
(* with 5 or something else, and so does the parent.  Objects are no text. *)
Assembled(file) == file.ext = "s" /\ flags \intersect {"-E", "-S"} = {}
Refusals(file) == IF Assembled(file) \/ file.ext = "o" THEN {101} ELSE {5, 101}

(* -E, -S and -c take the first input, whatever it is.                     *)
Emit ==
    /\ phase = "emit"
    /\ LET file == Resolved(inputs[1])
           accepted == \/ file.ext = "c" \/ Assembled(file)
                       \/ file.ext = "s" /\ "-E" \in flags
       IN  \/ /\ accepted
              /\ output' = <<[code |-> <<inputs[1]>>, runtime |-> {}]>>
              /\ Return(0)
              /\ UNCHANGED faults
           \/ /\ \E status \in Refusals(file) : Return(status)
              /\ faults' = IF accepted THEN {file} ELSE {}
              /\ UNCHANGED output
    /\ UNCHANGED <<flags, inputs, archive, disk, objects, offered>>

(* Slip: the objects are linked in the order they were compiled in, those  *)
(* given as such first.                                                    *)
Listed_ObjectsFirst(path) == IF path.dir = "temp" THEN Append(objects, path) ELSE <<path>> \o objects
Listed(path) == Append(objects, path)

(* One input of the loop in run_co2c.                                      *)
Compile ==
    /\ phase = "compile" /\ Len(objects) < Len(inputs)
    /\ LET input == inputs[Len(objects) + 1]
           file == Resolved(input)
           path == IF file.ext = "o" THEN file ELSE ObjectPath(file)
       IN  \/ /\ \E needs \in SUBSET Parts :
                    disk' = [p \in DOMAIN disk \union {path} |->
                                IF p = path THEN [of |-> input, needs |-> needs] ELSE disk[p]]
              /\ objects' = Listed(path)
              /\ UNCHANGED <<phase, temps, exit, faults>>
           \/ /\ file.ext # "o"
              /\ \E status \in Refusals(file) : Return(status)
              /\ faults' = {file}
              /\ UNCHANGED <<disk, objects>>
    /\ UNCHANGED <<flags, inputs, archive, offered, output>>

(* link_objects: which of three ways to link.                              *)
StartLink ==
    /\ phase = "compile" /\ Len(objects) = Len(inputs)
    /\ phase' = IF "-shared" \in flags THEN "shared" ELSE IF archive THEN "system" ELSE "stub"
    /\ offered' = IF phase' = "stub" THEN {"core"} ELSE {"unwind"}
    /\ temps' = IF phase' = "shared" THEN temps ELSE temps \union {"link"}
    /\ UNCHANGED <<flags, inputs, archive, disk, objects, output, exit, faults>>

-----------------------------------------------------------------------------
(* Linking *)

Needs == UNION {disk[objects[i]].needs : i \in DOMAIN objects}
Repeated ==
    \E i, j \in DOMAIN objects :
        i # j /\ objects[i] = objects[j] /\ disk[objects[i]].of \notin Weak

(* As of gcc, the undefined symbols of a shared library are found when it  *)
(* is loaded, unless the linker is told otherwise.                         *)
Holes == "-shared" \in flags /\ "-Wl,--no-undefined" \notin flags

(* What a link is refused for, and its message names.                      *)
Missing == IF Holes THEN {} ELSE Needs \ offered

Linked ==
    /\ Missing = {} /\ ~Repeated
    /\ Produce(objects)
    /\ Return(0)
    /\ UNCHANGED <<offered, faults>>

(* The linker refuses the objects, or fails for a reason of its own.       *)
Refused ==
    /\ \/ (Missing # {} \/ Repeated) /\ UNCHANGED faults
       \/ faults' = faults \union {"linker"}
    /\ UNCHANGED output

(* What a link that failed is tried with once more.                        *)
Again(runtime, next) ==
    /\ offered' = runtime
    /\ phase' = next
    /\ temps' = temps \union {"link"}
    /\ UNCHANGED exit

GiveUp == ExitProcess(1) /\ UNCHANGED offered

(* Slip: core is not taken for a part of the runtime.                      *)
NeedsRuntime_NoCore == Missing \intersect {"alloc", "std"} # {}

(* needs_rust_runtime; _Unwind_Resume is not among its words.              *)
NeedsRuntime == Missing \intersect {"core", "alloc", "std"} # {}

(* link_shared_objects: the archive of the runtime may not get built.      *)
LinkShared ==
    /\ phase = "shared"
    /\ \/ Linked
       \/ Refused /\ IF NeedsRuntime THEN Again(Runtime, "runtime") ELSE GiveUp
    /\ UNCHANGED <<flags, inputs, archive, disk, objects>>

BuildRuntime ==
    /\ phase = "runtime"
    /\ \/ phase' = "last" /\ UNCHANGED <<temps, exit, faults>>
       \/ ExitProcess(1) /\ faults' = faults \union {"runtime"}
    /\ UNCHANGED <<flags, inputs, archive, disk, objects, offered, output>>

(* Slip: std goes into every second link.                                  *)
SecondRuntime_Std == Runtime

(* What link_with_system_c links with when the first link failed.          *)
SecondRuntime == IF "std" \in Missing THEN Runtime ELSE {"core"}

(* link_with_rust_stub: without std first.                                 *)
LinkStub ==
    /\ phase = "stub"
    /\ \/ Linked
       \/ Refused /\ IF Missing \intersect {"std", "alloc", "unwind"} # {}
                     THEN Again(Runtime, "last") ELSE GiveUp
       \/ GiveUp /\ faults' = faults \union {"linker"} /\ UNCHANGED output
    /\ UNCHANGED <<flags, inputs, archive, disk, objects>>

(* link_with_system_c: the stub with the panic handler is compiled first.  *)
BuildStub ==
    /\ phase = "system"
    /\ \/ phase' = "cc" /\ UNCHANGED <<temps, exit, faults>>
       \/ ExitProcess(1) /\ faults' = faults \union {"stub"}
    /\ UNCHANGED <<flags, inputs, archive, disk, objects, offered, output>>

LinkSystemC ==
    /\ phase = "cc"
    /\ \/ Linked
       \/ Refused /\ IF NeedsRuntime THEN Again(SecondRuntime, "last") ELSE GiveUp
    /\ UNCHANGED <<flags, inputs, archive, disk, objects>>

(* The second link, of whichever way.                                      *)
LinkAgain ==
    /\ phase = "last"
    /\ \/ Linked
       \/ Refused /\ GiveUp
    /\ UNCHANGED <<flags, inputs, archive, disk, objects>>

(* A program that cannot be run at all is a panic but for the stub's link. *)
CannotRun ==
    /\ \/ phase \in {"shared", "system", "cc"}
       \/ phase = "last" /\ ("-shared" \in flags \/ archive)
    /\ Return(101)
    /\ faults' = faults \union {"linker"}
    /\ UNCHANGED <<flags, inputs, archive, disk, objects, offered, output>>

Next ==
    \/ CheckArgs \/ Emit \/ Compile \/ StartLink
    \/ LinkShared \/ BuildRuntime \/ LinkStub \/ BuildStub \/ LinkSystemC \/ LinkAgain
    \/ CannotRun

Spec == Init /\ [][Next]_vars

-----------------------------------------------------------------------------
(* Correctness *)

Ended == phase = "ended"
Links == ~Emits

(* At place i of what is linked is the code of input i, or that of a later *)
(* one without strong symbols, whose object was written over that of i.    *)
InPlace(code) ==
    /\ DOMAIN code = DOMAIN inputs
    /\ \A i \in DOMAIN inputs :
          \/ code[i] = inputs[i]
          \/ \E j \in DOMAIN inputs : j > i /\ code[i] = inputs[j] /\ inputs[j] \in Weak

(* A command that links and succeeds has linked the code of each input,    *)
(* once and in order, though objects go by names that inputs can share     *)
(* (object_stem); and, though up to two links were tried, nothing they     *)
(* need is missing, but from a shared library that may have holes.  A      *)
(* command that fails has put nothing in place.                            *)
LinkedIsAsked ==
    Ended =>
        IF exit # 0 THEN output = <<>>
        ELSE /\ output # <<>>
             /\ Links => InPlace(output[1].code)
             /\ Links /\ ~Holes => Needs \subseteq output[1].runtime

(* Commands that are known to be refused though gcc takes them; see README.*)
SharedName ==
    \E i, j \in DOMAIN inputs :
        i # j /\ (inputs[i] = inputs[j] \/ ObjectPath(Resolved(inputs[i])) = ObjectPath(Resolved(inputs[j])))
ObjectFirst == ~IsSource(inputs[1])
HalfTheRuntime ==
    /\ archive /\ "-shared" \notin flags
    /\ "std" \notin Needs /\ ~(Needs \subseteq {"core"}) /\ Needs # {"unwind"}

(* Assembler is not compiled to assembler, and -c takes one source.        *)
Sensible ==
    IF Emits
    THEN /\ Cardinality({n \in DOMAIN inputs : IsSource(inputs[n])}) = 1
         /\ "-S" \in flags \ {"-E"} => \A n \in DOMAIN inputs : inputs[n].ext # "s"
         /\ ~ObjectFirst
    ELSE ~SharedName /\ ~HalfTheRuntime

(* What can be linked is: when no program that was called had a reason of  *)
(* its own to fail, one of the links that are tried finds all of the       *)
(* runtime the objects refer to (link_with_rust_stub, link_with_system_c,  *)
(* link_shared_objects).                                                   *)
LinksWhatItCan == Ended /\ faults = {} /\ Sensible => exit = 0

(* std is linked into an executable only when core alone would not do ("to *)
(* not link rust std when std is not actually used", link.rs:69, though    *)
(* alloc or _Unwind_Resume bring it in as well: link_with_rust_stub has no *)
(* smaller runtime that offers them).                                      *)
StdOnlyIfNeeded ==
    Ended /\ output # <<>> /\ "-shared" \notin flags /\ "std" \in output[1].runtime
        => ~(Needs \subseteq {"core"})

(* No temporary directory is left behind, except that of the objects when  *)
(* the link failed: process::exit does not drop it.                        *)
DirectoriesRemoved == Ended => temps \subseteq (IF exit = 1 THEN {"compile"} ELSE {})

=============================================================================
