# Models and proofs for CO2

CO2 is a C compiler and C/Rust hybrid language built on rustc's back end: C is
preprocessed and parsed, lowered to a typed tree (HIR), lowered again to rustc's
MIR, and handed to rustc for code generation. This directory keeps TLA+ models
of the parts of it whose correctness is a matter of *state and order*, the TLC
configurations that check them on small instances, and theorems about them that
the TLA+ proof system checks for every value of the constants.

Paths below are relative to `src/` unless they end in `.tla` or `.cfg`.

Contents: [inventory](#1-inventory-of-the-system) ·
[modules](#2-the-modules-and-the-code-they-model) ·
[runs](#3-what-the-runs-check) · [where the code differs](#4-where-the-code-differs-from-c-or-from-its-comments) ·
[fairness, deadlock, bounds](#5-fairness-deadlock-and-bounds) ·
[proofs](#6-what-is-proved-and-how) · [left out](#7-what-is-not-modelled) ·
[plan](#8-plan) · [how to run](#9-running-it)

## 1. Inventory of the system

One compilation is a sequential pipeline inside one process. The components
hand complete values to each other; the state that makes them hard is inside
them: worklists, stacks, tables filled in one order and read in another.

```
 co2cc / co2rustc / co2cargo      command line, processes, temporary files
        |
 co2_preprocessor -> co2_parser -> co2_crate_sig -> co2_hir      C text to HIR
                                                       |
                              rustc asks for a body    v
 rustc <- rustc_public_generative <- co2_driver_lib <- co2_mir   HIR to MIR
                                          |
                                     co2_borrowck (facts -> move checker)
```

### Preprocessor — `co2_preprocessor`

* **State.** The stack of conditionals (`conditionals.rs`), the files being read,
  the text that waits for a macro call to close (`pipeline.rs`), files seen with
  `#pragma once`, detected include guards (`includes.rs`), the macro table and the
  saves of `push_macro` (`pragmas.rs`), the set of macros being expanded
  (`macro_defs.rs`).
* **Operations.** `preprocess_source` reads a file line by line: text is expanded
  as soon as it is complete, a directive changes the tables or reads another file.
* **Hard.** Skipping a header because of a guard found by scanning its text;
  nested inclusion cut at a depth, silently; directives while a call is open;
  `#elif` and `#else` in parts that are themselves skipped; macros that name
  themselves, ends of expansions that go on as calls, operands of `##`.
* **Correct when** skipping a file gives the result of processing it, one group of
  each chain is kept, conditions hold when they do in C, and a line becomes what
  C11 6.10.3 says.

### HIR lowering — `co2_hir` (with the statement grammar of `co2_parser`)

* **State.** For statements: stacks of break labels, continue labels and switch
  scopes, and a table of named labels (`resolver.rs`). For initialisers: a cursor
  into the type and a tree of values (`initializer_tree.rs`). For expressions and
  types: rustc's type interner, tables of declarations.
* **Operations.** Loops, `switch`, `break`, `continue`, `case` become labels, gotos
  and ifs (`stmt.rs`); an initialiser is matched item by item to the members it
  initialises; expressions are typed with C's conversions (`expr.rs`).
* **Hard.** The three stacks must stay in step in `continue` inside `switch`
  inside a loop and in case labels inside nested statements; braces are taken off
  or left out by four rules tried in an order; a designator sends the cursor
  anywhere and the list goes on from there.
* **Correct when** the lowered program does what the structured one does, and the
  object built is the one C11 6.7.9 describes.

### MIR builder — `co2_mir/src/basic_block.rs`, `build.rs` (and the parts of `operand.rs` that move control)

* **State.** Finished blocks, the statements of the block under construction, the
  stack of lexical scopes with their locals and variable length arrays, the table
  of bound labels, gotos and computed gotos waiting for a target.
* **Operations.** One per HIR statement (`lower_stmt`), `lower_condition`,
  `bind_label`, `enter_scope` / `exit_scope`, `push_terminator`; at the end of the
  body `patch_pending_gotos`, `scope_transition` and
  `patch_indirect_goto_targets`.
* **Hard.** Blocks are numbered before they exist. Terminators are pushed with
  target `usize::MAX` and patched by remembered index. A goto and its label are
  compared long afterwards by two copies of the scope stack, taken at different
  times while scopes keep growing. Transition blocks are appended while other jumps
  still wait. A GNU statement expression puts statements inside an expression.
* **Correct when** no finished terminator goes nowhere or to the entry block, each
  unpatched one is owed exactly one patch of its own kind, storage starts and ends
  exactly once on every path, nothing is used outside its storage, and jumps are
  refused exactly when C forbids them.

### Facts and points-to — `co2_borrowck/src/facts.rs`

* **State.** For every block entry, the set of locals each pointer local may
  point to; a worklist seeded with every block; the event lists being filled.
* **Operations.** `compute_points_to` steps the state through the assignments of
  a block and merges it into the successors; `generate_facts` walks every block
  once more and `emit_statement` / `emit_terminator` record what each point
  reads, borrows, moves, writes through a pointer and assigns.
* **Interaction.** Its output is the whole input of the move checker. A write it
  misses makes the checker report sound C (`int *p = &x; *p = 1; use(x)`); a
  write it invents hides an uninitialised read.
* **Hard.** Pointers flow round loops; blocks whose predecessors contribute
  nothing still have assignments of their own; a call's arguments let their
  pointees be written; places whose dereference is not the first projection.
* **Correct when** it terminates with exactly what the paths give, and every
  store an execution makes through a pointer it can follow is recorded where it
  happens.

### Move checker — `co2_borrowck/src/check.rs`

* **State.** A worklist of blocks (a stack), and for every block three bit sets
  over the locals: possibly uninitialised, possibly moved, owned. The errors
  found so far, one `last_assign` table for the whole function.
* **Operations.** `analyze` pops a block, walks its points (recording errors on
  the state *before* each point, then applying moves, writes through pointers and
  assignments in that order), joins the result into every successor and pushes
  those that changed. Then it replays every return block and `check_leaks` reports
  what is still owned.
* **Hard.** Errors are recorded before the data flow has converged; the wording
  of an error depends on what had arrived when a block was visited; one point can
  move, write and assign the same local (`v = f(v)`); the leak pass reuses tables
  the first pass filled in worklist order; blocks nothing reaches.
* **Correct when** it terminates and its diagnostics are those of *some
  path from the entry goes wrong here*, no more and no fewer, each worded by
  what can really have happened and blamed on a place that assigns.

### C compiler driver — `co2cc`

* **State.** Temporary directories, the object files in them, the list of objects
  to link, the output.
* **Operations.** `main_with_args` checks the command line, `run_co2c` compiles each
  input with a co2cc or an assembler of its own, `link_objects` links in one of three
  ways, each of which may try twice.
* **Hard.** Any program that is called may fail; inputs may share an object's
  name; a link is retried with more of the Rust runtime only for certain error texts;
  `process::exit` runs no destructors.
* **Correct when** a success has linked the code of each input, in order, with all
  they need (a shared library may have holes instead); a failure of any step fails the command and leaves no output; what can be
  linked is; std is linked only when it is needed.

### The rest

The **driver library** (`co2_driver_lib`) installs one pending compilation, runs rustc and answers its
requests; **rustc_public_generative** overrides rustc's queries; **co2_crate_sig**
resolves names and declares the crate's items; the **parser and AST** (`co2_parser`,
`co2_ast`) are, apart from the statements, a grammar and its tree; **co2cargo, co2rustc, co2rustdoc, co2miri and co2-multicall**
rewrite arguments and spawn processes; **co2fmt** lays out text; **co2_test_harness**
runs the cases under `tests/`. None of these keeps state through a protocol of
its own; section 7 says what each would need.

The hazards these components are exposed to, one by one and at their line, with
the property that watches each, are the `hazards` list of `PROJECT.json`.

## 2. The modules and the code they model

Operators named `<Definition>_<Slip>`, or marked as a slip or mutant in their
comment, are plausible bugs of the definition that follows them; no specification
uses them.

### The move checker

| Module | What it is |
|---|---|
| `MoveFacts.tla` | The checker's input: a body as blocks of events (`struct Events`), and the meaning of one event on one local during an execution: `After`, `IsMoveError`. |
| `MoveCheck.tla` | The abstract specification: no worklist, no bit sets; the verdict is defined by the paths of the body and reached in one step. |
| `MoveDataflow.tla` | `analyze`, point by point. |
| `MoveRun.tla` | `MoveDataflow`, then one execution of the analysed body: what the execution does must already have been reported. |
| `MoveDataflowProofs.tla` | Theorems about all three: nothing an execution does goes unreported; the converse, and so the refinement of `MoveCheck`. |
| `Inductions.tla` | Lemmas: induction over sets of numbers. |
| `MCMoves.tla` | Small bodies. |

The variables of `MoveDataflow` are those of `analyze`: `worklist`, `entry` (the
`BlockState` of each block), `flags` (the clone being stepped), `lastAssign`,
`errors`, `leaks`; `phase`, `blk` and `at` are the program counter. Its actions
follow the loops of the function: `Pop` (129–132), `Point` (132–189, one
statement or terminator: check, apply, blame), `Edge` (190–211, one successor),
`NextBlock`, `Converge`, then `ScanBlock`, `Replay` and `Finish` for the leak pass
(224–258). The order in which `analyze` applies the sets of one point is inside
`Apply`: moves first, then writes, which also clear *moved*, then
assignments. A body is a parameter; `WellFormed` says what MIR guarantees of it,
and `ReturnNotWritten` that nothing takes the address of the return place, which
co2_mir only ever assigns.

### Facts and points-to

| Module | What it is |
|---|---|
| `PointsTo.tla` | `compute_points_to` and the emitting walk of `generate_facts`. |
| `PointsPaths.tla` | The targets the assignments along each path give, computed with no worklist: a recursive function that goes on along the edges from a set of blocks and targets until it finds no more. |
| `PointsRun.tla` | An execution after the facts were emitted, which follows its pointers. |
| `PointerMoves.tla` | The whole of `check` on one body: `PointsTo`, then `MoveDataflow` on the events it emitted (`M == INSTANCE MoveDataflow WITH body <- CheckedBody`), then an execution. |
| `PointsToProofs.tla` | Theorems about all four. |
| `MCPointers.tla` | Small MIR bodies: `int x, y; int *p, *q; int **pp;` and a temporary for call results. |

A MIR place is a local and the *shape* of its projections, told apart as far as
`as_local`, `deref_pointer` and `is_direct_place` do: plain, field, deref first,
deref twice, deref behind a field. An rvalue is what the match of
`apply_assign_points_to` and `emit_rvalue_uses` distinguish: a use or cast, an
address, an aggregate, a computation. Actions: `PopBlock`, `Walk` (a statement),
`LeaveBlock`, `MergeEdge` (a successor), `EndBlock`; then `StartEmitting`,
`EmitStatement`, `EmitTerminator`. `Value` and `Assigned` are the *meaning* of an
assignment, written independently of the analysis and used only by the properties
and the execution.

Two assumptions on bodies, both properties of what co2_mir generates:
`ResultsAreTemporaries` (a call's result goes to a fresh temporary or a
non-pointer, so the flow pass, which leaves the destination's targets alone, keeps
nothing stale) and `ReturnNotBorrowed`.

### The MIR builder

| Module | What it is |
|---|---|
| `ScopeLowering.tla` | The builder on one body, statement by statement, then the patching of its jumps. |
| `ScopeRun.tla` | The same, then an execution of the MIR that came out, with two observers that remember by *name* which arrays are in scope at each jump and label. |
| `ScopeRunProofs.tla` | Theorems about the builder (jump targets, pending patches, snapshots of scopes), then about the execution: storage, variable length arrays, and what is refused. |
| `MCScopeLowering.tla`, `MCScopeRun.tla` | Names for TLC. |

`code`/`term` are `blocks`, `stmts` is `stmts`, `scopes`, `targets`, `gotos` and
`indirect` are `scopes`, `label_targets`, `pending_gotos` and
`pending_indirect_gotos`. The body is not given in advance: the environment
chooses the next statement each time (`Choose`), within `MaxSize`, and `frames` is
the recursion of `lower_stmt` and `lower_condition` over it, so one run lowers
every body of that size. One action per statement kind (`EnterBlock`/`ExitBlock`,
`Decl`, `Use`, `EnterExpr`/`ExitExpr`, `BindLabel`, `Goto`, `IndirectGoto`,
`Return`, `Call`, `EnterThen`/`EnterElse`/`ExitIf`), `Finish` for
`terminate_fallthrough`, then `PatchGoto`, `PatchIndirectLabel`, `PatchIndirect`
and `Complete`. `Fail` stands for `terminate_with_error` and the dummy body
`build_mir_for_body` returns then. `label_discriminants` is a hash map, so the
labels of a computed goto are patched in any order.

### Statements

| Module | What it is |
|---|---|
| `StmtLowering.tla` | `parse_statement`, `parse_body_statement` and `HirCtx::lower_stmt`: the environment picks a program token by token, the lowering turns it into labels, gotos and ifs. |
| `StmtRun.tla` | The same, then the structured program (`SourceEvent`, `Flow`, written from C11 6.8) and the lowered one executed side by side. |
| `StmtLoweringProofs.tla` | Theorems about the stacks. |
| `MCStmtRun.tla` | One named label, two sets of case values, all statement kinds. |

`continue_labels`, `break_labels`, `switch_scopes`, `labels` and `named_labels` are the
fields of `HirCtx`; `frames` and `outs` are the calls of `lower_stmt` in progress and
the vectors they fill. A statement with a body has two actions, the half before the
recursive call and the half after it (`OpenFor`, `ForTail`, `CloseFor`).
`LabelItem` and `CloseLabels` model that the parser treats a label as an item of its own
and that `parse_body_statement` keeps labels and their statement together.

### Initialisers

| Module | What it is |
|---|---|
| `Initializers.tla` | `try_lower_to_initializer_tree` with its cursor (`go_through`, `go_next`, `from_designators`, `insert_to_tree`), one step per rule and item; `calls` is the recursion. |
| `CInitializers.tla` | C11 6.7.9, by paths in the type and with no cursor; and the one against the other. |
| `InitializersProofs.tla` | Theorems about the cursor and the trees. |
| `MCInitializers.tla` | Thirteen types: structs in structs, unions, arrays of arrays, of structs, of strings and of pointers. |

A value is what `coerce_expr_to_type` tells apart: a number, a string, a value of a
struct type. The result, a tree, is a function from the paths of its leaves to the
address, in the initialiser, of what was put there, and the type it was converted to.
`astray` is history: whether the value of a range has left its elements for a part of one.

### Preprocessor: lines and files

| Module | What it is |
|---|---|
| `Conditionals.tla` | `ConditionalStack`, as operators on the stack. |
| `Preprocess.tla` | `preprocess_source` over the main file and the files it includes. |
| `CPreprocess.tla` | The meaning of a file, C11 6.10, recursive and with nothing skipped or pending; and `Preprocess` against it. |
| `PreprocessProofs.tla` | Theorems about the three flags of a chain and the depth of inclusion. |
| `MCPreprocess.tla` | About a thousand headers and the lines of main files. |

The main file is written by the environment while it is read. A frame holds what
`preprocess_source` keeps per file (its pending text, its conditionals, put aside
while another file is read) and, as history only, the conditions of each open
chain's groups. Actions: `Start` (`-include`), `Text`, `Chain`, `Define`,
`Include`, `Pragma`, `EndOfFile`, `EndOfMain`. Macro replacement is reduced to what
decides when text may be emitted: object-like macros, one function-like macro,
and whether the text ends in its name or leaves a parenthesis open.

### Preprocessor: one line

| Module | What it is |
|---|---|
| `MacroExpansion.tla` | `expand_line`: `expand_text`, `expand_macro_invocation`, arguments, `#`, `##`, rescanning, the paint on names and the two ways a result goes on as a call. |
| `IfExpression.tla` | `ExprParser` on values of `Width` bits; `defined` and the remaining names. |
| `CMacros.tla` | C11 6.10.3: one sequence of tokens, each with the set of macros it must not be taken for. |
| `Lines.tla` | Lines of text and of `#if`, written by the environment and read by the code. |
| `CLines.tla` | What a condition means in C, from its weakest operator and over the integers; and the lines against their meaning. |
| `MCLines.tla` | Macro tables and tokens. |

The code works on text, the model on tokens; a token is a sequence of letters, so that
`##` is concatenation. So that the two sides do not agree by construction,
`CMacros` takes from `MacroExpansion` only how a call is divided into arguments
and which letters can be joined, `CLines` takes from `IfExpression` the value of a
constant, division towards zero and the treatment of `defined`.

### The C compiler driver

| Module | What it is |
|---|---|
| `CompileDriver.tla` | One command line of co2cc, to the end of the process. |
| `CompileDriverProofs.tla` | Theorems about what is linked, with what, and what is left behind. |
| `MCCompileDriver.tla` | Five inputs, of which two share an object and one has no strong symbols. |

`disk` and `temps` are the objects and directories there are, `objects` the vector
handed to `link_objects`, `offered` the parts of the runtime the next link is made with.
Actions: `CheckArgs`, `Emit` (`-E`, `-S`, `-c`), `Compile` (one input), `StartLink`, one
action per program that is called (`LinkShared`, `BuildRuntime`, `LinkStub`, `BuildStub`,
`LinkSystemC`, `LinkAgain`) and `CannotRun` for those that cannot be started. The other
programs are the environment: they may fail at any call (`faults`). A linker refuses
objects whose needs are not met and names what is missing (`Missing`), but not for a shared library,
which keeps them as holes unless `-Wl,--no-undefined` is given
(`Holes`; `tests/cli/link_error/main.nu:37` asserts it). It also refuses an object given
twice, because its symbols are then defined twice, unless the object defines no strong symbol (`Weak`).

## 3. What the runs check

Twelve runs; each property of a passing run has a mutant, a plausible slip in the code, under
which TLC finds it violated. States are distinct states; times are with two workers.

| Run | Module, configuration | States | What it shows |
|---|---|---|---|
| `moves` | `MCMoves`, `Moves.cfg` | 651,000 (83 s) | Every way to place seven kinds of event of one local in six live graphs, and events of two locals that move into each other in three: the worklist empties, the diagnostics are exactly those of `MoveCheck`, well worded and well blamed; then any execution: what it does was reported. |
| `pointers` | `MCPointers`, `Pointers.cfg` | 1,340,000 (97 s) | Seven pointer statements and calls over a diamond, a loop and dead code, then owned values behind pointers: targets exact at every block, every store of an execution recorded, the analysis ends, and the move checker on its events reports leaks and bad uses. |
| `scope_lowering` | `MCScopeLowering`, `ScopeLowering.cfg` | 3,330,000 (37 s) | Every body of up to four statements of nine kinds, two labels, constant and run-time conditions. |
| `scope_run` | `MCScopeRun`, `ScopeRun.cfg` | 1,470,000 (13 s) | Every body of up to four statements with a local and a variable length array, then its execution. |
| `stmt_run` | `MCStmtRun`, `StmtRun.cfg` | 1,840,000 (60 s) | Programs of up to five statements of all kinds, lowered, and executed beside the structured program. |
| `initializers` | `MCInitializers`, `Initializers.cfg` | 1,390,000 (40 s) | Declarations of seven types with up to two arbitrary items and a plain one after them. |
| `preprocess` | `MCPreprocess`, `Preprocess.cfg` | 4,180,000 (61 s) | Main files of three lines with a header of up to two pieces, guarded in several ways or not. |
| `lines` | `MCLines`, `Lines.cfg` | 1,380,000 (2 min) | Lines of up to six tokens over 42 macro tables, and conditions of up to six tokens. |
| `compile_driver` | `MCCompileDriver`, `CompileDriver.cfg` | 366,000 (5 s) | Command lines of up to two of five inputs, all modes, any needs, any failures. |
| `leak_in_dead_code` | `MCMoves`, `LeakOnSomePath.cfg` | violated | Finding 1 below. |
| `vla_accepted` | `MCScopeRun`, `VlaAccepted.cfg` | violated | Finding 2. |
| `lone_string` | `MCInitializers`, `LoneString.cfg` | violated | Finding 3. |

### Properties, and why they could fail

*Move checker.* `ImplementsMoveCheck` is refinement: the analysis, mapped to a verdict
once `phase = "done"`, implements `MoveCheck`; a missed or a spurious diagnostic
breaks it. `KindsJustified` says the wording is right although it was fixed during
an early visit. `MovedIsUninit` is the invariant the access check silently relies on
(it looks at *uninit* first). `BlameAssigns` covers the table shared by the two passes.
`EntryGrows` is an action property: what one path contributed is never lost.
`Termination` is liveness. `BlockEntryCovered`, `UsesReported` and
`LeaksReported` are the same promise seen from an execution.

*Points-to.* `FactsTypeOK` discharges what the move checker assumes of its input: only
pointers have targets, never the return place. `PathsExact`: the converged targets are
exactly those of the paths from some block, neither the loss a missed revisit would cause
nor the gain of a bad merge. `StoresRecorded`: whatever an execution writes through a
pointer it followed, or lets a callee write, is in the event of that very point.
`UnaliasedUsesReported` and `OwnedLeaksReported` hold for the composition: whatever the
pointers do, bad uses of locals nothing points to and leaks are reported.

*Builder.* `JumpsLand`, `EveryPatchOwed`, `SnapshotsAgree` speak of the blocks;
`StorageAlternates`, `UsedWhileLive`, `VlaDeclaredFirst` and `RejectsOnlyEntering` of
the program that runs. `SnapshotsAgree` is what lets `scope_transition` compare
scope ids only.

*Statements.* `SameBehaviour`: after the same outcomes of conditions both programs are
at the same expression, test or return. `EveryGotoLands`: each goto of the lowered code has one label.
`JumpsAreInnermost` and `NothingOutlivesItsStatement` say why: the tops of the three
stacks are those of the statements around, and outside of loops and switches they are empty, so that a
stray `break` is diagnosed.

*Initialisers.* `SameObject`: what is built is what C11 says, for every declaration C
accepts but those named below. `CursorsTyped`: the type carried beside each index is that
of the part it stands at, when the cursor has moved on too. `ValuesFit`: a tree has values only for parts its type has, none past
the end of an array (`insert_to_tree` drops those, growing an array "would produce broken MIR"), and each was
converted to the type of the part it is at. A value is converted where the cursor stands, or by a nested call for
what the caller's cursor stood at then; it is put there later, in as many elements as a range has, and its tree may be
put into others in turn. Values of a range that were meant for a part of the elements do go astray
(`RangeOfParts` below): `astray` excuses them.

*Preprocessor.* `FirstGroupKept`: three booleans per chain suffice. `SkipsOnlyNothing`: a
file skipped for its guard would have contributed nothing if it were read. `SameOutput`:
macros and output at the end are those of the meaning, in which a forced file is read before the main one. Of the forced file's own
text nothing is said (section 4). `TypeOK` bounds the stack of files
by the depth limit. `SameText` and `SameCondition` compare one line with C; where C11 leaves open
whether a call is nested in the replacement its name came from, either reading will do.

*co2cc.* `LinkedIsAsked`: a success has linked the code of each input once and in order,
although objects have names that inputs can share; with all of the runtime they need, if it is not a shared library that may
have holes; a failure leaves nothing. The one loss it allows is the code of an input whose object was written over by a later one without
strong symbols, which no linker notices. `LinksWhatItCan`: if no
program fails for a reason of its own, one of the links that are tried succeeds.
`StdOnlyIfNeeded`: the purpose of the ladder ("to not link rust std when std is not
actually used", `co2cc/src/link.rs:69`), as far as the code goes: std is in an executable only if core alone
would not do. That is less than the comment: needs of `alloc` or `_Unwind_Resume` alone bring std in, as
`link_with_rust_stub` has nothing smaller that offers them. `DirectoriesRemoved`: of the temporary *directories* that of the
objects stays behind after a failed link, and no other. (The file `co2cc-no-main-<pid>.rs`, `co2cc/src/rustc.rs:147`, also stays in the system's
temporary directory, where nothing removes it; it is not modelled.)

## 4. Where the code differs from C or from its comments

Three runs each exhibit, as a counterexample, a statement of the repository that
the code does not keep. None is a crash.

1. **leak_in_dead_code** (`LeakOnSomePath`). The comment on the leak pass says a local leaks if it is
   still owned "on *some* path reaching a return". The pass takes *every* block
   that ends in a return, also those no path reaches: an assignment in code after an
   infinite loop is reported as a leak.
2. **vla_accepted** (`VlaDeclaredFirst`). A variable length array declared in a GNU statement expression is recorded in
   the *enclosing* scope, so a jump past its declaration to a label inside the
   expression is accepted and the array is used before it is allocated.
   `scope_run` shows that without statement expressions this does not arise.
3. **lone_string** (`LoneStringAsC`). `char *pp[2] = {"ab"}` becomes the two characters in place of a
   pointer to the string: the rule for `char arr[] = {"string"}` is applied to arrays of anything.

### Further differences

Met while modelling, and not the subject of a run; where a property has to exclude them,
its definition names the exclusion.

*Move checker and points-to.*

* A store through `p = c ? &x : &y` counts as an initialisation of both `x` and `y`, though
  `co2_borrowck/src/check.rs:80` promises reads of *possibly* uninitialised locals are
  reported; a trade against false alarms.
* For `q = &s.m->f` the dereference is not the first projection (`facts.rs:238`), so `s` itself becomes
  a target of `q`, which no execution makes true.
* The doc of `analyze` says leaks are locals "definitely" owned (`check.rs:78`–82); the bits are joined by
  union, which is what the comments further down say.

*Builder.* The record that lets finding 2 happen outlives the statement expression, too: a jump
that enters the scope of no array can be refused (`basic_block.rs:233`).

*Initialisers* (`CInitializers` names each; `SameObject` excludes them).

* `DesignatedInTwoBraces`: for a struct `{ { .x = 1 } }`, for an array `{ { [1] = 1 } }` loses its outer braces, although the designator
  is meant for the first member. For an array whose inner list designates fields the code keeps them
  (`initializer_tree.rs:439`–446), and `SameObject` holds it to that.
* `ValueForUnion`: the list of a union whose first member is a struct starts inside that member, also when its first item is a value for the whole.
* `RangeOfParts`: the value of `[0 ... 1] = 1` goes to the elements, not to their first scalars.
* `PartOfValue`: overriding a part of a struct given as a whole panics.
* `TwoMembers`: of two members of a union the first that was given anything is built, not the last.
* `LoneString`: finding 3.

*Preprocessor, files* (`SameOutput` excludes `held`; `odd` and `deep` are left open by C).

* In an included file, a directive inside the parentheses of a call is taken for
  text (`pipeline.rs`, around 313): with the header lines `#define m 1`, `g(m`, `#undef m`, `m)` the second `m`
  is replaced as the first.
* Of the file of `-include`, the doc of `preprocess_force_include` says that "the preprocessed output is discarded"
  (`pipeline.rs:731`); the code adds its text to the output (758), ahead of the main file's, as gcc does. The model is
  of the code; `SameOutput` leaves that text out and only asks that the output *ends* as the main file means.

*Preprocessor, one line* (`SameText`, `SameCondition`).

* Lost paint: with `#define x 1 x`, `#define f(a) a##1`, `#define g(a) f(a)` the line `g(x 1)` gives
  `1 1 x 11`, in C `1 x 11`: an operand of `##` loses the paint of all its names
  (`macro_defs.rs:958`, 1213; the comment at 71–74 says painted names stay so). No macro table of `MCLines` has one.
* With `#define x f`, `#define f(a) g`, `#define g(a) a` the line `x(1)(2)` gives `g(2)`, in C `2`: the result of
  a call made through an object-like macro does not go on as a call. `Comparable` excludes such lines.
* Other shapes outside the tables: an object-like macro that ends in the name of a function-like
  one before a macro that vanishes; `1 a##b##x` with empty `a` and `b`, which gives `1x`; the left operand of a second `##` in a chain that
  is spelled like a parameter and is looked up again; `, __VA_ARGS__ ## x`, which drops the comma when there are no variable arguments.
* The branches of `?:` are not converted to a common type: `(1 ? -1 : 0u) > 0` is false. `Mixed` excludes conditions with both.
* Results of calls made through an object-like macro, or continued by the text behind, are appended without the guard that keeps
  tokens apart (`append_with_paste_guard`); the model has tokens and does not see it.

*co2cc* (`LinksWhatItCan` excludes `SharedName`, `ObjectFirst`, `HalfTheRuntime`).

* Inputs that share an object's name, `a/x-y.c b/x_y.c` or `start.c start.s`, overwrite each other's object, which is linked twice and
  refused, though `README.md:159` calls co2cc a "drop-in replacement for gcc"; if the later input defines no strong
  symbol, the link succeeds without the code of the earlier one.
* A shared library whose objects need the Rust runtime is linked without it, as holes pass at the first try; only with `-Wl,--no-undefined`
  is the runtime added (`tests/cli/co2cc/shared_lib_alloc_runtime/main.nu:19` gives it).
* `-c x.o a.c` compiles its first input, `x.o`, as C.
* Beside an archive, objects that need `alloc` or `_Unwind_Resume` but not `std` are linked a second time without them, or not at all;
  `link_with_rust_stub` retries with std for the same messages.
* A failed link ends with `process::exit` and leaves the directory of the objects in place.
* When compiling and linking at once, `-MF` is overwritten by each input, and without it the
  dependency file is written beside the temporary object and removed with it.

## 5. Fairness, deadlock and bounds

**Fairness.** `MoveDataflow!Spec` has `WF_vars(Next)`, `RunSpec` the same of its analysis only
(`WF_vars(Analyze)`), `FactsSpec` and `MovesSpec` weak fairness of the points-to steps
(`WF_ptVars`): each is one sequential function in one thread, which keeps executing until it
returns. No stronger assumption is used. Executions are given no fairness (nothing says a C
program ends), nor are the specifications that only safety is checked of: those of the
builder, statements, initialisers, preprocessor, lines and co2cc.

**Deadlock.** `StmtRun`, `Initializers` and `Preprocess` have a step for "finished", and TLC checks that
nothing else stops: neither an unlowered program nor an unread file is ever stuck. In the other
runs checking is off because every behaviour ends: analyses return, a body is done or
refused, an execution returns or takes a call that does not come back, a line is read, a
process exits. That the analyses do not stop *early* is what `Termination` and `FactsTermination` check.

**Bounds.** The instances are small, and were chosen so that the interesting
cases happen:

* `MCMoves`: graphs of four blocks: a diamond, the diamond with its
  edges swapped (the worklist is a stack, so the order matters), a loop with an exit, a loop
  whose body may return, a self-loop, two returns, and two with dead blocks. A
  second visit of a block, a join of different states and a change that travels
  round a loop need no more. Locals do not influence each other in the three bit sets
  except where one event names two, which the bodies with two variables do.
* `MCPointers`: two pointees, two pointers, a pointer to a pointer and a
  temporary: enough for a chain `pp -> p -> x`, pointers set differently on two
  branches, and loads and stores through each.
* Builder: all bodies of up to four statements (`MaxSize`);
  blocks nest, labels are bound before or after the gotos that use them. Five statements are needed for
  finding 2. `fresh` makes each local be declared once, as HIR's resolved locals are.
* `MCStmtRun`: five statements (`MCMaxStmts`) nest three deep, so `continue` in a `switch` in a loop, `case` in a loop in a `switch` and
  labels before `else` occur; case sets `{1}` and `{1, 2}` and discriminants 1 to 3 tell a case, a range and the default apart.
* `MCInitializers`: two items with any designators of one or two levels, each a number, a string, a struct or one of seven nested lists (`MaxFirst`), and
  a plain one (`MaxItems` = 3), whose place shows where the cursor stood.
* `MCPreprocess`: `MaxDepth` is 2, so that both a file that stops by itself and one that is cut occur; three lines (`MaxMain`) include a header, change the guard and include
  it again.
* `MCLines`: tables in which macros stand for each other (`Recursive`), `#`, `##` and commas from macros (`Pasting`), variable arguments (`Variadics`) and deferred calls
  (`Deferring`); six tokens (`MaxText`) allow a nested call or two in a row. `Width` is 4: numbers wrap, `1`, `2u` and a macro with unparenthesised operators differ in every conversion; six tokens (`MaxIf`) hold three operands.
* `MCCompileDriver`: two inputs (`MaxInputs`) can share an object, with strong symbols or without (`MCWeak`), or be out of order; all sixteen subsets of the runtime as needs of each; the five
  options that choose what is emitted and whether holes are allowed (`Flags`).

The invariants proved in section 6 hold without any of these bounds.

## 6. What is proved, and how

`tlapm` checks every theorem and lemma to the last leaf.

| Theorem | Statement |
|---|---|
| `TypeCorrect` | `Spec => []TypeOK` for `MoveDataflow` |
| `RunTyped` | `RunSpec => []RunTypeOK`: so too the execution that follows |
| `MovedAreUninit` | `RunSpec => []MovedIsUninit` |
| `BlamesAssign` | `RunSpec => []BlameAssigns`: leaks are blamed on points that assign the local, whatever order the passes took |
| `EntrySound` | `RunSpec => []BlockEntryCovered`: the converged state at a block covers every execution that gets there |
| `UsesSound` | `RunSpec => []UsesReported`: no use of an uninitialised or moved local goes unreported, and a moved one is called moved |
| `LeaksSound` | `RunSpec => []LeaksReported`: no value owned at a return goes unreported |
| `EntriesGrow` | `RunSpec => EntryGrows`: in-states never lose a bit (an action property) |
| `ErrorsAreOfPaths` | `RunSpec => []ErrorsOfPaths`: when the data flow ends, its errors are those of the definition by paths, no more and no less |
| `KindsOfPaths` | `RunSpec => []KindsJustified`: a use is called *moved* exactly when some path has moved the local |
| `LeaksAreOfPaths` | `RunSpec => []LeaksOfPaths`: so too the leaks, if control can get to every return |
| `DataflowImplements` | `RunSpec => ImplementsMoveCheck`, the refinement, for bodies whose returns are all reached |
| `FactsTyped` | `MovesSpec => []FactsTypeOK` for `PointerMoves` |
| `StoresAreRecorded` | `MovesSpec => []StoresRecorded`: what an execution stores to through a pointer is in the facts |
| `PathsAlwaysCovered` | `MovesSpec => []PathsCovered`: the converged targets of a block hold what every path brings to it |
| `PathsAlwaysExact` | `MovesSpec => []PathsExact`: and nothing else, if no address is taken past a second pointer |
| `UnaliasedUsesAreReported` | `MovesSpec => []UnaliasedUsesReported` |
| `OwnedLeaksAreReported` | `MovesSpec => []OwnedLeaksReported` |
| `JumpsAlwaysLand` | `Spec => []JumpsLand` for `ScopeLowering`: the finished MIR jumps only to its own blocks and never to the entry block |
| `SnapshotsAlwaysAgree` | `Spec => []SnapshotsAgree`: snapshots of the scope stack that share a scope share all around it |
| `PatchesAlwaysOwed` | `Spec => []EveryPatchOwed`: a block waits for a patch exactly when one goto, computed goto or `if` will patch it |
| `StorageAlwaysAlternates` | `RunSpec => []StorageAlternates` for `ScopeRun`: an execution never makes live storage live again, nor dead storage dead |
| `AlwaysUsedWhileLive` | `RunSpec => []UsedWhileLive`: a block's locals have storage wherever they are declared or used |
| `VlasAlwaysDeclaredFirst` | `RunSpec => []VlaDeclaredFirst`, if bodies have no GNU statement expressions |
| `AlwaysRejectsOnlyEntering` | `RunSpec => []RejectsOnlyEntering`, under the same hypothesis |
| `CursorsAlwaysTyped` | `Spec => []CursorsTyped` for `Initializers`, for any types and initialisers |
| `ValuesAlwaysFit` | `Spec => []ValuesFit`: values are for parts of the type, and of their types, through nested calls and ranges |
| `LoweringTyped` | `LowerSpec => []TypeOK` for `StmtLowering` |
| `JumpsInnermost` | `LowerSpec => []JumpsAreInnermost` |
| `NothingLeftBehind` | `LowerSpec => []NothingOutlivesItsStatement` |
| `KeepsFirstGroup` | `Spec => []FirstGroupKept` for `Preprocess` |
| `DepthIsBounded` | `Spec => []TypeOK` for `Preprocess`, with the bound on the depth of inclusion |
| `LinksTheInputs` | `Spec => []LinkedIsAsked` for `CompileDriver`, with the holes of shared libraries and the objects without strong symbols |
| `StdWhenNeeded` | `Spec => []StdOnlyIfNeeded` |
| `CanBeLinked` | `Spec => []LinksWhatItCan` |
| `DirectoriesSwept` | `Spec => []DirectoriesRemoved` |

**Assumptions.** `SizeAssumption` and `BodySizeAssumption` (at least one block and one local),
`TypesAssumption` of `Initializers` (aggregates have members: for a struct without any `go_through` has a `todo!()`, initializer_tree.rs:158; array elements share a type),
`ItemsAssumption` (initialisers are made of initialisers, subscripts are not negative), `BodiesAssumption` (bodies are well formed, nothing writes the return place through
a pointer), `ConstantsAssumption` of `ScopeLowering`, `MaxStmtsAssumption`,
`TextsAssumption` (files include files there are, which are finitely many, and not the main file), `DriverAssumption`. TLC evaluates each on every run of a module that extends the one that states it.

**The move checker.** `BlockEntryCovered` is not inductive: it speaks of the end,
and the analysis is a loop whose order is irregular. The invariant `Inv`
(`MoveDataflowProofs`) says what has been established *so far*:

* `TypeOK`, and the entry block's in-state covers the state of a call;
* `AllClosed`: a block that anything has flowed into is on the worklist, being
  processed, or *closed*: there is a trace of states from its in-state through its
  points, every error on the way has been recorded, and the result is below the
  in-state of all its successors;
* `InHand`: the block being processed has such a trace as far as it has got, and
  its result is below the successors whose edges have been taken (unless an edge
  to itself has put it back on the worklist);
* `Scanned`: the return blocks already replayed have reported what they own.

An in-state that grows may reopen its block, but then the block is on the worklist:
that is the line the whole argument turns on, in `EdgeStep`. When the worklist is empty,
every block is closed. `RunInv` then follows an execution: its statuses
are below the trace (`ApplyCovers`), so its errors are among the recorded ones
(`ErrorsCover`), and at an edge below the successor's in-state. `BlameInv` adds that every entry of
`last_assign` is an assignment of the local, and that whatever is owned was passed in or has an entry.
One lemma per action proves `Inv /\ [Next]_vars => Inv'`.

**The move checker against its definition.** `Inv` says that nothing is missed; the converse,
that nothing is invented, needs to know where a bit comes from. `PathInv`: every local a set of an
in-state, of `flags` or of a recorded error speaks of has that status on some path, at that very point
(`Justified`, `ErrorOf`, `LeakOf`). `MoveCheck` finds what paths do with two recursive functions, `Through` (a block) and
`Reached` (rounds over the graph). `Inductions` has the induction they need, over
*sets* of numbers: a set with 0 and the successors of its members is everything (`UpTo`, from the well-foundedness of `<`),
a function may be defined step by step (`Unfolding`), and a chain of sets that grow stands
still before the size of what holds them (`ChainStops`, by cardinality). With the last, as many rounds
as there are pairs of a block and a status make `Reached` a fixpoint (`ReachedIs`), and it is the least (`ReachedLeast`).
Together, at the end: the errors are exactly those of paths. For leaks one hypothesis is needed,
`ReturnsVisited`: check_leaks replays *every* block that returns, from an empty in-state
where nothing has flowed in, and an unreached one blames drops it never sees; finding 1 is that case,
so the refinement is false without it. Of errors no hypothesis is needed.

**Points-to and its composition** (`PointsToProofs`), over the specification `MovesSpec` of all of `check()`.
`FactsInv` is the fixpoint of `compute_points_to`: blocks anything flowed into wait or are closed (`BlocksClosed`), with the targets
at each point below those at the next (`Track`); the block in hand likewise as far as it has got; and the facts emitted so far
are those of a track from the block's in-state (`FactsFollow`). `Followed` carries an execution: where a pointer really
points is among its targets at that point. `Handed` says that what the move checker is given is a body
*its* theorems speak of (`MP`, the instance of `MoveDataflowProofs` with `body <- CheckedBody`): `CheckedSound`
proves its assumption of the facts just emitted, so that its invariant holds from then on.
`Performed` relates the statuses of the execution, which follow real pointers, to the sets of the checker, which follow
targets: they agree on locals that nothing writes through a pointer, and elsewhere whatever is owned is held for owned, as
a write through a pointer never takes ownership away.

**Points-to against paths.** `PathEntries` grows the set of pairs of a block and the targets on entry until it grows no more. A recursive function over
sets is a `CHOOSE` that the provers do not unfold, so `Inductions` says of any such function that it exists (`ClosingExists`) and that it finds the least closed set
(`ClosingCloses`, as the sets are parts of a finite one: `EntriesFinite`). That the analysis covers paths is then `FactsInv` again: the pairs whose targets are within the entry of
their block are a closed set (`ClosedFlows`, `PathsWithin`). That it has nothing else is an invariant, `OnPaths`: each target in `ptEntry`, or in the state of the block in hand, is brought to that very
statement by some path (`Comes`). Different targets may come by different paths, and an assignment takes each from one pointer or from none (`TargetComes`), which is why joining
loses nothing. This half needs `AddressesFollowed`: of `&**p` the analysis says what `p` points to, and of `&p.f->g` that it is `p`, where both are in fact
somewhere no one follows. The other theorems do not need it: more targets only make the checker more lenient about writes, as `UnaliasedUsesReported` has it.

**The builder.** `JumpsLand` speaks of the finished body only. `JInv` strengthens it:
a terminator names existing blocks, the *next* block while lowering (`Span`), or
`usize::MAX`, and in the last case some pending goto, computed goto or open `if`
owes the patch (`AllOwed`); bound labels are existing or next blocks and never block 0
(`TargetsLand`); pending jumps remember blocks that exist, and the edges a computed goto
has so far lead to existing blocks (`PendingLand`); an open `if` remembers blocks that exist
(`FramesOK`); nothing is pending any more at the end (`Stage`).
The proof has a lemma for the actions that touch no block (`PlainSteps`), one for
those that push a terminator (`PushSteps`), and one for each of the patches.

Two more invariants of the builder are theorems. `SnapshotsAgree` is made inductive by `SnapInv`: every snapshot
has ids that were handed out, ever larger inwards, and any two agree; the current stack has one scope for each
block statement being lowered (`ScopePerBlock`), so that the scope that is popped is the one that block pushed. A new scope has a new id, and
only the innermost scope of the current stack gets locals, in which case the label or goto that took a
copy before holds a copy of fewer locals: that is where a snapshot must be *taken* by value, at the time. `EveryPatchOwed` is made inductive by
`OwedOnce`: a block waits if and only if exactly one of the pending gotos, the computed gotos and the open `if`s
names it, and its terminator is of the kind that one patches. No two of them name a block, because each
takes the block it was pushed with, and blocks are pushed once.

**Executions of what the builder makes** (`ScopeRunProofs`, second half). The four properties of `ScopeRun` are about a run of the finished
body, and say nothing while it is being built. What holds from the first statement on is that the body *has a trace*: a table which gives each place
between two statements a pair, the locals whose storage is live there and a bound on the variable length arrays that have been declared (`Points`). `Lowered` asks of it that

* each statement leads from the point before it to the one after it (`Step`: a `StorageLive` finds its locals dead, a `StorageDead` and a use find
  them live), so along each block (`Runs`) and, by `Joins`, over each jump that is patched;
* the point at the end of the block being built is that of the scope stack (`PointOf`): live are the locals of its scopes;
* each bound label, goto, computed goto and open `if` has at its block the point of the scopes it took a snapshot of.

`home` is a second ghost: the locals of each scope by its id, and no local has two homes (`Homes`); with `SnapshotsAgree`, that is why what
`scope_transition` kills and revives (the scopes beyond the common prefix of ids) is just the difference of the two points (`Difference`, `Crossing`). A third, `depth`, says to which
scope the frames being lowered belong, as only a block has a scope of its own (`Nested`, `Sees`).
Patching a goto inserts its StorageDeads and StorageLives before the jump, in a block that ended at the point of the goto and now ends at the point of
its label; the points of the other blocks stay. There is one lemma for each action that adds to the trace, and one
(`TracesProlonged`) for what adding keeps. Once the body is done the trace is the invariant of its execution (`Exec`): the live storage *is* that of the
trace, and the arrays declared are at least its. `StorageAlternates` and `UsedWhileLive` are then read off `Step`.

For the arrays, a point's bound is the VLAs recorded in the snapshot, and a jump is safe if it enters no scope with one. `EntersVla` sees only scopes that are
not common to both ends, and a common one may have got its array between them. Without statement expressions a scope's arrays are
those the frame of its block has seen (`Names`), which only grows in a place that dominates what follows. A statement expression breaks just this: it may
stand in the branch of an `if` and record in the scope around it, which is finding 2's jump and why the theorems have the hypothesis `"expr" \notin Kinds`. The other two
need none. `SightInv` says that the observers of `RejectsOnlyEntering`, who keep names, hold for every goto and label the arrays of its snapshot.

**Statements.** Each of the three stacks *mirrors* the frames of some kinds (`Mirror`): there is
an increasing sequence of positions, one per such frame and none left out, and the entry of the stack is the
label that frame holds (`Stacks`). Lemmas say what pushing and popping frames of those
and of other kinds does to a mirror (`PushOwn`, `PushOther`, `PopOwn`, `PopOther`); `TopIs` and `EmptyIs` read the two properties off it.

**Initialisers.** A cursor is a stack of pairs of an index and a type, and every operation on it pushes or pops one, so what is to be kept is that each pair *leads* from
its parent (`Leads`): its type is the parent's member at that index. `FurtherIn` and `OuterFits` say that pushing such a pair, or cutting a cursor short, keeps the whole *fitting*
(`Fits`); by them `IntoFits` (brace elision), `GoNextFits` (the innermost parent with a part left) and `DesignatedFits` (a recursive function along the designators, by `UpTo`
and `Unfolding` of `Inductions`) follow. `CallOK` asks it of the cursor and the slots of every call in progress, with what makes them usable: a call that is placing an item has one left,
and the slots of a range are equally long.
For the trees, `ValuesFit` says what each part's type is by a recursive function along the path; a *chain* (`Chain`) is that function as a sequence of types, which
can be cut (`ChainStart`), continued in a part of a part (`PartOfPart`) and read off a cursor that is not past the end of an array (`CursorStands`).
`TreesFit` is the invariant while nothing has gone astray: the tree of every call fits its type, the type of a nested call is that of the part its caller's cursor is at, so that
what it returns fits there, and the slots of a range are all of the type at the cursor, where the value is made once. `GraftFits` is the insertion: putting a tree that fits a part
in several places of that type, equally long, keeps the whole fitting. Equally long is needed, as a place could else be inside what was put at another.

**Conditionals.** A state of three booleans *tells* the history of its chain (`Tells`): some group was
taken, the current one is the first true one, the chains around it are kept. `Agree` asks that of all chains of a file from the bottom up; `PushAgrees`, `ElifAgrees` and
their siblings carry it through each directive, and `ActiveIsKept` is the property.
For `TypeOK`, `Nested` says that the main file is at the bottom and nowhere else, and that the frames that read one
file are at most `MaxDepth`; then `Pigeonhole`, by induction on the set of files, bounds all frames. `-include` starts with one
reader, which is why the limit must not be zero.

**co2cc.** `LinkedIsAsked` speaks of the end. `DInv` adds that there is one object per
input read, in order (`Paired`), that of inputs with the same object it holds the code of the last
(`Held`), and that nothing is in place before the end (`Staged`). If a link succeeds, an object that is given twice
has no strong symbol (`Repeated` would refuse it), so at each place is the code of its own input or that of a later, weak one; and
nothing is `Missing`, which for a shared library that may have holes says nothing of its needs. `Offers` says what each stage of the link has offered of the runtime and why: an executable's second link has std
only when its first, with core alone, was refused (`StdOnlyIfNeeded`). For `LinksWhatItCan`, `Named` adds that every object
goes by the name of its input, so that two are the same only for inputs that share a name; a linker without a reason of its own
then refuses only for want of something the next stage offers, but for the commands the property names.

**Only model-checked.** `Termination` and `FactsTermination`: liveness under fairness is outside the proof system's
reach here. `SameBehaviour`, `EveryGotoLands`, `SameObject`, `SkipsOnlyNothing`, `SameOutput`,
`SameText` and `SameCondition` are of modules that define their reference, or the execution they compare with, by
RECURSIVE operators, which the provers cannot expand (recursive *functions* they can,
as in `MoveCheck`).

## 7. What is not modelled

* *Wording, order and duplicates of diagnostics* (`collect_diagnostics`): layout.
* *Which types need drop* and *which locals are pointers* come from rustc's type
  system; they are parameters (`needsDrop`, `Pointers`).
* *Expressions* in the builder, beyond calls and statement expressions: the
  translation of arithmetic, casts and places is data without a protocol. Short-circuit
  conditions (`&&`, `||`, comma in `lower_condition`) and assembly terminators are planned.
* *HIR*: asm and computed gotos in `stmt.rs`, the maps from names to locals; in initialisers arrays of unknown size, flexible and
  anonymous members, complex numbers and wide strings. The typing of expressions and declarations works over
  rustc's types: large and mostly functional.
* *Preprocessor*: search paths, `#include_next`, `#line`, `#error`, built-in headers, the blank lines kept for positions; in a line
  white space, comments, numbers that look like names, `_Pragma`, `__LINE__`, `__COUNTER__`, `__VA_OPT__`, `__has_include` and its relatives, hexadecimal, octal and character constants, malformed conditions; the tables of predefined macros.
* *co2cc*: options beyond those that choose what is emitted, dependency files, the arguments given to rustc, timing.
* *Struct merging* in `co2_crate_sig`, *parser beyond statements, formatter*: the first is a candidate, the others are grammars and
  layout over unbounded text.
* *rustc interface, other front ends, test harness*: I/O, or the behaviour of programs
  outside this repository.

## 8. Plan

Done: the move checker, points-to and their composition, the builder, statements,
initialisers, the preprocessor's files and lines, co2cc; the theorems above. Next, in order:

1. **More of the builder and of HIR.** Short-circuit conditions in `lower_condition`, asm terminators, computed
   gotos in `stmt.rs`; `StmtLowering` composed with `ScopeLowering`, whose input it produces.
2. **co2cc.** Dependency files and the parsing of options.
3. **`struct_manager.rs`.** Repeated C declarations of a struct against the one type they mean.
4. **Proofs.** `SkipsOnlyNothing` and `SameOutput`: the references of `CPreprocess` written as functions, and an invariant that relates a file half read to them.

## 9. Running it

In this directory, with TLC, SANY and tlapm of the TLA+ tools and the community
modules on the path:

```
tlasany PointsTo.tla
tlc -workers 2 -config Moves.cfg MCMoves
tlapm MoveDataflowProofs.tla
```

`PROJECT.json` lists the runs with their module and configuration, the mutants,
the lines of source each definition models, the findings, hazards and theorems.
