# TLA+ models of the Carbon compiler

This directory models **carbonc**, the compiler of the Carbon language (`src/carbonc`), in TLA+. The models are checked
with TLC on small instances, and what matters most about them is proved with TLAPS for every value of the constants.

Carbonc is one sequential process. It has no threads, no network and nothing persistent but its output. What makes it
hard to get right is the *order* of things:

- it resolves declarations without a dependency graph, by walking the whole program again and again, so that every
  visit reads what earlier visits, complete or not, have left behind;
- it generates code in one walk, handing labels, defers and pending operands from one construct to the next;
- it gives out registers and stack slots by simulating a stack that the generated code then uses for real.

The models are about these three, about the parser, which reads whatever stands in a file without a token between statements
that would keep them apart, and about the allocator that compiled programs run with. A compiler also makes *programs* that run: for the back half of the compiler a model
generates code and then runs it, and the properties compare what the code does with what the source means.

1. [The system](#1-the-system) · 2. [Plan](#2-plan) · 3. [Modules](#3-modules-and-how-they-correspond-to-the-code) ·
4. [Runs](#4-runs-bounds-and-what-they-show) · 5. [Findings](#5-findings) · 6. [Proofs](#6-proofs) ·
7. [What is not modelled](#7-what-is-not-modelled)

## 1. The system

A compilation (`compile_file`, `carbonc.cc`) is a pipeline over one tree per source file; the type system, its scopes and
the IR are global state that the stages share:

    driver -> lexer/parser -> type system: register, resolve, checks -> desugaring -> IR -> x64 -> assembler, linker
                 |                   |  ^                                        |
                 +--> arena of nodes |  +-- imports: parse another file          +-- operand stack, temporaries, frame
                                     +-- scopes, type definitions, symbols

| Component | State it keeps | Operations | Hard behaviours | What makes it correct |
|---|---|---|---|---|
| Structure layout (`type_system.cc:877-898`) | offset, size, alignment | one loop over the fields | padding at boundaries; unsized field types | fields aligned, apart, covered, also in arrays |
| Type declarations (`type_system.cc`, `scope.cc`) | type definitions, ids cached in nodes, `unresolved_types`, errors | register, resolve (up to 100 subpasses), checks | sizes read before they are final, resets at every visit, cached literals | one size per type, from final sizes; errors exact; order of declarations irrelevant |
| Name lookup, scopes, imports (`scope.cc`) | scopes, symbols, imports, pass tokens of locals | add_scope, declare, find, import a module | same name in many scopes, local used before its declaration, a missing import | a use means the innermost visible declaration, the same one in every pass |
| Functions, overloads, generics (`type_system.cc`) | overload lists, mangled names, deduced results, callees and types of calls | register, deduce, pick an overload, copy a generic function | deduction over several subpasses, mutual recursion, overloads that join while calls are resolved | a call fits what it calls, and calls the best overload; one copy per list of types; exactly the right programs are accepted |
| Conversions (`type_system.cc`) | types of nodes | assignable, convertible, literals that take another type, casts | a literal changed by an attempt that fails | a value stands only where its type may |
| Constant evaluation, checks of operators (`type_system.cc`) | types and values of nodes | fold | width, sign, division by zero | a folded value is the value at run time |
| Desugaring (`desugar.cc`, `ast_manip.cc`) | the tree itself | three rewriting passes, then two of remangling | rewritten nodes are resolved again | the rewritten tree means the same |
| Conditions (`ir.cc:199-251`, `816-929`) | labels and inverted jumps per node | distribute labels, emit tests | labels inherited through nested operators | short-circuit evaluation; the right arm |
| Statements (`ir.cc:451-692`) | stack of scopes, defers per scope, loop labels | one walk over the statements | exits that cross scopes; defers; `continue` | the calls of the source, in its order |
| Expression IR (`ir.cc`) | operand stack, instructions | emit, discard, replace duplicates | who takes which operand and when | every operand has the value that was pushed |
| x64 code generation (`codegen_x64.cc`) | operand stack, register use, frame | frame layout, destinations, instructions | few registers, spills, shared and fixed registers | values of the source; the caller gets its stack and registers back |
| Assembler back-ends | output text | print instructions | — | what is printed is what was generated |
| Lexer, parser, AST (`lexer.cc`, `parser.cc`) | token, last word, current linkage, nodes | one rule per construct, by recursive descent | no separators; tries that give up half way; linkage kept over errors | the tree that was written is read; nothing that is accepted is lost |
| Pretty printer, headers | text | printing | — | what is printed is what was read |
| AST arena (`memory.cc`) | buckets | allocate | a request larger than a bucket | allocations do not overlap |
| Driver (`carbonc.cc`, `fs.cc`) | files, options | compile, assemble, link | a failing tool in the middle | no stale output after a failure |
| Heap of the standard library (`mem.cb`, `linux/mem.cb`) | list of blocks with their counts, mappings | alloc, free | the end of a block, blocks next to each other, a mapping that fails | no byte given out twice; a block is released with its last allocation |
| Rest of the standard library, Windows library (`stdlib`, `systemlib`) | arenas, slices, handles | strings, system calls | limits of an arena | as for the heap |

**Interactions.** Stages communicate through the nodes: a type id cached in a node, a label in a node, an index into the
operand stack. Resolution is interleaved with parsing: each file is visited twice as soon as it is parsed
(`process_code_unit`), before the files after it exist. The IR names locals and arguments by index and leaves all other
operands on an implicit stack; codegen simulates that stack once to assign registers and once more to emit.

The hazards this list leads to, with the line each one bites at and the properties that watch it, are the `hazards` of
`PROJECT.json`.

## 2. Plan

In order of importance; a part is done when it is modelled, checked and, where listed, proved.

| | Part | Modules | Abstract specification | Theorems | State |
|---|---|---|---|---|---|
| A1 | Structure layout | `Alignment`, `StructLayout(Spec)` | the textbook layout (in `TypeNamespace`) | all safety invariants | done |
| A2 | Declaration passes | `TypeDecls(Spec)`, uses A1 | `TypeNamespace` | types of the state; sizes are final; errors exact; the walks refine `TypeNamespace`; declared before use, a program compiles | done |
| C | Conditions | `BoolJump` | `Condition` | labels land | done |
| D | Statements, loops | `ControlFlow(Spec)`, `NumericFor` | source interpreter | numeric for | done |
| H | Frames, expression code | `StackFrame`, `ExprCode` | `StackFrame` is the specification of `ExprCode` | all frame invariants | done |
| B | Scopes, imports, lookup | `ScopedProgram`, `Scopes(Spec)` | `LexicalScope`: meaning as a function of the text | a symbol keeps its first declaration; the walks implement the scoping of the text | done |
| E | Functions, conversions | `Conversions`, `FuncDecls(Spec)` | the language without walks (`WellTyped`) | types of the state; calls agree and keep their callees; the exact overload is taken; results follow from returns; a generic function is copied once; accepted exactly if well typed | done |
| K | Parser | `Tokens`, `Parser(Spec)` | how a tree is written (`Text`) | out of reach: recursive | model-checked |
| F | Heap | `Heap` | the allocations the program holds (part of `Heap`) | both invariants | done |
| F2 | Arenas | `Arena` (memory.cc and mem/arena.cb) | a set of disjoint blocks | disjointness | planned |
| I | Constants, operators | `ConstEval`, on `Conversions` | arithmetic of the width | folded value | planned |
| J | Desugaring | `Desugar` | the tree's meaning | — | planned |
| G | Driver | `Driver` | no stale output | — | planned |

Remaining proof work on what exists: `ErrorsExact` of `Scopes` (section 6 says what it needs).

## 3. Modules and how they correspond to the code

`PROJECT.json` maps every definition to the lines it stands for. In all modules a definition whose comment begins with
`Mutant` is a deliberately wrong variant of the definition next to it; no specification uses one.

### Layout: `Alignment`, `StructLayout`, `StructLayoutSpec`

`Align` is `align()`. `StructLayout` keeps the loop of `compute_struct_size_alignment_offsets`: `BeginLayout` enters it,
`PlaceField` is an iteration, `CloseLayout` the rounding after it, `DivideByZero` the `number % 0` that a field type
without alignment causes. The one variable `lay` holds the function's locals and results. `StructLayoutSpec` makes it a
specification of its own, for any set of structures, and states the properties.

### Declarations: `TypeDecls`, `TypeDeclsSpec`, `TypeNamespace`

A program is a sequence of declarations (`struct`, `type N = expr`, structure of an `extern(C)` block, use of `sizeof`),
each in a unit, that is, a source file. Type expressions are names, pointers and static arrays. `phase`/`sub`/`at` are
`ts.pass`, `ts.subpass` and the place of the walk (`Advance` and its disjuncts: `process_code_unit`,
`resolve_and_check`); `node`, `fieldType` and `folded` are what the nodes cache; `structure` the type definition of a
structure expression, which a declaration copies (`Copied`); `symbols` the scope. Every visit is one action, by the kind
of the declaration and by how far it gets, but for the layout of a structure, which runs as the loop of `StructLayout`.

`TypeNamespace` promises what no order of visits may break: a name belongs to one declaration, a size becomes known
once, from known sizes, and is the textbook one. `ImplementsNamespace` is the refinement (`owner <- symbols`,
`known <- Known`: a structure's size is its layout's, any other declaration's its own copy's).

### Scopes: `ScopedProgram`, `LexicalScope`, `Scopes`, `ScopesSpec`

A program is a sequence of items: imports, functions, blocks, loops, `let`s, types, and mentions of variables and types.
`WellFormed` is what the parser makes of a text: scopes are nested, modules and files follow one another. `ScopedProgram` says
what a text means (`Meaning`, `Wrong`) without any walk; `LexicalScope` promises that every use is
bound once, to its meaning, in any order. `Scopes` has the walks of `TypeDecls` over the names: `symbols` are the
scopes' symbols with their tokens (`pass_token`), `imports` what the walk has seen of them, `bound` the scope in which
`find_symbol` last found a use, `typed` the variables whose type is known. An unpacked `let` keeps in `unpacked` the names
for which declarations were generated; its other names became assignments. Each kind of item is one action, or one for each
way through its code: a `let` is refused (`VisitRedeclared`), declares its name (`VisitLet`), waits for the type of its
value (`VisitPacked`), is unpacked (`Unpack`), or has been (`VisitUnpacked`). `Find` is `find_symbol`: outwards through the
scopes, in a module through its imports as well, up to one whose module the driver has not come to yet (`Searched`).

### Functions: `Conversions`, `FuncDecls`, `FuncDeclsSpec`

`Conversions` has the relations between types: `Assignable` is `is_assignable_to`, as the least relation its rules give (`Assignments`), `Convertible` and `NeedsCast`
what the calls make of it, over a table of type definitions that the instance gives.

A function in `FuncDecls` is what the walk reads of a `func_decl` node: name, types of the arguments (`Untyped` makes it
generic), declared result, and its calls and returns in their order; the arguments of calls are literals, nil and
arguments of the function. `pass`, `sub` and `next` are the walks of `TypeDecls` over one file, `stack` the functions
being visited: above the first stand copies of generic functions, which are visited in the middle of the visit of their
caller. `overloads` and `symbols` are the tables a function joins when the walk leaves it and its type is known
(`FinishFunc`, `ResolveFuncType`), `generics` those it joins at its first visit (`RegisterGeneric`), `callee` and `t` of a statement what the call's node keeps. There is one action for each
way a call can go: a function with that mangled name (`CallExact`), the callee it had (`CallKept`), the overloads one by one (`NextOverload`) up to one that fits
(`CallOverload`), a copy of a generic function (`CallGeneric`, `FinishInstance`), nothing (`CallFails`). What an attempt does to literals before it fails
stays, as in the code (`Attempt`). The compiler can die on the way: copies within copies
(`GenericOverflow`), an assertion (`GenericMismatch`), and the null parent of a call returned inside a copy (`CallEnds`); these
are ends of their own.

`FuncDeclsSpec` has the language without walks: `Source` is the program as it is written, without what the walks leave in it, `Target` the
function a call names by the declared types alone, `Rounds` the results that follow, each round from those known before it, `Results` what is
known in the end, `WellTyped` whether every call names a function, every function has a result and every return gives it. `AcceptedExactly`
compares the compiler with it.

### Parser: `Tokens`, `Parser`, `ParserSpec`

`Tokens` are the lexer's keywords and operators with their precedences; a token is a string, a file a sequence of them.
`Parser` has one rule for every `parse_` method, from a parser state to a parser state: the place in the tokens, the
linkage, the nodes made so far in the order they are finished, and how it ended (an error, a null pointer followed, read).
A step of the specification reads one declaration of the file (`ReadDecl`, `SkipTag`) or ends it (`Refuse`, `EndOfUnit`), as
`parse_code_unit` does. Rules fail where the code throws,
return nothing where it returns null, and go on without a look where it does; a word that is read as a name and is none
leaves the name read before it (`stale`). `current_linkage` begins as `Garbage`: nothing initializes it.

`ParserSpec` writes trees (`Text`): with the parentheses the operators ask for and with a semicolon only where what
follows would go on with what stands before. `ReadsSource` reads them back.

### Conditions: `Condition`, `BoolJump`

`Condition` evaluates the comparisons of a condition left to right, each only when still needed, and then enters an arm.
`BoolJump` has the compiler's two walks and the machine. `Distribute*` are the cases of `distribute_bool_op_targets` with
an explicit stack of calls (`target`, `invert` and `self` are `bool_op_target`, the inverted jump and the node's own
label); `Generate*` emit the code of the tree and of the `if` around it; `PassLabel`, `Compare` and `EnterArm` run it,
with results of comparisons chosen by the environment. `ImplementsSource` is the refinement to `Condition`: same
comparisons, same order, same arm.

### Statements: `ControlFlow`, `ControlFlowSpec`, `NumericFor`

`ControlFlow` generates (`todo` is the recursion, one work item per step; `scopes`, `deferred` and `ctrl` are the
generator's stacks) and then runs the code; a program is what it calls. `ControlFlowSpec` interprets the source: defers
run in reverse order at every exit of their block, `continue` goes on with the next iteration. `FollowsSource` compares
the calls made so far with the interpreter's, for the same outcomes of conditions.

`NumericFor` is the one loop with arithmetic: `Direction` chooses the side at every iteration, `TestUp` and `TestDown`
set a missing step and test the range, `Body` steps in the width of the variable. Words are the signed numbers the
generated comparisons see, of any width.

### Frames and expressions: `StackFrame`, `ExprCode`

`StackFrame` is a function as its caller sees it: the locals are placed one by one (`PlaceLocal`,
`get_func_stack_frame_size`), the prologue stores the arguments (`HomeArgument`), saves registers (`PushRbp`,
`PushTemp`) and reserves the frame (`Reserve`), the body does *anything* that keeps to its slots and registers (`Body`),
and the epilogue undoes it. Memory is a set of cells with address and size, and a store destroys whatever it overlaps, so
that a slot put over another one loses its value.

`ExprCode` extends it with a body: `Generated` is `ir.cc` on assignments, discarded expressions, returns, stores through
pointers and defers; the operand of a return is generated before the defers of the function and taken behind them. `Optimized` is `opt_replace_duplicates`; `Assign` is `determine_instrs_destination` (registers and
spills); and each instruction of `generate_ir_instr` is an action that emits its machine code and runs it. Values are
terms, so that two different computations never happen to give the same number. `opstack` holds for every pending
operand where codegen looks for it and what was pushed. What the source means is given by `Evaluated` and `Step`: operands
are evaluated from left to right, as the stack machine of the IR says (`ir.cc:1-5`), and what is read from memory is named by
the address and the number of calls and stores before the read, so that a read that comes too late gives another value.
`ImplementsFrame == Spec` says that every such body is an
instance of `Body`: what is proved of frames holds of the code.

The IR and the source meaning use RECURSIVE operators; they are the reason why theorems are about `StackFrame`.

### Heap: `Heap`

`blocks` is the list that `last_block` begins, `mapped` what the system has mapped, `live` what the program holds. There is
one action for each way `alloc` can go (`AllocInBlock`: the first block with room; `AllocNewBlock`; `MmapFails`) and `free`
(`FreeKeeps`, `FreeReleases`, `FreeIgnores`). The program is the environment: it frees what it holds (`FreeLive`) or a
pointer that is not from here (`FreeForeign`, the case `free` returns early for), and writes what it holds. `alloc` lets an
allocation pass the end of its mapping by up to a header (`mem.cb:84` compares with the size of the mapping, header
included); `Overwrite` is the program that writes there, which destroys the header of a block behind or ends the
process. The memory_block is a record of the model and not bytes in memory; after an `Overwrite` nothing is said any more.

## 4. Runs, bounds and what they show

All runs set `CHECK_DEADLOCK FALSE`: a compiler, a loop and a function end.

| Run | Instance | Checks |
|---|---|---|
| `struct_layout` | every structure of up to 4 of 9 field types, C or not (72,720 states) | `FieldsAligned`, `FieldsDisjoint`, `FieldsCovered`, `ElementsAligned` |
| `type_decls` | every program of 3 declarations of A, B, C or A, B, A, in one or two files (256,281 states) | `TypeOK`, `LaidOutFromFinalSizes`, `ErrorsExact`, `DefineBeforeUse`, `SizedForGood`, `ImplementsNamespace`, `Ends` |
| `scopes` | 8,695 programs: locals in a function and its inner block or loop; three modules with imports (318,740 states) | `FirstDeclares`, `ErrorsExact`, `ImplementsScoping` |
| `func_decls` | files of three functions: two overloads and a call in every order, two literals, results that follow from results, a generic function called twice, with literals in its calls and around them, beside others (300,108 states) | `TypeOK`, `CallsAgree`, `DeducedFromAll`, `CopiedOnce`, `BestOverload`, `AcceptedExactly`, `CalleePinned` |
| `parser` | about 3,500 trees written and read back, 6,000 other token sequences, two values of the uninitialized linkage (52,321 states) | `ReadsSource`, `NothingDropped`, `CStructsInside` |
| `bool_jumps` | every plain condition of up to 5 comparisons (17,311 states) | `JumpsLand`, `ImplementsSource` |
| `numeric_for` | every range of a 4-bit type, no step or 9 steps (53,892 states) | `VisitsInside`, `VisitsAll`, `ForEnds` |
| `control_flow` | structured functions: optional defer, a statement of up to 3 levels, optional call or return (182,952 states) | `FollowsSource`, `KeepsGoing` |
| `expr_code` | 2,585 functions of 1 to 4 statements, some deferred (45,160 states) | `ComputesSource`, `OperandsHold`, `RestoresCaller`, `StackAligned`, `LocalsApart`, `ArgumentsFound`, `ImplementsFrame` |
| `heap` | up to 5 allocations of 4 sizes, freed in any order, pages mapped at any of 4 places (170,564 states) | `AllocationsApart`, `BlocksMatchLive` |

The two runs `declaration_order` and `bool_chains` end in a violation: see [Findings](#5-findings). The type invariants of
`StructLayout` and `NumericFor` are in no run, since they are proved.

**Why the bounds are enough.** *Layout*: the computation looks at one field at a time and keeps `offs` and `maxAlign`;
four fields reach every combination of a field, its predecessor, padding before it and the rounding at the end, and the
proofs remove the bound. *Declarations*: three declarations make a chain through another type, a cycle, a duplicate and
an undeclared name, in any order. `MaxSubpass = 3` stands for 100: a program whose names are all declared leaves nothing
unresolved after the first subpass of the resolve pass (names, not sizes, are what a subpass waits for), and one with an
unknown type runs into any bound, so that both ends of the loop are reached. *Scopes*: a hidden or repeated name needs two
scopes and two names, an unpacking of one old and one new name a third `let`; for the order of modules the importing one
stands between an earlier and a later one, and is read in two files. A chain of globals in reverse order takes a subpass
per declaration, so that the real bound of 100 is a limit on programs; the chains here are shorter than `MaxSubpass = 3`
needs. *Functions*: with three functions a call stands before, between and behind two overloads, and a result follows
another one that follows a third, in a cycle too. `PassLimit = 4` again stands for 100: results of three functions are
known after three subpasses, and a cycle runs into any bound. `MaxNesting = 4` stands for the stack of the compiler: no
generic function of the run is copied at more than three levels unless it copies itself without end. *Parser*: every
kind of expression stands in every place of every other, which is what parentheses and precedence can get wrong, and
three operators make a chain that leans to either side twice; the other sequences reach the rules with tokens missing,
doubled and in each other's places. `ListLimit = 4`, `ArgLimit = 3` and `PartLimit = 2` stand for 8192, 32 and 32, so that
lists run over their limits. *Conditions*: labels are
handed down from an operator to its operands, and five comparisons put an operator on either side of each kind of
operator, twice. *Loops*: at four bits every relation of start, end, step and the ends of the width occurs; the proofs remove the width.
*Statements*: three levels put every exit inside a loop in a conditional in a block with defers on either side;
`RangeLength = 2` repeats a body, `MaxChoices = 3` bounds only how many conditions the environment answers, and
`MaxCalls = 16` cuts off runs that loop (no correct code reaches it). *Expressions*: one argument register and one
temporary make every kind of operand run out of its register; five temporaries would only need larger expressions to
reach the same spills. `EntryRsp = 8` is any address that is 8 modulo 16. *Heap*: a page of four alignments whose header
takes two gives blocks that hold one to three allocations, with one that passes the end, and a block of two pages; four places
put blocks in front of, behind and away from each other in any order; the proofs remove the bounds.

**Restrictions.** Some runs leave out inputs on which the code is known to go wrong, so that the properties hold on all
others. Each restriction is a named predicate of the MC module or of the property, no wider than it has to be:

- `Whole` (`FieldsDisjoint`, `FieldsCovered`): the size of every field is a multiple of its alignment. `[3]uint32` is
  not: size 12, alignment 16; in `{uint8, [3]uint32, uint8}` the last field overlaps the array.
- `DefinedBeforeUse` (`DefineBeforeUse`): the order in which sizes are known to come out right; all others are the
  subject of `declaration_order`.
- `Plain` (`scopes`): no `LateLocal` (a local mentioned, in its own value too, before its scope declares it: in
  `let x = x + 1` of an inner block the second walk reads the new `x`), `LateGlobal` (a module declares a name that an
  import or the language answered before: a type is looked up once more in the checks and changes), `SharedKey` (two modules
  imported by one name: the later import takes over), `ArgShadow` (a local named like an argument is accepted and never
  declared), `Awaited` (a loop or an unpacking, which declare their names once the value has a type, is not `Ready`, that is, may have
  to wait for it, while other items declare its names or the language does), `OldFirst`
  (`let err, b` with an old `err` and a new `b` is refused, `let b, err` is not). With a program of any of the six, TLC finds one
  of the properties violated.
- `func_decls`, each named where the property needs it: `Settled` (a name with one function, or overloads that stand
  together and declare their results): otherwise a call that stands between two overloads takes the first that fits, and
  may name a different one later while its type stays, and a generic function is copied before the exact overload
  exists. `Undisturbed` (`CalleePinned`, `DeducedFromAll`): a call of an overload whose arguments were cast, or had their address taken, is
  mangled by the new types in the next walk, and a function declared with exactly those takes it over
  (`type_system.cc:2900`); the result its caller was deduced to have stays the old one. `DeducedFromAll` also leaves out returns of two types one of which may be assigned to the
  other (the last of a nil and a pointer is the result): the result is deduced from the returns known by then, and a return that is known later is
  only compared with it. In `AcceptedExactly` also `Plain`: no generic functions, no two functions of one signature (accepted, and their bodies
  follow each other under one symbol, `type_system.cc:2012`), no literals in calls of overloads (an attempt that fails leaves
  the literal with the type it tried), and no call of overloads that names another once its arguments are cast (`Lasts`; it has that
  one's result in the next walk). There, too, `Unmixed`: no deduced function returns a nil beside a pointer, for which the order of the walks
  decides; and fewer functions than walks (`PassLimit`, 100 in the code): in a chain of more functions, each
  of which returns a call of the one behind it, a walk finds one result, and the errors come before the last.
- `CopiedOnce` holds for files with `NoCircle` (the generic functions can be put on levels such that each calls only those
  below) and `NoLiterals` (no call of one is given a literal). Without the first, TLC finds that two generic functions that call each other begin
  the same copy again before the first is done, if `MaxNesting` lets them; without the second, that in `g(200, &x)` the overloads tried before
  leave the literal as uint8 and then as bool, and `g<bool,&int>` is copied although the name has that copy by then. Both files are
  accepted, and the IR puts the bodies of the two copies behind each other, where the second is dead.
- `KnownTags`, `NamesRead` (`NothingDropped`): an unknown `#tag` is skipped, and a token read as a name that is none (`let 5 = 3`)
  leaves the name before it in the tree. A tree written by `Text` has `;` behind a variable with neither type nor value, which would
  take the `}` of its block.
- `Plain` (`bool_jumps`): no operator stands where its labels get lost. The others compile wrongly: `a || b || c`,
  `a && (b || c) && d`, `(a && b) || c`, `!(a && b)`, `!a && b`; `(a || b) && !c` does not assemble.
- `Structured` (`control_flow`): no `continue` in a numeric for, no `break` or `continue` out of a scope with a defer, no
  function that returns early and then falls off its end with a defer of its own.
- `Fits` (`numeric_for`): a step leads towards the end and does not pass the end of the width.
- `PlainCode` (`expr_code`): `InPlaceArgument` (narrow arguments in registers: `a + 1` changes `a`, which is read again), `DivisorOnStack`
  (`a / (b + c)` divides by `a`), `SharedRegister` (`(a + 1) + ((a + 1) + b)` adds into a register still to be read),
  `ReturnReadLate` (`return v` with a defer that assigns `v` returns what the defer assigned), `MemoryReadLate` (`@p + g()` reads
  after the call), `StaleDuplicate` (`return -v` with a deferred `g(-v)` that runs behind a deferred `v = b` passes the
  old `-v`), `AddressSpilled` (a dereference that does not get a register yields the pointer; an address that does not get one ends
  the compiler in an assertion, `codegen_x64.cc:825`).
- `ForeignAssumption` (`Heap`): a pointer that is not from here is not in the header's length behind the memory the heap
  may be given, where `free` would take it for one of its own. Requests are far below 2^64, where sizes wrap.

Every one of these but the last was also seen in the output of the compiler itself; the `hazards` list them with their lines.

**Compared with the compiler.** The programs of the runs, and many outside of the restrictions, were also given to the
compiler, built from this source, and what it did was compared with what the model does:

| Model | Programs | Compared |
|---|---|---|
| `Parser` | 19,750 files with either linkage, and 32,000 random changes of them | outcome, tree, place of the end: equal |
| `TypeDecls` | 9,826 files, `sizeof` of every name appended | accepted, rejected or SIGFPE, and every size: equal |
| `Scopes` | 16,128 functions with locals, 7,168 programs of three modules, plain or not | outcome and lines of the errors: equal |
| `FuncDecls` | 3,672 files | outcome, and in all 1,984 that compile the callee of every call: equal |
| `BoolJump` | all 5,394 conditions of up to 4 comparisons, plain or not | jumps and labels: equal |
| `ControlFlow` | all 6,791 functions, structured or not | the IR: equal |
| `NumericFor` | all 1,310,720 loops over an int8, compiled and run | the elements visited: equal |
| `ExprCode`, `StackFrame` | 12,000 random functions (int32, int64, up to 7 arguments, calls of up to 8, pointers, defers; six argument registers, five temporaries) | the IR; the calls, stores and results of the assembly, executed symbolically: equal |
| `Heap` | 23 random traces of 1,000 operations on the allocator compiled by carbonc, page size 4096 | pointers, block list and mappings after each operation: equal |

For the last, one line of the compiler was changed: with the C++ library at hand a `return` without a value
(`ir.cc:690`) ends it in the construction of a string from null, before any code is printed.

**Fairness.** Every specification whose liveness is checked has `WF_vars(Next)` and no more: compiler and generated code
are each a single thread whose next step, if it has one, is taken. No action is favoured; in particular `ForEnds`,
`KeepsGoing` and `Ends` rest on no choice of the environment. `StackFrame`, `TypeNamespace`, `FuncDecls`, `Parser` and `Heap` promise
safety only and have no fairness.

## 5. Findings

| Run | Says | Does |
|---|---|---|
| `declaration_order` | `README.md:43` "Declaration position independence." | a structure is laid out when the *names* of its field types are found; a type without a size has alignment 0 and `align` divides by it (`type_system.cc:885`): `type B = struct { c : &C }`, `type C = struct { u : uint8 b : B }` ends the compiler with SIGFPE |
| `bool_chains` | `tests/test_boolops/src/main.cb:17` expects `x \|\| y \|\| z` to hold if one does | `ir.cc:234` hands the labels of the chain to its left operand unchanged: the middle comparison jumps to else |

A third disagreement the authors know of ("TODO(bug): fix continue jump", `systemlib/windows/src/confparser.cb:48`): `continue` in
a numeric for goes to the test and skips the step (`ir.cc:587`). It is a hazard with a restriction, `Structured`.

## 6. Proofs

TLAPS proves all of the following for every value of the constants, from the named assumptions only.

| Module | Assumes | Theorems |
|---|---|---|
| `Layout_proofs` | `StructuresAssumption`: fields have sizes and alignments in Nat, also 0; `StackAssumption`: the stack pointer is 8 modulo 16 when a function is entered (the ABI) | Structures: `LayoutTypeCorrect`, `LayoutAligned`, `LayoutDisjoint`, `LayoutCovered`, `LayoutElementsAligned`. Frames: `StackInvariant`, `CallerRestored`, `StackIsAligned`, `ArgumentsAreFound`, `LocalsAreApart` |
| `TypeDecls_proofs` | `ConstantsAssumption`: programs and declarations are not empty, names are not builtins; a builtin has the `sizeof` and `alignof` of a C++ type (`GoodBuiltin`, `type_system.cc:111`), or neither (`type`, `void`, opaque types: `4504`, `4796`); `type N = e` and `sizeof` have one expression; `NamespaceIsImplemented` and `CompilesInOrder` themselves assume `[]ArraysWhole`: every array that is made is a multiple of its alignment in size; `SizedAtOnce` and `CompilesInOrder` speak of programs with `ValuesSized`: what is mentioned by value of the builtin scope has a size | `TypeDeclsTypeCorrect`, `OffsetsFromFinalSizes`, `SizesAreFinal`, `ReportsWhatIsWrong`, `NamespaceIsImplemented`, `SizedAtOnce`, `CompilesInOrder` |
| `FuncDecls_proofs` | `TypesAssumption`, `FuncDeclsAssumption`, `PointersAssumption`: functions as they are parsed, with statements that call or return, and types whose pointers are types; `NilAssumption`: `nil` has a kind of its own and is no alias (`type_system.cc:4787`) | `FuncDeclsTypeCorrect`, `CalleesTakeTheirArguments`, `CalleesStayPinned`, `ExactOverloadIsTaken`, `ResultsFollowFromReturns` |
| `FuncDeclsExact_proofs` | the same, and what `FuncDecls_proofs` proves | `CopiesAreMadeOnce`, `AcceptedAsTyped` |
| `BoolJump_proofs` | `ConditionsAssumption`: a condition is a tree of operators and comparisons; the theorem itself assumes `Stands`: no operator with a logic operator of the other kind on its left has a `!` on its right (the label asked for there is never emitted, see `Plain` above) | `JumpsAlwaysLand` |
| `NumericFor_proofs` | `WordAssumption`, `RangesAssumption`: the words include -1 and 1 | `NumericForTypeCorrect`, `NumericForInside`, `NumericForAll` |
| `Scopes_proofs` | `ProgramsAssumption`: programs are as the parser makes them (`WellFormed`); `BuiltinsAssumption`; the theorems themselves assume `AllPlain`: every program is `Plain` | `FirstItemDeclares`, `ScopingIsLexical` |
| `Heap_proofs` | `SizesAssumption`: sizes of header, page and alignment are positive; `ForeignAssumption` | `HeapInvariant`, `HeapApart`, `HeapCounts` |

The arithmetic stands in `Layout_proofs`: `Align(n, a)` is the least multiple of `a` that is not below `n`, and aligning
commutes with adding a multiple.

- **Layout.** `offs` leaves padding out: it is advanced from the offset *before* alignment. `LayoutInv` says why this is
  harmless for whole fields: the end of the last placed field, aligned, is never above `offs`. The invariant is needed
  because disjointness speaks of all pairs of fields and the step only of the next one.
- **Passes.** `TypeInv` adds to the type invariant that every type id refers to a definition that exists (`GoodType`):
  this is what makes `Get` total, and each of the ten actions preserves it.
- **Sizes.** `LaidOutFromFinalSizes` alone is not inductive: a layout copies the sizes of its fields, and nothing in it
  says that those stay. `SizedInv` says of every declaration where its size comes from: a structure with a size has the layout of its fields
  as they are known *now* (`GoodStruct`), each of them known (`GoodFields`) and found in the scope as it would be found again;
  a named type has the size of what it names (`GoodNamed`). `CopiesInv` ties the size in a node, which every visit resets,
  to the one that is known, except while the node is being visited, and `BusyInv` says what the loop over the fields
  has in hand then. The step is a comparison with what grows (`KnownGrows`): a visit knows at least what was known before, and a layout
  from the same sizes is the same layout (`LayoutUnique`), so that the second visit of a structure computes what the
  first did. That an expression looked up again gives the same definition is `SameLook`.
- **Namespace.** A step that gives a declaration its size must be a `Settle` of the abstract specification: from the sizes known
  *before* the step, looked up in the scope as it is *after* it, and by the textbook. `SettlesInv` says of every declaration with a size
  that its text, read now, measures that size; it follows from `SizedInv`, for what is known is not looked up otherwise
  later, and no declaration is an element of itself (`Apart`), so that its own new size does not matter. The fields of a C
  structure take `int` for a name that is not declared *yet*, so this holds for it only when it is laid out; `CFieldInv` says that this happens
  in its first visit, with the types its fields are looked up to then. The loop aligns behind a field and the textbook before it;
  `LayoutTextbook` shows them equal (by a least counterexample, as `EndOf` is recursive) if sizes are multiples of alignments, which a
  structure always is (`AlignTwice`) and `WholeInv` says of all that is known. Only the array constructor breaks this
  (`[3]int32` has size 12 and alignment 16), hence the hypothesis.
- **Order.** `DefineBeforeUse` is about the end of the walks; its invariant, `OrderInv`, says that in a program that declares before it
  mentions the very first visit is enough. What lies before the walk has its size (`PassedAt`), so everything the visit looks up
  does (`MentionOrder`, `LookedUpAligned`), its layout has no field without an alignment (`AlignedInv`) and it closes with a size;
  a declaration without a size has cached nothing yet (`FreshAt`), so nothing stale is read instead, and a literal is
  that of a type with a size (`FoldedAt`), which is final. This alone gives `SizedAtOnce`, without any assumption on arrays. `Meaning` settles all
  declarations in rounds; after `n` rounds the first `n` have the size the compiler has (`MeansFinal`, a least counterexample).
- **Errors.** The last walk reports what it sees in nodes and scope, the property speaks of the text. `SelfInv` and
  `OwnerInv` say that a name belongs to its first declaration, `VisitedInv` that every declaration behind the walk
  has entered its name, `FoldInv` that a cached value stands for an expression whose names are all declared (it is not looked at
  again), and `ReportInv` that the errors are the wrong declarations before the place of the walk.
- **Calls.** `TypeInv` of `FuncDecls` says among others that the frames of the stack wait for the function above them.
  `CallsAgree` is `CallInv` at every call that has a callee and a type, in every state; to keep it,
  `WaitingInv` says what a caller asked for when the copy above it was made, and `CheckInv` that the last walk leaves
  no untyped statement behind unless it reports it.
- **Callees.** `CalleePinned` is about two walks. `KnownInv` and `PinInv` say that overloads that stand together are all
  declared when a call of them has a type, and that a symbol with exactly the call's types is its callee;
  `TriedInv` that a call that goes through overloads had no such symbol.
- **Overloads.** What a call is written with is not kept by the compiler: an attempt of an overload may cast the arguments
  and fail. `BestOverload` is `BestInv` at the end: a call that means an overload (`Meant`) has its arguments as they are
  written in every state (`AsWritten`) and, once typed, calls a function with that signature. It needs that the signature of a typed function is a
  symbol (`SignedInv`) and that such a call is never in the middle of a search (`SearchInv`): its first attempt
  is the exact symbol, which cannot fail once all overloads are declared.
- **Results.** A deduced result is the type of a return that was known. `ValueInv` and `DeducedInv` say that this return is still there with this type, and
  `JoinInv` that the last walk compared it with the others, also with those known later.
- **Copies.** A copy joins the overloads only when its visit is over and it has a type; a second copy could be made before that, or
  if it never gets one. `FreshInv` says that what a copy under visit will be declared as is declared by no function yet. It comes from
  `ComparedInv`, by which every overload that was tried does not take the arguments, while a copy made of these arguments
  would (`MatchPassed`); without literals a failed attempt leaves the arguments alone. That the copies on the stack are not copies of each other is
  `LevelInv`: the level descends with every call, which is what `NoCircle` is for. A copy that is done and has no type stays so
  (`Decided` in `PlacedInv`: its returns are all known and do not go together), and then the file is not accepted. `OneInv`, of two typed copies, is the
  property up to the acceptance.
- **Acceptance.** `AcceptedExactly` compares two ways to the same results, the walks and the rounds. What both speak of is the text, which
  casts, literals and callees do not change (`SourceStays`), and a call with a type calls what the text names (`TargetInv`:
  its arguments are as written, or a literal an attempt of the same name has coerced, until it has its callee, and those cast for the callee from then on), so every
  type in the tree is what the text says by the results so far (`SaysInv`). What is accepted is well typed because no result can rest on
  itself: among any typed functions one returns something written or a call that leads out (`GroundInv`), so that a round
  which does not have all results yet finds another (`RoundsGoOn`), and there are as many rounds as functions (`ResultsComplete`, by counting).
  What is well typed is accepted because the `n`-th walk is not behind the `n`-th round (`ProgInv`): a function it passes
  has behind it every statement whose type could be known (`SeenInv`), no result is another than the rounds' (`AgreeInv`), and so the last
  walk finds all typed, every call among the overloads, and nothing to report (`ErrorInv`). Both use that `Rounds` is what its definition says
  (`RoundsExist`), by a least counterexample.
- **Scopes.** A name is looked up in scopes that fill while the walks go on, the promise speaks of the text. The invariant says
  what the scopes hold: a symbol stands for a declaration the walks have passed (`SymbolsInv`), the first of its name
  (`FirstDeclares`); an item that has been passed has declared its names (`DeclaredInv`) unless it waits for a type, and then
  its names are nowhere else (`NotHad`); a module's imports are those passed, in order (`ImportsInv`). At the item that is being
  visited, search and text are compared scope by scope (`Answers`), and what has been found is found again from any later state
  (`FoundStays`, `BoundInv`). `FirstDeclares` needs that a loop or an unpacking that others share names with is typed at
  its first visit, before they come: by `TypedInv` what a `Ready` item mentions is already there (`ReadyHasTypes`).
  `Path` and `Ready` are recursive functions over the items of a program; that they are what their definitions say
  (`PathExists`, `ReadyExists`) is shown by a least counterexample, for which the well-foundedness of the numbers suffices.
- **Conditions.** A jump to the right operand of an operator is given to comparisons far below its left operand, by one walk,
  and the label is emitted by another. `WayOut` says which labels a comparison may get: an arm, or the right operand of an operator on
  whose left side it stands, at which the label was asked for. `StackInv` says that this operand still waits behind the
  comparison when the comparison is generated, and `CodeInv` that a label asked for is emitted when its node is, once, and
  not before a comparison that may jump to it. No recursion over the tree is needed: `Under`, a node below another, is a fact about paths.
- **Numeric for.** `VisitsInside` at the body needs to know which test control came through: `LabelsInv` ties the label to
  the direction and the step, `InsideInv` bounds `elem` at every label, `CountInv` relates it to the number of
  iterations. `NoWrap` shows that a step that fits does not wrap.
- **Frames.** The body may store anything in its own slots, and the epilogue reads the saved registers from memory. So
  the invariant has to say that the cells of the return address, rbp and the temporaries are where the epilogue will look
  (`SavedInv`), that locals lie below them and the arguments' homes above (`PlacedInv`, `PointerInv`), and with it that
  no store of prologue or body overlaps them (`SavedKept`); then the pops undo the pushes (`CounterInv`, `RegisterInv`).
- **Heap.** An allocation may pass the end of its mapping, so disjoint mappings are not enough. `LiveInv` says that every
  allocation is in the filled part of a block, which begins behind a header and is shorter than the mapping; it therefore ends
  before the header of any block behind it does, and allocations of that block begin there (`ApartInBlocks`). The
  same argument makes the ranges in which `free` looks disjoint (`HeldOnce`), so that the block it finds is the one that
  counted the allocation, and a block with count 1 holds nothing else (`FreeBlockKeeps`).

**Model-checked only.** Liveness (`Ends`, `ForEnds`, `KeepsGoing`) is out of the prover's reach.
So are properties of `RECURSIVE` operators (`FollowsSource`, `ComputesSource`, `OperandsHold`, everything of `Parser`, whose rules are
recursive), and with them the refinements `ImplementsSource` and `ImplementsFrame`: an arm that `BoolJump` reaches is a value of the
tree, defined by recursion over it. The induction theorems of the library are no way out, for they take an operator; an argument by
least counterexample, as in `Scopes`, works for a recursive function of a number only. Where the arrays of a
program are not whole `ImplementsNamespace` can fail: behind a `[3]int32` (12 and 16) the loop of the compiler and the textbook layout
differ. In the run 170 of the 256,281 states have such an array, and no field beside it.

One property could be proved and is not yet. `ErrorsExact` of `Scopes` has to count how many subpasses it takes until all
that can be typed is (an argument by least counterexample over the subpasses, as for `AcceptedExactly`), and that `MaxSubpass` is enough for the
program; for every program it also needs more conditions than the programs of the run do: no unpacking assigns to a name whose own declaration
never gets a type, and no `let` repeats names that an earlier file declares.

## 7. What is not modelled

- *Types*: enums, tuples, slices, function pointers, pure types and type constructors; a tuple's layout is that of a
  structure.
- *Scopes*: functions as symbols, constants, type constructors, the rest pattern of an unpacking, `import` inside functions.
- *Functions*: constant arguments, types built by constructors, external functions, function pointers, overload
  selectors (`f\T`), functions as values, functions of other modules; mangled names are modelled as the lists of types
  they are written from (`Signature`).
- *Lexer*: the characters of names, numbers, strings and comments; `asm % {` without its end swallows the rest of the
  file (`lexer.cc:77`) and is not among the tokens of the run.
- *Constants, types of operators, desugaring, the arenas, driver*: see the plan. What was found while reading them is in the
  hazards as far as it touches modelled code.
- *Statements*: inline assembly; values and control flow are in different models, so that defers inside loops and
  conditionals make calls without arguments.
- *Expressions*: fields and aggregates, casts, comparisons as values, copies, data; every integer has one size. Shifts
  are left out because they never push a result and the compiler dies at the next pop (`codegen_x64.cc:1031`).
- *Standard library*: `memcopy` and `memset`, the arena, slices, strings and io; of `sys::alloc` the Windows version.
- *Assembler text, pretty printer, header files*: formatting, with little state.
- *Windows*: its calling convention differs in the number of argument registers (`ArgRegs`) and is otherwise not
  modelled; `systemlib` wraps the Windows API.
