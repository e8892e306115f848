------------------------------ MODULE TypeDecls ------------------------------
(***************************************************************************)
(* Resolution of type declarations: how carbonc turns the type             *)
(* declarations of a program, in any order, into sized types.              *)
(*                                                                         *)
(* The compiler has no dependency graph.  It walks the declarations in     *)
(* source order again and again (process_code_unit, resolve_and_check):    *)
(*                                                                         *)
(*   register   each source file (unit) twice, as soon as it is parsed;    *)
(*   resolve    all units, until a subpass leaves nothing unresolved, at   *)
(*              most MaxSubpass times;                                     *)
(*   checks     all units once more, now reporting errors.                 *)
(*                                                                         *)
(* A visit does what it can with the types it finds and caches it.  What   *)
(* makes this delicate: a declaration can be found by name before it has a *)
(* size, a visit resets the size of the declaration it visits, array types *)
(* and sizeof copy the size they see, and a layout divides by alignments.  *)
(*                                                                         *)
(* Each visit is one step, but for the layout of a structure, which is the *)
(* loop of StructLayout.  The units are the files of one module: they      *)
(* share its scope.                                                        *)
(***************************************************************************)
EXTENDS StructLayout

CONSTANTS
  Builtins,      \* names of the builtin scope
  BuiltinType,   \* their sizes and alignments
  CInt,          \* int32, the type of a C field whose type is not found
  Names,         \* names declared or mentioned by the programs
  Programs,      \* the programs to compile
  MaxSubpass     \* 100 in resolve_and_check

(* A type expression: the name itself, a pointer to it, or a static array  *)
(* of len of it.                                                           *)
TypeExpr ==
  [ctor : {"name", "ptr", "array"}, name : Names \cup Builtins, len : Nat]

(* A node of the program: `type N = struct {...}', `type N = expr', a C    *)
(* structure of an extern(C) block, or a use of sizeof(expr) in a function *)
(* body.  body holds the field types, or the one expression.               *)
Decl == [ kind : {"struct", "named", "cstruct", "use"},
          name : Names, unit : Nat, body : Seq(TypeExpr) ]

(* sizeof and alignof of the C++ type; opaque types have neither.          *)
GoodBuiltin(t) ==
  IF t.alignment = 0 THEN t.size = 0
  ELSE t.alignment \in {1, 2, 4, 8, 16} /\ t.size % t.alignment = 0

ASSUME ConstantsAssumption ==
  /\ Names \cap Builtins = {}
  /\ Builtins \cap Nat = {}
  /\ CInt \in Builtins
  /\ BuiltinType \in [Builtins -> FieldType]
  /\ \A b \in Builtins : GoodBuiltin(BuiltinType[b])
  /\ Programs \subseteq Seq(Decl)
  /\ \A p \in Programs : Len(p) > 0
  /\ \A p \in Programs : \A i \in DOMAIN p :
       Len(p[i].body) > 0 /\ (p[i].kind \in {"named", "use"} => Len(p[i].body) = 1)
  /\ MaxSubpass \in Nat \ {0}

VARIABLES
  prog,         \* the declarations, in source order
  phase,        \* ts.pass
  sub,          \* ts.subpass
  start, at,    \* first declaration of the unit; declaration being visited
  symbols,      \* module scope: name |-> declaration, 0 if not declared
  node,         \* per declaration: what its node holds
  fieldType,    \* per declaration and field: the cached type of the field
  structure,    \* per declaration: the layout of its structure
  folded,       \* per use: the literal sizeof was replaced by
  unresolved,   \* ts.unresolved_types
  errors        \* declarations an error was reported for

position == <<phase, sub, start, at>>
vars == <<prog, position, symbols, node, fieldType, structure, folded,
          unresolved, errors, lay>>

-----------------------------------------------------------------------------
(* Types.  A type id names a definition (ref).  Array types are interned   *)
(* by value, so that their id is the value: the element type, and the size *)
(* and alignment it had when the id was made (snap).                       *)

Unsized == [size |-> 0, alignment |-> 0]

TypeId == [ ctor : {"none", "name", "ptr", "array", "struct"},
            ref  : Builtins \cup Nat, len : Nat, snap : FieldType ]

NoType == [ctor |-> "none", ref |-> 0, len |-> 0, snap |-> Unsized]

StructType(i) == [ctor |-> "struct", ref |-> i, len |-> 0, snap |-> Unsized]

NotFolded == -1

NewNode == [ self |-> FALSE, size |-> 0, alignment |-> 0, opaque |-> FALSE,
             tid |-> NoType ]

(* find_symbol: the module scope, then the builtin scope.                  *)
Found(name, syms) == name \in Builtins \/ syms[name] # 0
Lookup(name, syms) == IF name \in Builtins THEN name ELSE syms[name]

(* Size and alignment of a definition, given the nodes.                    *)
DefOf(ref, nodes) ==
  IF ref \in Builtins THEN BuiltinType[ref]
  ELSE [size |-> nodes[ref].size, alignment |-> nodes[ref].alignment]

(* The array constructor: the elements' alignment, but 16 over 8 bytes.    *)
ArrayDef(len, elem) ==
  [ size      |-> len * elem.size,
    alignment |-> IF len * elem.size > 8 THEN 16 ELSE elem.alignment ]

(* type_id::get(), as far as sizes go.                                     *)
Get(t, nodes) ==
  CASE t.ctor = "name"   -> DefOf(t.ref, nodes)
    [] t.ctor = "array"  -> ArrayDef(t.len, t.snap)
    [] t.ctor = "ptr"    -> [size |-> 8, alignment |-> 8]
    [] t.ctor = "struct" -> [ size      |-> structure[t.ref].size,
                              alignment |-> structure[t.ref].alignment ]
    [] OTHER             -> Unsized

MakeType(e, ref, nodes) ==
  [ ctor |-> e.ctor, ref |-> ref, len |-> e.len,
    snap |-> IF e.ctor = "array" THEN DefOf(ref, nodes) ELSE Unsized ]

(* get_type_expr_node_type: NoType if the name is not declared yet.        *)
Resolve(e, syms, nodes) ==
  IF Found(e.name, syms) THEN MakeType(e, Lookup(e.name, syms), nodes) ELSE NoType

(* The type of a C field: a name that is not found leaves the int default. *)
ResolveC(e, syms, nodes) ==
  MakeType(e, IF Found(e.name, syms) THEN Lookup(e.name, syms) ELSE CInt, nodes)

-----------------------------------------------------------------------------
(* The walk over the declarations.                                         *)

Checking == phase = "checks"
Busy == lay.status # "idle"
Last == Len(prog)
EndOfUnit == at < Last => prog[at + 1].unit # prog[at].unit

Goto(p, s, first, i) == phase' = p /\ sub' = s /\ start' = first /\ at' = i

(* From one declaration to the next; un is ts.unresolved_types after the   *)
(* visit that ends.                                                        *)
NextOfUnit(un) ==
  /\ phase = "register" /\ ~EndOfUnit
  /\ Goto("register", sub, start, at + 1)
  /\ unresolved' = un

RepeatUnit(un) ==
  /\ phase = "register" /\ EndOfUnit /\ sub = 0
  /\ Goto("register", 1, start, start)
  /\ unresolved' = un

NextUnit(un) ==
  /\ phase = "register" /\ EndOfUnit /\ sub = 1 /\ at < Last
  /\ Goto("register", 0, at + 1, at + 1)
  /\ unresolved' = un

StartResolve ==
  /\ phase = "register" /\ sub = 1 /\ at = Last
  /\ Goto("resolve", 0, 1, 1)
  /\ unresolved' = FALSE

NextInPass(un) ==
  /\ phase \in {"resolve", "checks"} /\ at < Last
  /\ Goto(phase, sub, 1, at + 1)
  /\ unresolved' = un

(* Mutants: no bound on the subpasses; the subpass is not counted.         *)
ResolveUnbounded(un) ==
  /\ phase = "resolve" /\ at = Last
  /\ un
  /\ Goto("resolve", sub + 1, 1, 1)
  /\ unresolved' = FALSE

ResolveUncounted(un) ==
  /\ phase = "resolve" /\ at = Last
  /\ un /\ sub + 1 < MaxSubpass
  /\ Goto("resolve", sub, 1, 1)
  /\ unresolved' = FALSE

ResolveAgain(un) ==
  /\ phase = "resolve" /\ at = Last
  /\ un /\ sub + 1 < MaxSubpass
  /\ Goto("resolve", sub + 1, 1, 1)
  /\ unresolved' = FALSE

StartChecks(un) ==
  /\ phase = "resolve" /\ at = Last
  /\ ~un \/ sub + 1 = MaxSubpass
  /\ Goto("checks", 0, 1, 1)
  /\ unresolved' = un

Finish(un) ==
  /\ phase = "checks" /\ at = Last
  /\ Goto("done", 0, 1, 1)
  /\ unresolved' = un

Advance(un) ==
  \/ NextOfUnit(un) \/ RepeatUnit(un) \/ NextUnit(un) \/ StartResolve
  \/ NextInPass(un) \/ ResolveAgain(un) \/ StartChecks(un) \/ Finish(un)

(* The end of a visit; bad: a name was not found (or declared twice).      *)
Leave(un) == Advance(unresolved \/ un)

(* Mutant: errors of the earlier passes are kept.                          *)
ReportEarly(bad) == errors' = IF bad THEN errors \cup {at} ELSE errors

Report(bad) == errors' = IF bad /\ Checking THEN errors \cup {at} ELSE errors

-----------------------------------------------------------------------------
(* A visit to a type declaration.                                          *)

d == prog[at]
Visiting(kind) == phase # "done" /\ ~Busy /\ d.kind = kind

(* What every visit starts with: the size is reset, and at the first visit *)
(* the name is declared, unless the scope already has it.                  *)

Registers == node[at].self \/ symbols[d.name] = 0
Symbols == IF node[at].self THEN symbols ELSE [symbols EXCEPT ![d.name] = at]
Opened == [node EXCEPT ![at].size = 0, ![at].opaque = TRUE]
Nodes == [Opened EXCEPT ![at].self = TRUE]

(* node.tdef = type.get(), the declaration's own copy of the definition.   *)
Copied(t, def) ==
  [ self |-> TRUE, size |-> def.size, alignment |-> def.alignment,
    opaque |-> FALSE, tid |-> t ]

(* `cannot re-declare type': the node is left without a definition.        *)
Redeclare ==
  /\ \E kind \in {"struct", "named", "cstruct"} : Visiting(kind)
  /\ ~Registers
  /\ node' = Opened
  /\ Report(TRUE)
  /\ Leave(FALSE)
  /\ UNCHANGED <<prog, symbols, fieldType, structure, folded, lay>>

(* type N = expr.  The expression is looked up once, but for the checks    *)
(* pass; what it denotes now is copied at every visit.                     *)
VisitNamed ==
  /\ Visiting("named") /\ Registers
  /\ LET t == IF node[at].tid # NoType /\ ~Checking THEN node[at].tid
              ELSE Resolve(d.body[1], Symbols, Nodes)
     IN  /\ node' = [Nodes EXCEPT ![at] =
                       IF t = NoType THEN [@ EXCEPT !.tid = NoType]
                       ELSE Copied(t, Get(t, Nodes))]
         /\ Report(t = NoType)
         /\ Leave(t = NoType)
  /\ symbols' = Symbols
  /\ UNCHANGED <<prog, fieldType, structure, folded, lay>>

(* The field types of a structure, each looked up until it is found, and   *)
(* once more in the checks pass.                                           *)
FieldTypes ==
  [ k \in DOMAIN d.body |->
      IF fieldType[at][k] # NoType /\ ~Checking THEN fieldType[at][k]
      ELSE Resolve(d.body[k], Symbols, Nodes) ]

Missing == \E k \in DOMAIN d.body : FieldTypes[k] = NoType

(* What the layout reads of the fields.                                    *)
Sizes(types) == [ k \in DOMAIN types |-> Get(types[k], Nodes) ]

(* A structure that has its layout keeps it.                               *)
VisitKnownStruct ==
  /\ Visiting("struct") /\ Registers
  /\ node[at].tid # NoType
  /\ node' = [Nodes EXCEPT ![at] = Copied(node[at].tid, Get(node[at].tid, Nodes))]
  /\ fieldType' = IF Checking THEN [fieldType EXCEPT ![at] = FieldTypes]
                  ELSE fieldType
  /\ Report(Missing)
  /\ Leave(Checking /\ Missing)
  /\ UNCHANGED <<prog, symbols, structure, folded, lay>>

(* A field type is not found: to be tried again at the next visit.         *)
VisitIncompleteStruct ==
  /\ Visiting("struct") /\ Registers
  /\ node[at].tid = NoType
  /\ Missing
  /\ node' = Nodes
  /\ symbols' = Symbols
  /\ fieldType' = [fieldType EXCEPT ![at] = FieldTypes]
  /\ Report(TRUE)
  /\ Leave(TRUE)
  /\ UNCHANGED <<prog, structure, folded, lay>>

(* All field types are found, sized or not: the layout begins.             *)
OpenStruct ==
  /\ Visiting("struct") /\ Registers
  /\ node[at].tid = NoType
  /\ ~Missing
  /\ node' = Nodes
  /\ symbols' = Symbols
  /\ fieldType' = [fieldType EXCEPT ![at] = FieldTypes]
  /\ BeginLayout(Sizes(FieldTypes), FALSE)
  /\ UNCHANGED <<prog, position, structure, folded, unresolved, errors>>

(* A C structure is laid out at every visit; its fields are looked up once *)
(* and always have a type.                                                 *)
(* Mutant: the type of a C field is looked up at every visit.              *)
CFieldTypesUncached ==
  [k \in DOMAIN d.body |-> ResolveC(d.body[k], Symbols, Nodes)]

CFieldTypes ==
  [ k \in DOMAIN d.body |->
      IF fieldType[at][k] # NoType THEN fieldType[at][k]
      ELSE ResolveC(d.body[k], Symbols, Nodes) ]

OpenCStruct ==
  /\ Visiting("cstruct") /\ Registers
  /\ node' = Nodes
  /\ symbols' = Symbols
  /\ fieldType' = [fieldType EXCEPT ![at] = CFieldTypes]
  /\ BeginLayout(Sizes(CFieldTypes), TRUE)
  /\ UNCHANGED <<prog, position, structure, folded, unresolved, errors>>

(* The layout's loop, and its two ends.                                    *)
PlaceStructField ==
  /\ PlaceField
  /\ UNCHANGED <<prog, position, symbols, node, fieldType, structure, folded,
                 unresolved, errors>>

DieInLayout ==
  /\ DivideByZero
  /\ UNCHANGED <<prog, position, symbols, node, fieldType, structure, folded,
                 unresolved, errors>>

(* Mutant: the declaration does not copy the definition of its structure.  *)
CloseUncopied ==
  /\ CloseLayout
  /\ structure' = [structure EXCEPT ![at] = lay']
  /\ node' = [node EXCEPT ![at].tid =
                 IF d.kind = "struct" THEN StructType(at) ELSE NoType]
  /\ Leave(FALSE)
  /\ UNCHANGED <<prog, symbols, fieldType, folded, errors>>

CloseStruct ==
  /\ CloseLayout
  /\ structure' = [structure EXCEPT ![at] = lay']
  /\ node' = [node EXCEPT ![at] =
                Copied(IF d.kind = "struct" THEN StructType(at) ELSE NoType, lay')]
  /\ Leave(FALSE)
  /\ UNCHANGED <<prog, symbols, fieldType, folded, errors>>

(* sizeof(expr) becomes a literal as soon as expr has a type id.           *)
VisitUse ==
  /\ Visiting("use")
  /\ LET t == Resolve(d.body[1], symbols, node)
         pending == folded[at] = NotFolded
     IN  /\ folded' = IF pending /\ t # NoType
                      THEN [folded EXCEPT ![at] = Get(t, node).size]
                      ELSE folded
         /\ Report(pending /\ t = NoType)
         /\ Leave(pending /\ t = NoType)
  /\ UNCHANGED <<prog, symbols, node, fieldType, structure, lay>>

-----------------------------------------------------------------------------
Init ==
  /\ prog \in Programs
  /\ phase = "register" /\ sub = 0 /\ start = 1 /\ at = 1
  /\ symbols = [n \in Names |-> 0]
  /\ node = [i \in DOMAIN prog |-> NewNode]
  /\ fieldType = [i \in DOMAIN prog |-> [k \in DOMAIN prog[i].body |-> NoType]]
  /\ structure = [i \in DOMAIN prog |-> NoLayout]
  /\ folded = [i \in DOMAIN prog |-> NotFolded]
  /\ unresolved = FALSE
  /\ errors = {}
  /\ lay = NoLayout

Next ==
  \/ Redeclare \/ VisitNamed
  \/ VisitKnownStruct \/ VisitIncompleteStruct \/ OpenStruct \/ OpenCStruct
  \/ PlaceStructField \/ DieInLayout \/ CloseStruct
  \/ VisitUse

(* The compiler is one sequential process: it takes its next step.         *)
Spec == Init /\ [][Next]_vars /\ WF_vars(Next)
=============================================================================
