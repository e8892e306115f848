------------------------------- MODULE Scopes -------------------------------
(***************************************************************************)
(* Scopes, imports and the lookup of names: what carbonc's walks over a    *)
(* program declare, and which declarations they find.                      *)
(*                                                                         *)
(* The walks are those of TypeDecls: each file twice as soon as it is      *)
(* parsed, the imports, all files until nothing is unresolved, all files   *)
(* once more for the errors.  Names are looked up in the state the walk    *)
(* has reached: what the text declares later is not there yet, and a       *)
(* module that comes later does not exist.  A declaration seen again in a  *)
(* later walk is told from a second declaration of the name by the token   *)
(* of the symbol, the walk that last passed its declaration.               *)
(***************************************************************************)
EXTENDS ScopedProgram

CONSTANTS Programs,     \* the programs to compile
          MaxSubpass    \* 100 in resolve_and_check

ASSUME ProgramsAssumption ==
  /\ Programs \subseteq Seq(Item)
  /\ \A p \in Programs : Len(p) > 0 /\ WellFormed(p)
  /\ MaxSubpass \in Nat \ {0}

VARIABLES
  prog,         \* the program
  phase, sub,   \* ts.pass and ts.subpass
  start, at,    \* the first item of the file, the item being visited
  symbols,      \* <<scope, name>> |-> the declaring item and the token
  imports,      \* per module: its import items, in the order they were seen
  bound,        \* per item and use: {the scope of the symbol found}, or {}
  typed,        \* the items whose variables have a type
  unpacked,     \* unpacked items |-> the names they declare, the rest assigned
  unresolved,   \* ts.unresolved_types
  errors        \* items an error was reported for

position == <<phase, sub, start, at>>
vars == <<prog, position, symbols, imports, bound, typed, unpacked, unresolved, errors>>

Last == Len(prog)
Checking == phase = "checks"
EndOfFile == at < Last => prog[at + 1].file # prog[at].file

(* pass_token: the walk going on.                                          *)
token == <<phase, sub>>

-----------------------------------------------------------------------------
(* The walks.                                                              *)

Goto(p, s, first, i) == phase' = p /\ sub' = s /\ start' = first /\ at' = i

(* The end of a visit; un: it leaves something unresolved.                 *)
NextItem(un) ==
  /\ \/ phase = "register" /\ ~EndOfFile
     \/ phase \in {"resolve", "checks"} /\ at < Last
  /\ Goto(phase, sub, start, at + 1)
  /\ unresolved' = (unresolved \/ un)

(* process_code_unit: each file twice.                                     *)
RepeatFile(un) ==
  /\ phase = "register" /\ EndOfFile /\ sub = 0
  /\ Goto("register", 1, start, start)
  /\ unresolved' = (unresolved \/ un)

NextFile(un) ==
  /\ phase = "register" /\ EndOfFile /\ sub = 1
  /\ IF at < Last THEN Goto("register", 0, at + 1, at + 1) ELSE Goto("imports", 0, 1, 1)
  /\ unresolved' = (unresolved \/ un)

ResolveAgain(un) ==
  /\ phase = "resolve" /\ at = Last
  /\ unresolved \/ un
  /\ sub + 1 < MaxSubpass
  /\ Goto("resolve", sub + 1, 1, 1)
  /\ unresolved' = FALSE

StartChecks(un) ==
  /\ phase = "resolve" /\ at = Last
  /\ (unresolved \/ un) => sub + 1 = MaxSubpass
  /\ Goto("checks", 0, 1, 1)
  /\ unresolved' = (unresolved \/ un)

Finish(un) ==
  /\ Checking /\ at = Last
  /\ Goto("done", 0, 1, 1)
  /\ unresolved' = (unresolved \/ un)

Leave(un) ==
  \/ NextItem(un) \/ RepeatFile(un) \/ NextFile(un)
  \/ ResolveAgain(un) \/ StartChecks(un) \/ Finish(un)

(* Errors count in the last walk only.                                     *)
Report(bad) == errors' = IF bad /\ Checking THEN errors \cup {at} ELSE errors

-----------------------------------------------------------------------------
(* find_symbol                                                             *)

Has(s, n) == <<s, n>> \in DOMAIN symbols

(* ts.module_scopes: the modules the driver has come to.                   *)
Exists(m) == \E i \in DOMAIN prog : prog[i].module = m /\ (phase = "register" => i <= at)

From(i) == Module(prog[i].from)

(* The imports whose names need no qualifier.                              *)
Open(m) == {k \in DOMAIN imports[m] : prog[imports[m][k]].alias = Bare}
There(m, k) == Exists(prog[imports[m][k]].from)

(* Mutant: the search skips a module that does not exist yet.              *)
SearchedOn(m) == {k \in Open(m) : There(m, k)}

(* The search ends at the first import whose module does not exist yet.    *)
Searched(m) == {k \in Open(m) : \A j \in Open(m) : j <= k => There(m, j)}

(* imports_map: the last import of that name.                              *)
Called(m, name) == LastOf({k \in DOMAIN imports[m] : Key(prog[imports[m][k]]) = name})

(* The symbol for u in scope s or its imports, if any: {its scope}.        *)
FindIn(s, u) ==
  LET m    == -s
      hits == {k \in IF u.of = Bare THEN Searched(m) ELSE Called(m, u.of) :
                 Has(From(imports[m][k]), u.name)}
  IN  IF u.of = Bare /\ Has(s, u.name) THEN {s}
      ELSE IF IsModule(s) THEN {From(imports[m][k]) : k \in FirstOf(hits)}
      ELSE {}

Find(u) ==
  LET path == Path(prog, at)
      hits == {k \in DOMAIN path : FindIn(path[k], u) # {}}
  IN  UNION {FindIn(path[k], u) : k \in FirstOf(hits)}

-----------------------------------------------------------------------------
(* A visit to an item.                                                     *)

d == prog[at]
Visiting(kind) == phase \notin {"imports", "done"} /\ d.kind = kind

Old(n) == Has(d.scope, n) /\ symbols[d.scope, n].token = token

(* Mutant: nothing is marked.                                              *)
MarkedNot(names) == symbols

(* find_symbol_in_current_scope_thispass marks what it passes.             *)
Marked(names) ==
  [k \in DOMAIN symbols |->
     IF k \in {d.scope} \X names THEN [symbols[k] EXCEPT !.token = token] ELSE symbols[k]]

(* Mutant: the scope gets the name again.                                  *)
DeclaredAnew(syms, s, names) ==
  [k \in DOMAIN syms \cup ({s} \X names) |->
     IF k \in {s} \X names THEN [item |-> at, token |-> token] ELSE syms[k]]

(* declare_*_symbol: a name the scope has is left as it is.                *)
Declared(syms, s, names) ==
  [k \in DOMAIN syms \cup ({s} \X names) |->
     IF k \in DOMAIN syms THEN syms[k] ELSE [item |-> at, token |-> token]]

(* Every use of the item is looked up, and gives it a type or not.         *)
Found == [k \in DOMAIN d.uses |-> Find(d.uses[k])]
HaveTypes ==
  \A k \in DOMAIN d.uses :
    \E s \in Find(d.uses[k]) : symbols[s, d.uses[k].name].item \in typed

(* import: the second walk over a file does not see it again.              *)
VisitImport ==
  /\ Visiting("import")
  /\ imports' = IF token = <<"register", 0>>
                THEN [imports EXCEPT ![d.module] = Append(@, at)] ELSE imports
  /\ Leave(FALSE)
  /\ UNCHANGED <<prog, symbols, bound, typed, unpacked, errors>>

(* A function declares its arguments, which have types, in its scope.      *)
VisitFunc ==
  /\ Visiting("func")
  /\ IF phase = "register"
     THEN /\ symbols' = Declared(symbols, at, Members(d.names))
          /\ typed' = typed \cup {at}
     ELSE UNCHANGED <<symbols, typed>>
  /\ Leave(FALSE)
  /\ UNCHANGED <<prog, imports, bound, unpacked, errors>>

VisitBlock ==
  /\ Visiting("block")
  /\ Leave(FALSE)
  /\ UNCHANGED <<prog, symbols, imports, bound, typed, unpacked, errors>>

(* The element of a numeric for is declared when the range has a type.     *)
(* That visits the new declaration twice, and the last walk complains.     *)
VisitFor ==
  /\ Visiting("for") /\ at \notin typed
  /\ bound' = [bound EXCEPT ![at] = Found]
  /\ IF HaveTypes
     THEN /\ symbols' = Declared(symbols, at, Members(d.names))
          /\ typed' = typed \cup {at}
     ELSE UNCHANGED <<symbols, typed>>
  /\ Report(TRUE)
  /\ Leave(~HaveTypes)
  /\ UNCHANGED <<prog, imports, unpacked>>

VisitMadeFor ==
  /\ Visiting("for") /\ at \in typed
  /\ symbols' = [k \in DOMAIN symbols |->
                   IF k[1] = at /\ k[2] \in Members(d.names)
                   THEN [symbols[k] EXCEPT !.token = token] ELSE symbols[k]]
  /\ Leave(FALSE)
  /\ UNCHANGED <<prog, imports, bound, typed, unpacked, errors>>

(* let: the first name was declared before in this walk.  The value is not *)
(* looked at, and a let that never was has no type.                        *)
VisitRedeclared ==
  /\ Visiting("let") /\ at \notin DOMAIN unpacked
  /\ Old(d.names[1])
  /\ symbols' = Marked(Members(d.names))
  /\ Report(TRUE)
  /\ Leave(at \notin typed)
  /\ UNCHANGED <<prog, imports, bound, typed, unpacked>>

(* A let that is not refused.                                              *)
Visits == Visiting("let") /\ at \notin DOMAIN unpacked /\ ~Old(d.names[1])

(* let x = value                                                           *)
VisitLet ==
  /\ Visits
  /\ Len(d.names) = 1
  /\ bound' = [bound EXCEPT ![at] = Found]
  /\ typed' = IF HaveTypes THEN typed \cup {at} ELSE typed \ {at}
  /\ symbols' = Declared(Marked(Members(d.names)), d.scope, Members(d.names))
  /\ Report(~HaveTypes)
  /\ Leave(~HaveTypes)
  /\ UNCHANGED <<prog, imports, unpacked>>

(* let x, y = value, before the value has a type: nothing is declared.     *)
VisitPacked ==
  /\ Visits
  /\ Len(d.names) > 1 /\ ~HaveTypes
  /\ bound' = [bound EXCEPT ![at] = Found]
  /\ typed' = typed \ {at}
  /\ symbols' = Marked(Members(d.names))
  /\ Report(TRUE)
  /\ Leave(TRUE)
  /\ UNCHANGED <<prog, imports, unpacked>>

New == {n \in Members(d.names) : ~Has(d.scope, n)}

(* A name that is assigned must have a type.                               *)
Assignable(names) ==
  \A n \in names : \E s \in Find([of |-> Bare, name |-> n]) : symbols[s, n].item \in typed

(* generate_unpacking_operations: names the scope has are assigned, the    *)
(* others declared by new nodes, which this walk then visits once more.    *)
Unpack ==
  /\ Visits
  /\ Len(d.names) > 1 /\ HaveTypes
  /\ bound' = [bound EXCEPT ![at] = Found]
  /\ typed' = typed \cup {at}
  /\ symbols' = Declared(Marked(Members(d.names)), d.scope, New)
  /\ unpacked' = [i \in DOMAIN unpacked \cup {at} |-> IF i = at THEN New ELSE unpacked[i]]
  /\ Report(New # {} \/ ~Assignable(Members(d.names) \ New))
  /\ Leave(~Assignable(Members(d.names) \ New))
  /\ UNCHANGED <<prog, imports>>

(* Afterwards the new nodes are visited in its place.                      *)
VisitUnpacked ==
  /\ Visiting("let") /\ at \in DOMAIN unpacked
  /\ bound' = [bound EXCEPT ![at] = Found]
  /\ symbols' = Marked(unpacked[at])
  /\ LET untyped == ~HaveTypes \/ ~Assignable(Members(d.names) \ unpacked[at])
     IN  Report(untyped \/ \E n \in unpacked[at] : Old(n)) /\ Leave(untyped)
  /\ UNCHANGED <<prog, imports, typed, unpacked>>

(* A type declares its name at its first visit.                            *)
VisitType ==
  /\ Visiting("type")
  /\ symbols' = Declared(symbols, d.scope, Members(d.names))
  /\ Report(\E n \in Members(d.names) : symbols'[d.scope, n].item # at)
  /\ Leave(FALSE)
  /\ UNCHANGED <<prog, imports, bound, typed, unpacked>>

VisitUse ==
  /\ Visiting("use")
  /\ bound' = [bound EXCEPT ![at] = Found]
  /\ Report(~HaveTypes)
  /\ Leave(~HaveTypes)
  /\ UNCHANGED <<prog, symbols, imports, typed, unpacked>>

(* A type expression is looked up until it is found, and in the last walk  *)
(* once more.                                                              *)
VisitTypeName ==
  /\ Visiting("typename")
  /\ bound' = [bound EXCEPT ![at] =
                 [k \in DOMAIN d.uses |->
                    IF @[k] # {} /\ ~Checking THEN @[k] ELSE Find(d.uses[k])]]
  /\ LET missing == \E k \in DOMAIN d.uses : bound'[at][k] = {}
     IN  Report(missing) /\ Leave(missing)
  /\ UNCHANGED <<prog, symbols, imports, typed, unpacked>>

(* resolve_imports: a bad import ends the compilation.                     *)
ResolveImports ==
  /\ phase = "imports"
  /\ errors' = UNION {{i \in Members(imports[m]) : prog[i].from = m \/ ~Exists(prog[i].from)} :
                        m \in DOMAIN imports}
  /\ Goto(IF errors' = {} THEN "resolve" ELSE "done", 0, 1, 1)
  /\ unresolved' = FALSE
  /\ UNCHANGED <<prog, symbols, imports, bound, typed, unpacked>>

-----------------------------------------------------------------------------
Init ==
  /\ prog \in Programs
  /\ phase = "register" /\ sub = 0 /\ start = 1 /\ at = 1
  /\ symbols = [k \in {0} \X Builtins |-> [item |-> 0, token |-> token]]
  /\ imports = [m \in {prog[i].module : i \in DOMAIN prog} |-> <<>>]
  /\ bound = [i \in DOMAIN prog |-> [k \in DOMAIN prog[i].uses |-> {}]]
  /\ typed = {}
  /\ unpacked = [i \in {} |-> {}]
  /\ unresolved = FALSE
  /\ errors = {}

Next ==
  \/ VisitImport \/ VisitFunc \/ VisitBlock \/ VisitFor \/ VisitMadeFor
  \/ VisitRedeclared \/ VisitLet \/ VisitPacked \/ Unpack \/ VisitUnpacked
  \/ VisitType \/ VisitUse \/ VisitTypeName \/ ResolveImports

(* The compiler is one sequential process: it takes its next step.         *)
Spec == Init /\ [][Next]_vars /\ WF_vars(Next)
=============================================================================
