---------------------------- MODULE ScopedProgram ----------------------------
(***************************************************************************)
(* The text of a program as far as names go, and what a name means by it.  *)
(*                                                                         *)
(* A program is a sequence of items in the order of its files, a module's  *)
(* files one after the other.  Scopes are numbered: a function, a loop or  *)
(* a block has the number of its item, module m has -m, and what the       *)
(* language declares itself is in scope 0.                                 *)
(***************************************************************************)
EXTENDS Integers, Sequences

CONSTANTS Names,        \* the names the programs declare and use
          Builtins      \* those of them the language declares

(* A use is a name, on its own (of = Bare) or behind an import's name.     *)
Bare == ""

Use == [of : STRING, name : Names]

(* names are what an item declares, uses what its value or range mentions. *)
(* A "use" is a statement that reads variables, a "typename" one that      *)
(* mentions types; an import has the module it names and an alias, or Bare.*)
Item == [ kind   : {"import", "func", "block", "for", "let", "type", "use", "typename"},
          module : Nat, file : Nat,
          scope  : Int,         \* the scope the item stands in
          names  : Seq(Names), uses : Seq(Use),
          from   : Nat, alias : STRING ]

ASSUME BuiltinsAssumption == Builtins \subseteq Names

Module(m) == -m
IsModule(s) == s < 0
ModuleName(m) == <<"m1", "m2", "m3", "m4">>[m]

Members(s) == {s[k] : k \in DOMAIN s}
FirstOf(S) == {k \in S : \A j \in S : k <= j}
LastOf(S)  == {k \in S : \A j \in S : k >= j}

(* The scope an item declares its names in.                                *)
DeclaresIn(p, i) == IF p[i].kind \in {"func", "for"} THEN i ELSE p[i].scope

Declares(p, i, s, n) == DeclaresIn(p, i) = s /\ n \in Members(p[i].names)

(* What the parser makes: scopes stand in their module and begin before    *)
(* what is in them, only declarations have names, the files of a module    *)
(* follow one another.                                                     *)
Enclosed(p, i) ==
  LET s == p[i].scope
  IN  \/ s = Module(p[i].module)
      \/ s \in 1 .. i - 1 /\ p[s].module = p[i].module

WellFormed(p) ==
  /\ \A i \in DOMAIN p :
       /\ p[i].module > 0 /\ Enclosed(p, i)
       /\ p[i].kind = "let" => Len(p[i].names) > 0
       /\ p[i].kind = "import" => p[i].from > 0
       /\ p[i].kind \in {"import", "block", "use", "typename"} => p[i].names = <<>>
  /\ \A i, j \in DOMAIN p :
       /\ i < j => p[i].file <= p[j].file
       /\ p[i].file = p[j].file => p[i].module = p[j].module
  /\ \A i, j, k \in DOMAIN p :
       i < j /\ j < k /\ p[i].module = p[k].module => p[j].module = p[i].module

(* The scopes around an item, the innermost first.                         *)
Path(p, i) ==
  LET path[j \in DOMAIN p] ==
        <<p[j].scope>> \o (IF p[j].scope > 0 THEN path[p[j].scope] ELSE <<0>>)
  IN  path[i]

-----------------------------------------------------------------------------
(* What a use means: the declaration in the innermost scope that has one.  *)
(* In a function what stands before the use counts; in a module the order  *)
(* does not matter, and the first import that has the name comes next.     *)

(* What an import is called where a use is qualified by it.                *)
Key(imp) == IF imp.alias = Bare THEN ModuleName(imp.from) ELSE imp.alias

Imports(p, m) == {i \in DOMAIN p : p[i].kind = "import" /\ p[i].module = m}

InModule(p, m, n) == \E i \in DOMAIN p : Declares(p, i, Module(m), n)

(* The imports of m that have the name u.                                  *)
Having(p, m, u) == {k \in Imports(p, m) : InModule(p, p[k].from, u.name)}

ModuleMeaning(p, m, u) ==
  LET answering == IF u.of = Bare THEN FirstOf({k \in Having(p, m, u) : p[k].alias = Bare})
                   ELSE LastOf({k \in Imports(p, m) : Key(p[k]) = u.of}) \cap Having(p, m, u)
  IN  IF u.of = Bare /\ InModule(p, m, u.name) THEN {Module(m)}
      ELSE {Module(p[k].from) : k \in answering}

DeclaredBefore(p, s, i, n) == \E j \in 1 .. i - 1 : Declares(p, j, s, n)

MeaningIn(p, s, i, u) ==
  IF IsModule(s) THEN ModuleMeaning(p, -s, u)
  ELSE IF /\ u.of = Bare
          /\ \/ s = 0 /\ u.name \in Builtins
             \/ s > 0 /\ DeclaredBefore(p, s, i, u.name)
       THEN {s} ELSE {}

(* {the scope of the declaration}, or {}.                                  *)
Meaning(p, i, u) ==
  LET path == Path(p, i)
      hits == {k \in DOMAIN path : MeaningIn(p, path[k], i, u) # {}}
  IN  UNION {MeaningIn(p, path[k], i, u) : k \in FirstOf(hits)}

-----------------------------------------------------------------------------
(* Which declarations and uses are in order.                               *)

(* The item a scope has a name from: the first that declares it.           *)
Owner(p, s, n) == CHOOSE i \in DOMAIN p :
                    Declares(p, i, s, n) /\ \A j \in 1 .. i - 1 : ~Declares(p, j, s, n)

(* A declaration brings a new name.                                        *)
Redeclares(p, i) ==
  /\ p[i].kind \in {"let", "type"}
  /\ \A n \in Members(p[i].names) :
       \E j \in 1 .. i - 1 : Declares(p, j, p[i].scope, n)

(* The variables that have a type when nothing is asked about a chain of   *)
(* more than `depth' declarations.                                         *)
TypedWithin(p, depth) ==
  LET Follows(typed) ==
        {i \in DOMAIN p :
           /\ p[i].kind # "typename" /\ ~Redeclares(p, i)
           /\ \A u \in Members(p[i].uses) :
                \E s \in Meaning(p, i, u) : Owner(p, s, u.name) \in typed}
      typed[d \in 0 .. depth] == IF d = 0 THEN {} ELSE Follows(typed[d - 1])
  IN  typed[depth]

BadImports(p) ==
  {i \in DOMAIN p : /\ p[i].kind = "import"
                    /\ \/ p[i].from = p[i].module
                       \/ \A j \in DOMAIN p : p[j].module # p[i].from}

BadItems(p) ==
  LET typed == TypedWithin(p, Len(p))
  IN  {i \in DOMAIN p :
         IF p[i].kind = "typename"
         THEN \E u \in Members(p[i].uses) : Meaning(p, i, u) = {}
         ELSE i \notin typed}

(* The items with something to complain of.                                *)
Wrong(p) == IF BadImports(p) # {} THEN BadImports(p) ELSE BadItems(p)
=============================================================================
