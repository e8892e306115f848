---------------------------- MODULE TypeDeclsSpec ----------------------------
(***************************************************************************)
(* What the resolution of type declarations must guarantee.                *)
(***************************************************************************)
EXTENDS TypeDecls

Done == phase = "done"
Crashed == lay.status = "crashed"

TypeOK ==
  /\ prog \in Seq(Decl)
  /\ phase \in {"register", "resolve", "checks", "done"}
  /\ sub \in 0 .. MaxSubpass
  /\ start \in DOMAIN prog /\ at \in DOMAIN prog
  /\ symbols \in [Names -> {0} \cup DOMAIN prog]
  /\ node \in [DOMAIN prog -> [ self : BOOLEAN, size : Nat, alignment : Nat,
                                opaque : BOOLEAN, tid : TypeId ]]
  /\ \A i \in DOMAIN prog : fieldType[i] \in [DOMAIN prog[i].body -> TypeId]
  /\ structure \in [DOMAIN prog -> LayoutType]
  /\ folded \in [DOMAIN prog -> Nat \cup {NotFolded}]
  /\ unresolved \in BOOLEAN
  /\ errors \subseteq DOMAIN prog
  /\ lay \in LayoutType

-----------------------------------------------------------------------------
(* Sizes.                                                                  *)

IsStruct(i) == prog[i].kind \in {"struct", "cstruct"}

LaidOutStruct(i) == IsStruct(i) /\ structure[i].alignment # 0

(* A layout is never computed from a size that is not final: what the      *)
(* fields of a structure measure now is what they measured when its        *)
(* offsets were computed.  Nothing recomputes the offsets of a structure.  *)
LaidOutFromFinalSizes ==
  ~Busy => \A i \in DOMAIN prog :
             LaidOutStruct(i) =>
               structure[i].fields = [ k \in DOMAIN fieldType[i] |->
                                         Get(fieldType[i][k], node) ]

(* The declaration's size, as the other declarations read it.              *)
SizeOf(i) == [size |-> node[i].size, alignment |-> node[i].alignment]

(* A declaration that has its size keeps it, though every visit resets the *)
(* size and computes it again: a sizeof folded, an offset computed or an   *)
(* array type interned in between would be stale.                          *)
SizedForGood ==
  [][ \A i \in DOMAIN prog :
        (~Busy /\ ~Busy' /\ node[i].alignment # 0) => (SizeOf(i)' = SizeOf(i))
    ]_vars

(* The types of the abstract specification: a structure is as large as its *)
(* layout says, any other declaration as large as its own copy says.       *)
Known == [ i \in DOMAIN prog |->
             IF IsStruct(i)
             THEN [size |-> structure[i].size, alignment |-> structure[i].alignment]
             ELSE SizeOf(i) ]

Namespace == INSTANCE TypeNamespace WITH
               decls <- prog, owner <- symbols, known <- Known

(* The walk implements the namespace: one declaration per name, one size   *)
(* per declaration, computed from known sizes as the textbook does.        *)
ImplementsNamespace == Namespace!Spec

-----------------------------------------------------------------------------
(* Errors.                                                                 *)

Declares(i) == prog[i].kind # "use"

Duplicate(i) == Declares(i) /\ \E j \in 1 .. i - 1 :
                                 Declares(j) /\ prog[j].name = prog[i].name

Declared(name) == name \in Builtins
                    \/ \E i \in DOMAIN prog : Declares(i) /\ prog[i].name = name

Mentions(i) == {prog[i].body[k].name : k \in DOMAIN prog[i].body}

(* A type is not found only if it is not declared; in a C structure it is  *)
(* int then.                                                               *)
Wrong(i) ==
  Duplicate(i) \/ (prog[i].kind # "cstruct" /\ ~ \A n \in Mentions(i) : Declared(n))

(* The checks pass, which visits everything once more, reports exactly the *)
(* declarations that are wrong: no failed lookup of an earlier pass stays  *)
(* unreported, and no error of an earlier pass is still reported once the  *)
(* name is declared further down.                                          *)
ErrorsExact == Done => errors = {i \in DOMAIN prog : Wrong(i)}

-----------------------------------------------------------------------------
(* Order.                                                                  *)

(* Every name is declared, once.                                           *)
Right == \A i \in DOMAIN prog :
           ~Duplicate(i) /\ \A n \in Mentions(i) : Declared(n)

DeclaredBefore(i, name) ==
  name \in Builtins \/ \E j \in 1 .. i - 1 : Declares(j) /\ prog[j].name = name

(* Every type is declared before it is mentioned, but for the pointer to   *)
(* itself of a list node.  A pointer to a later type counts: it delays the *)
(* declaration that has it, and with it those that contain that one.       *)
DefinedBeforeUse ==
  \A i \in DOMAIN prog : \A k \in DOMAIN prog[i].body :
    LET e == prog[i].body[k]
    IN  \/ DeclaredBefore(i, e.name)
        \/ e.ctor = "ptr" /\ Declares(i) /\ e.name = prog[i].name

DeclOf(name) == CHOOSE i \in DOMAIN prog : Declares(i) /\ prog[i].name = name

(* The meaning of the program: the sizes after n rounds of settling every  *)
(* declaration from the sizes of the round before.                         *)
Meaning ==
  LET measure(e, sizes) ==
        LET elem == IF e.name \in Builtins THEN BuiltinType[e.name]
                    ELSE sizes[DeclOf(e.name)]
        IN  CASE e.ctor = "ptr"  -> [size |-> 8, alignment |-> 8]
              [] e.ctor = "name" -> elem
              [] OTHER           -> ArrayDef(e.len, elem)
      settle(i, sizes) ==
        LET fields == [k \in DOMAIN prog[i].body |-> measure(prog[i].body[k], sizes)]
        IN  IF \E k \in DOMAIN fields : fields[k].alignment = 0 THEN Unsized
            ELSE IF IsStruct(i) THEN Namespace!Textbook(fields, prog[i].kind = "cstruct")
            ELSE fields[1]
      round[n \in 0 .. Len(prog)] ==
        [ i \in DOMAIN prog |-> IF n = 0 THEN Unsized ELSE settle(i, round[n - 1]) ]
  IN  round[Len(prog)]

Compiled ==
  /\ errors = {}
  /\ \A i \in DOMAIN prog :
       IF Declares(i) THEN SizeOf(i) = Meaning[i] ELSE folded[i] = Meaning[i].size

(* With every type declared before it is mentioned the passes compile the  *)
(* program: no layout divides by zero, no error is reported, and all sizes *)
(* and all sizeof literals are right.                                      *)
DefineBeforeUse ==
  Right /\ DefinedBeforeUse => /\ ~Crashed
                               /\ Done => Compiled

(* The same for every program that means something, in any order: every    *)
(* declaration has a size.  README.md: "Declaration position               *)
(* independence."                                                          *)
PositionIndependent ==
  Right /\ (\A i \in DOMAIN prog : Meaning[i].alignment # 0) =>
    /\ ~Crashed
    /\ Done => Compiled

-----------------------------------------------------------------------------
(* The compiler terminates on every program, also on one whose lookups     *)
(* never succeed, which leaves something unresolved in every subpass.      *)
Ends == <>(Done \/ Crashed)
=============================================================================
