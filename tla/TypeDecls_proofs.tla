-------------------------- MODULE TypeDecls_proofs --------------------------
(***************************************************************************)
(* Theorems about the resolution of type declarations, for every set of    *)
(* programs and every bound on the subpasses.                              *)
(***************************************************************************)
EXTENDS TypeDeclsSpec, WellFoundedInduction, TLAPS

-----------------------------------------------------------------------------
(* align() rounds up, by less than one alignment.                          *)
LEMMA AlignUp ==
  ASSUME NEW n \in Nat, NEW a \in Nat \ {0}
  PROVE  /\ Align(n, a) \in Nat
         /\ Align(n, a) >= n
         /\ Align(n, a) < n + a
BY DEF Align

-----------------------------------------------------------------------------
Decls == DOMAIN prog

(* A type id that can be dereferenced: type_id::get() has a definition.    *)
GoodType(t) ==
  /\ t \in TypeId
  /\ t.ctor # "none" => t.ref \in Builtins \cup Decls
  /\ t.ctor = "struct" => t.ref \in Decls

NodeType == [ self : BOOLEAN, size : Nat, alignment : Nat, opaque : BOOLEAN,
              tid : TypeId ]

-----------------------------------------------------------------------------
(* The inductive invariant of type correctness, in parts.                  *)

ProgInv == prog \in Programs

PositionInv ==
  /\ phase \in {"register", "resolve", "checks", "done"}
  /\ sub \in 0 .. MaxSubpass
  /\ start \in Decls /\ at \in Decls
  /\ unresolved \in BOOLEAN
  /\ errors \subseteq Decls

SymbolsInv == symbols \in [Names -> {0} \cup Decls]

NodeInv == node \in [Decls -> NodeType] /\ \A i \in Decls : GoodType(node[i].tid)

FieldInv ==
  /\ DOMAIN fieldType = Decls
  /\ \A i \in Decls : /\ fieldType[i] \in [DOMAIN prog[i].body -> TypeId]
                      /\ \A k \in DOMAIN prog[i].body : GoodType(fieldType[i][k])

StructureInv == structure \in [Decls -> LayoutType]

FoldedInv == folded \in [Decls -> Nat \cup {NotFolded}]

LayInv == lay \in LayoutType /\ lay.maxAlign # 0

TypeInv ==
  /\ ProgInv /\ PositionInv /\ SymbolsInv /\ NodeInv /\ FieldInv
  /\ StructureInv /\ FoldedInv /\ LayInv

-----------------------------------------------------------------------------
LEMMA ProgFacts ==
  ASSUME ProgInv
  PROVE  /\ prog \in Seq(Decl)
         /\ Len(prog) \in Nat \ {0} /\ Decls = 1 .. Len(prog)
         /\ \A i \in Decls : /\ prog[i].kind \in {"struct", "named", "cstruct", "use"}
                             /\ prog[i].name \in Names
                             /\ prog[i].unit \in Nat
                             /\ prog[i].body \in Seq(TypeExpr)
                             /\ 1 \in DOMAIN prog[i].body
<1>1. prog \in Seq(Decl) /\ Len(prog) > 0 /\ \A i \in DOMAIN prog : Len(prog[i].body) > 0
  BY ConstantsAssumption DEF ProgInv
<1>2. Len(prog) \in Nat \ {0} /\ Decls = 1 .. Len(prog)
  BY <1>1 DEF Decls
<1>3. ASSUME NEW i \in Decls
      PROVE  /\ prog[i].kind \in {"struct", "named", "cstruct", "use"}
             /\ prog[i].name \in Names
             /\ prog[i].unit \in Nat
             /\ prog[i].body \in Seq(TypeExpr)
             /\ 1 \in DOMAIN prog[i].body
  <2>1. prog[i] \in Decl  BY <1>1, <1>2
  <2>2. prog[i].body \in Seq(TypeExpr)  BY <2>1 DEF Decl
  <2>3. Len(prog[i].body) > 0  BY <1>1 DEF Decls
  <2>4. Len(prog[i].body) \in Nat /\ DOMAIN prog[i].body = 1 .. Len(prog[i].body)
    BY <2>2
  <2> QED  BY <2>1, <2>2, <2>3, <2>4 DEF Decl
<1> QED  BY <1>1, <1>2, <1>3

(* The declaration being visited.                                          *)
LEMMA VisitFacts ==
  ASSUME TypeInv
  PROVE  /\ at \in Decls
         /\ d.name \in Names
         /\ d.body \in Seq(TypeExpr) /\ 1 \in DOMAIN d.body
         /\ \A k \in DOMAIN d.body : d.body[k] \in TypeExpr
         /\ d = prog[at]
<1>1. at \in Decls  BY DEF TypeInv, PositionInv
<1>2. d.name \in Names /\ d.body \in Seq(TypeExpr) /\ 1 \in DOMAIN d.body
  BY <1>1, ProgFacts DEF TypeInv, d
<1>3. \A k \in DOMAIN d.body : d.body[k] \in TypeExpr
  BY <1>2
<1> QED  BY <1>1, <1>2, <1>3 DEF d

-----------------------------------------------------------------------------
(* What the operators on types return.                                     *)

LEMMA DefOfType ==
  ASSUME NEW ref \in Builtins \cup Decls, NEW nodes \in [Decls -> NodeType]
  PROVE  DefOf(ref, nodes) \in FieldType
<1>1. CASE ref \in Builtins  BY <1>1, ConstantsAssumption DEF DefOf
<1>2. CASE ref \notin Builtins  BY <1>2 DEF DefOf, NodeType, FieldType
<1> QED  BY <1>1, <1>2

LEMMA ArrayDefType ==
  ASSUME NEW len \in Nat, NEW elem \in FieldType
  PROVE  ArrayDef(len, elem) \in FieldType
<1>1. elem.size \in Nat /\ elem.alignment \in Nat  BY DEF FieldType
<1>2. len * elem.size \in Nat  BY <1>1
<1> QED  BY <1>1, <1>2 DEF ArrayDef, FieldType

LEMMA GetType ==
  ASSUME NEW t, GoodType(t), StructureInv, NEW nodes \in [Decls -> NodeType]
  PROVE  Get(t, nodes) \in FieldType
<1>1. t \in TypeId  BY DEF GoodType
<1>2. CASE t.ctor = "none"  BY <1>2 DEF Get, Unsized, FieldType
<1>3. CASE t.ctor = "name"  BY <1>3, DefOfType DEF Get, GoodType
<1>4. CASE t.ctor = "array"
  <2>1. t.len \in Nat /\ t.snap \in FieldType  BY <1>1 DEF TypeId
  <2> QED  BY <1>4, <2>1, ArrayDefType DEF Get
<1>5. CASE t.ctor = "ptr"  BY <1>5 DEF Get, FieldType
<1>6. CASE t.ctor = "struct"
  <2>1. structure[t.ref] \in LayoutType  BY <1>6 DEF GoodType, StructureInv
  <2>2. structure[t.ref].size \in Nat /\ structure[t.ref].alignment \in Nat
    BY <2>1 DEF LayoutType
  <2> QED  BY <1>6, <2>2 DEF Get, FieldType
<1> QED  BY <1>1, <1>2, <1>3, <1>4, <1>5, <1>6 DEF TypeId

LEMMA MakeTypeGood ==
  ASSUME ProgInv, NEW e \in TypeExpr, NEW ref \in Builtins \cup Decls,
         NEW nodes \in [Decls -> NodeType]
  PROVE  GoodType(MakeType(e, ref, nodes))
<1>1. e.ctor \in {"name", "ptr", "array"} /\ e.len \in Nat  BY DEF TypeExpr
<1>2. DefOf(ref, nodes) \in FieldType  BY DefOfType
<1>3. Unsized \in FieldType  BY DEF Unsized, FieldType
<1>4. ref \in Builtins \cup Nat  BY ProgFacts
<1> QED  BY <1>1, <1>2, <1>3, <1>4 DEF MakeType, GoodType, TypeId

LEMMA NoTypeGood == GoodType(NoType)
BY DEF NoType, GoodType, TypeId, Unsized, FieldType

LEMMA StructTypeGood ==
  ASSUME ProgInv, NEW i \in Decls
  PROVE  GoodType(StructType(i))
<1>1. i \in Nat  BY ProgFacts
<1> QED  BY <1>1 DEF StructType, GoodType, TypeId, Unsized, FieldType

LEMMA ResolveGood ==
  ASSUME ProgInv, NEW e \in TypeExpr, NEW syms \in [Names -> {0} \cup Decls],
         NEW nodes \in [Decls -> NodeType]
  PROVE  GoodType(Resolve(e, syms, nodes)) /\ GoodType(ResolveC(e, syms, nodes))
<1>1. e.name \in Names \cup Builtins  BY DEF TypeExpr
<1>2. Found(e.name, syms) => Lookup(e.name, syms) \in Builtins \cup Decls
  BY <1>1 DEF Found, Lookup
<1>3. CInt \in Builtins  BY ConstantsAssumption
<1> QED  BY <1>2, <1>3, MakeTypeGood, NoTypeGood DEF Resolve, ResolveC

-----------------------------------------------------------------------------
(* The parts of a visit.                                                   *)

LEMMA MoveInv ==
  ASSUME TypeInv, NEW un \in BOOLEAN, Leave(un), errors' \subseteq Decls, prog' = prog
  PROVE  PositionInv'
<1>1. /\ sub \in 0 .. MaxSubpass /\ at \in Decls /\ start \in Decls
      /\ unresolved \in BOOLEAN
      /\ phase \in {"register", "resolve", "checks", "done"}
  BY DEF TypeInv, PositionInv
<1>2. MaxSubpass \in Nat \ {0}  BY ConstantsAssumption
<1>3. Decls = 1 .. Len(prog) /\ Len(prog) \in Nat \ {0}  BY ProgFacts DEF TypeInv
<1>4. Decls' = Decls  BY DEF Decls
<1> DEFINE u == unresolved \/ un
<1>5. u \in BOOLEAN  BY <1>1
<1>6. Advance(u)  BY DEF Leave
<1> HIDE DEF u
<1>7. CASE NextOfUnit(u)
  <2>1. at # Len(prog)  BY <1>1, <1>3, <1>7 DEF NextOfUnit, EndOfUnit, Last
  <2> QED  BY <1>1, <1>3, <1>4, <1>5, <1>7, <2>1 DEF NextOfUnit, Goto, PositionInv
<1>8. CASE RepeatUnit(u)
  BY <1>1, <1>2, <1>4, <1>5, <1>8 DEF RepeatUnit, Goto, PositionInv
<1>9. CASE NextUnit(u)
  BY <1>1, <1>2, <1>3, <1>4, <1>5, <1>9 DEF NextUnit, Goto, Last, PositionInv
<1>10. CASE StartResolve
  <2>1. /\ phase' = "resolve" /\ sub' = 0 /\ start' = 1 /\ at' = 1
        /\ unresolved' = FALSE
    BY <1>10 DEF StartResolve, Goto
  <2>2. sub' \in 0 .. MaxSubpass /\ start' \in Decls /\ at' \in Decls
    BY <1>2, <1>3, <2>1
  <2> QED  BY <1>4, <2>1, <2>2 DEF PositionInv
<1>11. CASE NextInPass(u)
  <2>1. unresolved' \in BOOLEAN  BY <1>5, <1>11 DEF NextInPass
  <2>2. /\ phase \in {"resolve", "checks"} /\ at < Len(prog)
        /\ phase' = phase /\ sub' = sub /\ start' = 1 /\ at' = at + 1
    BY <1>11 DEF NextInPass, Goto, Last
  <2>3. start' \in Decls /\ at' \in Decls  BY <1>1, <1>3, <2>2
  <2> QED  BY <1>1, <1>4, <2>1, <2>2, <2>3 DEF PositionInv
<1>12. CASE ResolveAgain(u)
  <2>1. /\ sub + 1 < MaxSubpass
        /\ phase' = "resolve" /\ sub' = sub + 1 /\ start' = 1 /\ at' = 1
        /\ unresolved' = FALSE
    BY <1>12 DEF ResolveAgain, Goto
  <2>2. sub' \in 0 .. MaxSubpass /\ start' \in Decls /\ at' \in Decls
    BY <1>1, <1>2, <1>3, <2>1
  <2> QED  BY <1>4, <2>1, <2>2 DEF PositionInv
<1>13. CASE StartChecks(u)
  BY <1>1, <1>2, <1>3, <1>4, <1>5, <1>13 DEF StartChecks, Goto, PositionInv
<1>14. CASE Finish(u)
  BY <1>1, <1>2, <1>3, <1>4, <1>5, <1>14 DEF Finish, Goto, PositionInv
<1> QED
  BY <1>6, <1>7, <1>8, <1>9, <1>10, <1>11, <1>12, <1>13, <1>14 DEF Advance

LEMMA ReportType ==
  ASSUME TypeInv, NEW bad, Report(bad)
  PROVE  errors' \subseteq Decls
BY DEF Report, TypeInv, PositionInv

LEMMA SymbolsType ==
  ASSUME TypeInv
  PROVE  Symbols \in [Names -> {0} \cup Decls]
BY VisitFacts DEF Symbols, TypeInv, SymbolsInv

(* A visit leaves the type ids of the nodes alone until it has a new one.  *)
LEMMA NodesType ==
  ASSUME TypeInv
  PROVE  /\ Opened \in [Decls -> NodeType] /\ Nodes \in [Decls -> NodeType]
         /\ \A i \in Decls : /\ Opened[i].tid = node[i].tid
                             /\ Nodes[i].tid = node[i].tid
                             /\ GoodType(node[i].tid)
<1>1. node \in [Decls -> NodeType] /\ \A i \in Decls : GoodType(node[i].tid)
  BY DEF TypeInv, NodeInv
<1>2. Opened = [node EXCEPT ![at] = [node[at] EXCEPT !.size = 0, !.opaque = TRUE]]
  BY DEF Opened
<1>3. Nodes = [Opened EXCEPT ![at] = [Opened[at] EXCEPT !.self = TRUE]]
  BY DEF Nodes
<1>4. at \in Decls  BY VisitFacts
<1>5. node[at] \in NodeType  BY <1>1, <1>4
<1>6. [node[at] EXCEPT !.size = 0, !.opaque = TRUE] \in NodeType
      /\ [node[at] EXCEPT !.size = 0, !.opaque = TRUE].tid = node[at].tid
  BY <1>5 DEF NodeType
<1>7. Opened \in [Decls -> NodeType] /\ \A i \in Decls : Opened[i].tid = node[i].tid
  BY <1>1, <1>2, <1>4, <1>6
<1>8. [Opened[at] EXCEPT !.self = TRUE] \in NodeType
      /\ [Opened[at] EXCEPT !.self = TRUE].tid = node[at].tid
  BY <1>4, <1>7 DEF NodeType
<1>9. Nodes \in [Decls -> NodeType] /\ \A i \in Decls : Nodes[i].tid = node[i].tid
  BY <1>1, <1>3, <1>4, <1>7, <1>8
<1> QED  BY <1>1, <1>7, <1>9

LEMMA CopiedType ==
  ASSUME NEW t, GoodType(t), NEW size \in Nat, NEW alignment \in Nat, NEW def,
         def.size = size, def.alignment = alignment
  PROVE  Copied(t, def) \in NodeType /\ Copied(t, def).tid = t
BY DEF Copied, NodeType, GoodType

(* One declaration's node is replaced.                                     *)
LEMMA NodeUpdate ==
  ASSUME TypeInv, NEW n \in NodeType, GoodType(n.tid), prog' = prog,
         NEW base \in [Decls -> NodeType], \A i \in Decls : base[i].tid = node[i].tid,
         node' = [base EXCEPT ![at] = n]
  PROVE  NodeInv'
<1>1. at \in Decls /\ Decls' = Decls  BY VisitFacts DEF Decls
<1>2. \A i \in Decls : GoodType(node[i].tid)  BY DEF TypeInv, NodeInv
<1>3. \A i \in Decls : GoodType(node'[i].tid)  BY <1>1, <1>2
<1>4. node' \in [Decls -> NodeType]  BY <1>1
<1> QED  BY <1>1, <1>3, <1>4 DEF NodeInv, GoodType

(* The field types of one declaration are replaced.                        *)
LEMMA FieldUpdate ==
  ASSUME TypeInv, prog' = prog, NEW types \in [DOMAIN d.body -> TypeId],
         \A k \in DOMAIN d.body : GoodType(types[k]),
         fieldType' = [fieldType EXCEPT ![at] = types]
  PROVE  FieldInv'
<1>1. at \in Decls /\ Decls' = Decls /\ d = prog[at]  BY VisitFacts DEF Decls
<1>2. FieldInv  BY DEF TypeInv
<1>3. DOMAIN fieldType' = Decls  BY <1>2 DEF FieldInv
<1>4. ASSUME NEW i \in Decls
      PROVE  /\ fieldType'[i] \in [DOMAIN prog[i].body -> TypeId]
             /\ \A k \in DOMAIN prog[i].body : GoodType(fieldType'[i][k])
  <2>1. CASE i = at  BY <1>1, <1>2, <2>1 DEF FieldInv
  <2>2. CASE i # at  BY <1>1, <1>2, <2>2 DEF FieldInv
  <2> QED  BY <2>1, <2>2
<1> QED  BY <1>1, <1>3, <1>4 DEF FieldInv, GoodType

LEMMA FieldTypesGood ==
  ASSUME TypeInv
  PROVE  /\ FieldTypes \in [DOMAIN d.body -> TypeId]
         /\ CFieldTypes \in [DOMAIN d.body -> TypeId]
         /\ \A k \in DOMAIN d.body : GoodType(FieldTypes[k]) /\ GoodType(CFieldTypes[k])
<1>1. at \in Decls /\ d = prog[at] /\ \A k \in DOMAIN d.body : d.body[k] \in TypeExpr
  BY VisitFacts
<1>2. \A k \in DOMAIN d.body : GoodType(fieldType[at][k])
  BY <1>1 DEF TypeInv, FieldInv
<1>3. Symbols \in [Names -> {0} \cup Decls] /\ Nodes \in [Decls -> NodeType]
  BY SymbolsType, NodesType
<1>4. \A k \in DOMAIN d.body : /\ GoodType(Resolve(d.body[k], Symbols, Nodes))
                               /\ GoodType(ResolveC(d.body[k], Symbols, Nodes))
  BY <1>1, <1>3, ResolveGood DEF TypeInv
<1>5. \A k \in DOMAIN d.body : GoodType(FieldTypes[k]) /\ GoodType(CFieldTypes[k])
  BY <1>2, <1>4 DEF FieldTypes, CFieldTypes
<1> QED  BY <1>5 DEF FieldTypes, CFieldTypes, GoodType

(* The sizes the layout is given.                                          *)
LEMMA SizesType ==
  ASSUME TypeInv, NEW types \in [DOMAIN d.body -> TypeId],
         \A k \in DOMAIN d.body : GoodType(types[k])
  PROVE  Sizes(types) \in Seq(FieldType)
<1>1. d.body \in Seq(TypeExpr)  BY VisitFacts
<1>2. DOMAIN d.body = 1 .. Len(d.body) /\ Len(d.body) \in Nat  BY <1>1
<1>3. Nodes \in [Decls -> NodeType]  BY NodesType
<1>4. \A k \in DOMAIN d.body : Get(types[k], Nodes) \in FieldType
  BY <1>3, GetType DEF TypeInv
<1>5. Sizes(types) \in [1 .. Len(d.body) -> FieldType]
  BY <1>2, <1>4 DEF Sizes
<1> QED  BY <1>2, <1>5

-----------------------------------------------------------------------------
(* The layout's steps keep the type of the computation.                    *)

LEMMA BeginLayoutType ==
  ASSUME NEW fields \in Seq(FieldType), NEW c \in BOOLEAN, BeginLayout(fields, c)
  PROVE  LayInv'
<1>1. lay' = [ status |-> "placing", c |-> c, fields |-> fields, offsets |-> <<>>,
               offs |-> 0, maxAlign |-> 1, size |-> 0, alignment |-> 0 ]
  BY DEF BeginLayout, NoLayout
<1>2. <<>> \in Seq(Nat)  OBVIOUS
<1> QED  BY <1>1, <1>2 DEF LayInv, LayoutType, LayoutStatus

LEMMA PlaceFieldType ==
  ASSUME LayInv, PlaceField
  PROVE  LayInv'
<1>1. lay \in LayoutType /\ lay.maxAlign # 0  BY DEF LayInv
<1>2. /\ lay.fields \in Seq(FieldType) /\ lay.offsets \in Seq(Nat)
      /\ lay.offs \in Nat /\ lay.maxAlign \in Nat
  BY <1>1 DEF LayoutType
<1>3. Placed \in Nat /\ Placed < Len(lay.fields)
  BY <1>2 DEF PlaceField, Pending, Placed
<1>4. Current \in FieldType
  <2>1. Placed + 1 \in 1 .. Len(lay.fields)  BY <1>2, <1>3
  <2> QED  BY <1>2, <2>1 DEF Current
<1>5. Current.size \in Nat /\ Current.alignment \in Nat \ {0}
  BY <1>4 DEF FieldType, PlaceField
<1>6. CurrentOffset \in Nat  BY <1>2, <1>5, AlignUp DEF CurrentOffset
<1>7. OffsAfter \in Nat
  <2>1. lay.offs + Current.size \in Nat  BY <1>2, <1>5
  <2> QED  BY <1>5, <2>1, AlignUp DEF OffsAfter
<1>8. Append(lay.offsets, CurrentOffset) \in Seq(Nat)  BY <1>2, <1>6
<1> DEFINE m == IF Current.alignment > lay.maxAlign THEN Current.alignment
                                                    ELSE lay.maxAlign
<1>9. m \in Nat \ {0}  BY <1>1, <1>2, <1>5
<1>10. lay' = [ lay EXCEPT !.offsets = Append(lay.offsets, CurrentOffset),
                           !.offs = OffsAfter, !.maxAlign = m ]
  BY DEF PlaceField
<1> HIDE DEF m
<1> QED  BY <1>1, <1>7, <1>8, <1>9, <1>10 DEF LayInv, LayoutType

LEMMA DivideByZeroType ==
  ASSUME LayInv, DivideByZero
  PROVE  LayInv'
BY DEF LayInv, DivideByZero, LayoutType, LayoutStatus

LEMMA CloseLayoutType ==
  ASSUME LayInv, CloseLayout
  PROVE  LayInv'
<1>1. lay \in LayoutType /\ lay.maxAlign # 0  BY DEF LayInv
<1>2. lay.offs \in Nat /\ lay.maxAlign \in Nat  BY <1>1 DEF LayoutType
<1>3. Align(lay.offs, 16) \in Nat  BY <1>2, AlignUp
<1>4. PackedSize \in Nat  BY <1>1, <1>2, AlignUp DEF PackedSize
<1> DEFINE size == IF Widened THEN Align(lay.offs, 16) ELSE PackedSize
           alignment == IF Widened THEN 16 ELSE lay.maxAlign
<1>5. size \in Nat /\ alignment \in Nat  BY <1>2, <1>3, <1>4
<1>6. lay' = [ lay EXCEPT !.status = "idle", !.size = size, !.alignment = alignment ]
  BY DEF CloseLayout
<1> HIDE DEF size, alignment
<1> QED  BY <1>1, <1>5, <1>6 DEF LayInv, LayoutType, LayoutStatus

-----------------------------------------------------------------------------
(* Parts of the invariant that a step leaves alone.                        *)
LEMMA KeptInv ==
  ASSUME TypeInv, prog' = prog
  PROVE  /\ ProgInv' /\ Decls' = Decls
         /\ UNCHANGED <<position, unresolved, errors>> => PositionInv'
         /\ symbols' = symbols => SymbolsInv'
         /\ node' = node => NodeInv'
         /\ fieldType' = fieldType => FieldInv'
         /\ structure' = structure => StructureInv'
         /\ folded' = folded => FoldedInv'
         /\ lay' = lay => LayInv'
BY DEF TypeInv, ProgInv, PositionInv, position, SymbolsInv, NodeInv, FieldInv,
       StructureInv, FoldedInv, LayInv, Decls, GoodType

LEMMA SymbolsKept ==
  ASSUME TypeInv, prog' = prog, symbols' = Symbols
  PROVE  SymbolsInv'
BY SymbolsType, KeptInv DEF SymbolsInv

LEMMA NodesKept ==
  ASSUME TypeInv, prog' = prog, node' = Opened \/ node' = Nodes
  PROVE  NodeInv'
BY NodesType, KeptInv DEF NodeInv, GoodType

LEMMA RedeclareInv == TypeInv /\ Redeclare => TypeInv'
<1> SUFFICES ASSUME TypeInv, Redeclare PROVE TypeInv'  OBVIOUS
<1>1. /\ node' = Opened /\ Report(TRUE) /\ Leave(FALSE)
      /\ UNCHANGED <<prog, symbols, fieldType, structure, folded, lay>>
  BY DEF Redeclare
<1>2. PositionInv'  BY <1>1, ReportType, MoveInv
<1> QED  BY <1>1, <1>2, KeptInv, NodesKept DEF TypeInv

LEMMA VisitNamedInv == TypeInv /\ VisitNamed => TypeInv'
<1> SUFFICES ASSUME TypeInv, VisitNamed PROVE TypeInv'  OBVIOUS
<1> DEFINE t == IF node[at].tid # NoType /\ ~Checking THEN node[at].tid
                ELSE Resolve(d.body[1], Symbols, Nodes)
           def == Get(t, Nodes)
           n == IF t = NoType THEN [Nodes[at] EXCEPT !.tid = NoType]
                ELSE Copied(t, def)
<1>1. /\ node' = [Nodes EXCEPT ![at] = n] /\ Report(t = NoType) /\ Leave(t = NoType)
      /\ symbols' = Symbols
      /\ UNCHANGED <<prog, fieldType, structure, folded, lay>>
  BY DEF VisitNamed
<1>2. /\ at \in Decls /\ d.body[1] \in TypeExpr
      /\ Symbols \in [Names -> {0} \cup Decls] /\ Nodes \in [Decls -> NodeType]
      /\ \A i \in Decls : Nodes[i].tid = node[i].tid /\ GoodType(node[i].tid)
  BY VisitFacts, SymbolsType, NodesType
<1>3. GoodType(t)  BY <1>2, ResolveGood DEF TypeInv
<1>4. n \in NodeType /\ GoodType(n.tid)
  <2>1. CASE t = NoType
    <3>1. n = [Nodes[at] EXCEPT !.tid = NoType] /\ Nodes[at] \in NodeType
      BY <1>2, <2>1
    <3>2. NoType \in TypeId  BY NoTypeGood DEF GoodType
    <3>3. n \in NodeType /\ n.tid = NoType  BY <3>1, <3>2 DEF NodeType
    <3> QED  BY <3>3, NoTypeGood
  <2>2. CASE t # NoType
    <3> HIDE DEF t
    <3>1. def \in FieldType  BY <1>2, <1>3, GetType DEF TypeInv
    <3>2. def.size \in Nat /\ def.alignment \in Nat  BY <3>1 DEF FieldType
    <3> HIDE DEF def
    <3>3. Copied(t, def) \in NodeType /\ Copied(t, def).tid = t
      BY <1>3, <3>2, CopiedType
    <3> QED  BY <1>3, <2>2, <3>3
  <2> QED  BY <2>1, <2>2
<1> HIDE DEF n
<1>5. NodeInv'  BY <1>1, <1>2, <1>4, NodeUpdate
<1> HIDE DEF t
<1>6. PositionInv'
  <2>1. errors' \subseteq Decls  BY <1>1, ReportType
  <2>2. (t = NoType) \in BOOLEAN  OBVIOUS
  <2> QED  BY <1>1, <2>1, <2>2, MoveInv
<1> QED  BY <1>1, <1>5, <1>6, KeptInv, SymbolsKept DEF TypeInv

LEMMA VisitKnownStructInv == TypeInv /\ VisitKnownStruct => TypeInv'
<1> SUFFICES ASSUME TypeInv, VisitKnownStruct PROVE TypeInv'  OBVIOUS
<1> DEFINE t == node[at].tid
           def == Get(t, Nodes)
<1>1. /\ node' = [Nodes EXCEPT ![at] = Copied(t, def)]
      /\ fieldType' = IF Checking THEN [fieldType EXCEPT ![at] = FieldTypes]
                      ELSE fieldType
      /\ Report(Missing) /\ Leave(Checking /\ Missing)
      /\ UNCHANGED <<prog, symbols, structure, folded, lay>>
  BY DEF VisitKnownStruct
<1>2. /\ at \in Decls /\ Nodes \in [Decls -> NodeType]
      /\ \A i \in Decls : Nodes[i].tid = node[i].tid
      /\ GoodType(t)
  BY VisitFacts, NodesType
<1>3. def.size \in Nat /\ def.alignment \in Nat
  <2>1. def \in FieldType  BY <1>2, GetType DEF TypeInv
  <2> HIDE DEF def
  <2> QED  BY <2>1 DEF FieldType
<1>4. NodeInv'
  <2> HIDE DEF t, def
  <2>1. Copied(t, def) \in NodeType /\ Copied(t, def).tid = t
    BY <1>2, <1>3, CopiedType
  <2> QED  BY <1>1, <1>2, <2>1, NodeUpdate
<1>5. FieldInv'  BY <1>1, FieldTypesGood, FieldUpdate, KeptInv
<1>6. PositionInv'
  <2>1. errors' \subseteq Decls  BY <1>1, ReportType
  <2>2. (Checking /\ Missing) \in BOOLEAN  OBVIOUS
  <2> QED  BY <1>1, <2>1, <2>2, MoveInv
<1> QED  BY <1>1, <1>4, <1>5, <1>6, KeptInv DEF TypeInv

LEMMA VisitIncompleteStructInv == TypeInv /\ VisitIncompleteStruct => TypeInv'
<1> SUFFICES ASSUME TypeInv, VisitIncompleteStruct PROVE TypeInv'  OBVIOUS
<1>1. /\ node' = Nodes /\ symbols' = Symbols
      /\ fieldType' = [fieldType EXCEPT ![at] = FieldTypes]
      /\ Report(TRUE) /\ Leave(TRUE)
      /\ UNCHANGED <<prog, structure, folded, lay>>
  BY DEF VisitIncompleteStruct
<1>2. FieldInv'  BY <1>1, FieldTypesGood, FieldUpdate
<1>3. PositionInv'  BY <1>1, ReportType, MoveInv
<1> QED  BY <1>1, <1>2, <1>3, KeptInv, NodesKept, SymbolsKept DEF TypeInv

LEMMA OpenStructInv == TypeInv /\ OpenStruct => TypeInv'
<1> SUFFICES ASSUME TypeInv, OpenStruct PROVE TypeInv'  OBVIOUS
<1>1. /\ node' = Nodes /\ symbols' = Symbols
      /\ fieldType' = [fieldType EXCEPT ![at] = FieldTypes]
      /\ BeginLayout(Sizes(FieldTypes), FALSE)
      /\ UNCHANGED <<prog, position, structure, folded, unresolved, errors>>
  BY DEF OpenStruct
<1>2. FieldInv'  BY <1>1, FieldTypesGood, FieldUpdate
<1>3. LayInv'  BY <1>1, FieldTypesGood, SizesType, BeginLayoutType
<1> QED  BY <1>1, <1>2, <1>3, KeptInv, NodesKept, SymbolsKept DEF TypeInv

LEMMA OpenCStructInv == TypeInv /\ OpenCStruct => TypeInv'
<1> SUFFICES ASSUME TypeInv, OpenCStruct PROVE TypeInv'  OBVIOUS
<1>1. /\ node' = Nodes /\ symbols' = Symbols
      /\ fieldType' = [fieldType EXCEPT ![at] = CFieldTypes]
      /\ BeginLayout(Sizes(CFieldTypes), TRUE)
      /\ UNCHANGED <<prog, position, structure, folded, unresolved, errors>>
  BY DEF OpenCStruct
<1>2. FieldInv'  BY <1>1, FieldTypesGood, FieldUpdate
<1>3. LayInv'  BY <1>1, FieldTypesGood, SizesType, BeginLayoutType
<1> QED  BY <1>1, <1>2, <1>3, KeptInv, NodesKept, SymbolsKept DEF TypeInv

LEMMA PlaceStructFieldInv == TypeInv /\ PlaceStructField => TypeInv'
<1> SUFFICES ASSUME TypeInv, PlaceStructField PROVE TypeInv'  OBVIOUS
<1>1. LayInv'  BY PlaceFieldType DEF TypeInv, PlaceStructField
<1> QED  BY <1>1, KeptInv DEF TypeInv, PlaceStructField

LEMMA DieInLayoutInv == TypeInv /\ DieInLayout => TypeInv'
<1> SUFFICES ASSUME TypeInv, DieInLayout PROVE TypeInv'  OBVIOUS
<1>1. LayInv'  BY DivideByZeroType DEF TypeInv, DieInLayout
<1> QED  BY <1>1, KeptInv DEF TypeInv, DieInLayout

LEMMA CloseStructInv == TypeInv /\ CloseStruct => TypeInv'
<1> SUFFICES ASSUME TypeInv, CloseStruct PROVE TypeInv'  OBVIOUS
<1> DEFINE t == IF d.kind = "struct" THEN StructType(at) ELSE NoType
           n == Copied(t, lay')
<1>1. /\ CloseLayout /\ structure' = [structure EXCEPT ![at] = lay']
      /\ node' = [node EXCEPT ![at] = n] /\ Leave(FALSE)
      /\ UNCHANGED <<prog, symbols, fieldType, folded, errors>>
  BY DEF CloseStruct
<1>2. at \in Decls  BY VisitFacts
<1>3. LayInv'  BY <1>1, CloseLayoutType DEF TypeInv
<1>4. lay' \in LayoutType /\ lay'.size \in Nat /\ lay'.alignment \in Nat
  BY <1>3 DEF LayInv, LayoutType
<1>5. GoodType(t)  BY <1>2, NoTypeGood, StructTypeGood DEF TypeInv
<1>6. NodeInv'
  <2> HIDE DEF t
  <2>1. n \in NodeType /\ n.tid = t  BY <1>4, <1>5, CopiedType
  <2> HIDE DEF n
  <2>2. node \in [Decls -> NodeType]  BY DEF TypeInv, NodeInv
  <2>3. GoodType(n.tid)  BY <1>5, <2>1
  <2> QED  BY <1>1, <2>1, <2>2, <2>3, NodeUpdate
<1>7. StructureInv'
  BY <1>1, <1>2, <1>4 DEF TypeInv, StructureInv, Decls
<1>8. PositionInv'
  <2>1. errors' \subseteq Decls  BY <1>1 DEF TypeInv, PositionInv
  <2> QED  BY <1>1, <2>1, MoveInv
<1> QED  BY <1>1, <1>3, <1>6, <1>7, <1>8, KeptInv DEF TypeInv

LEMMA VisitUseInv == TypeInv /\ VisitUse => TypeInv'
<1> SUFFICES ASSUME TypeInv, VisitUse PROVE TypeInv'  OBVIOUS
<1> DEFINE t == Resolve(d.body[1], symbols, node)
           pending == folded[at] = NotFolded
<1>1. /\ folded' = IF pending /\ t # NoType
                   THEN [folded EXCEPT ![at] = Get(t, node).size] ELSE folded
      /\ Report(pending /\ t = NoType) /\ Leave(pending /\ t = NoType)
      /\ UNCHANGED <<prog, symbols, node, fieldType, structure, lay>>
  BY DEF VisitUse
<1>2. /\ at \in Decls /\ d.body[1] \in TypeExpr
      /\ symbols \in [Names -> {0} \cup Decls] /\ node \in [Decls -> NodeType]
  BY VisitFacts DEF TypeInv, SymbolsInv, NodeInv
<1>3. Get(t, node).size \in Nat
  <2>1. GoodType(t)  BY <1>2, ResolveGood DEF TypeInv
  <2> HIDE DEF t
  <2>2. Get(t, node) \in FieldType  BY <1>2, <2>1, GetType DEF TypeInv
  <2> QED  BY <2>2 DEF FieldType
<1> HIDE DEF t
<1>4. FoldedInv'
  BY <1>1, <1>2, <1>3, KeptInv DEF TypeInv, FoldedInv
<1>5. PositionInv'
  <2>1. errors' \subseteq Decls  BY <1>1, ReportType
  <2>2. (pending /\ t = NoType) \in BOOLEAN  OBVIOUS
  <2> QED  BY <1>1, <2>1, <2>2, MoveInv
<1> QED  BY <1>1, <1>4, <1>5, KeptInv DEF TypeInv

LEMMA InitTypeInv == Init => TypeInv
<1> SUFFICES ASSUME Init PROVE TypeInv  OBVIOUS
<1>1. ProgInv  BY DEF Init, ProgInv
<1>2. 1 \in Decls /\ MaxSubpass \in Nat \ {0}
  BY <1>1, ProgFacts, ConstantsAssumption
<1>3. PositionInv
  <2>1. sub \in 0 .. MaxSubpass /\ start \in Decls /\ at \in Decls
    BY <1>2 DEF Init
  <2> QED  BY <2>1 DEF Init, PositionInv
<1>4. SymbolsInv  BY DEF Init, SymbolsInv
<1>5. NodeInv
  <2>1. NewNode.tid = NoType  BY DEF NewNode
  <2>2. NoType \in TypeId  BY NoTypeGood DEF GoodType
  <2>3. NewNode \in NodeType  BY <2>2 DEF NewNode, NodeType
  <2>4. node = [i \in Decls |-> NewNode]  BY DEF Init, Decls
  <2> QED  BY <2>1, <2>3, <2>4, NoTypeGood DEF NodeInv
<1>6. FieldInv
  <2>1. \A i \in Decls : fieldType[i] = [k \in DOMAIN prog[i].body |-> NoType]
    BY DEF Init, Decls
  <2>2. NoType \in TypeId /\ GoodType(NoType)  BY NoTypeGood DEF GoodType
  <2>3. DOMAIN fieldType = Decls  BY DEF Init, Decls
  <2> QED  BY <2>1, <2>2, <2>3 DEF FieldInv
<1>7. NoLayout \in LayoutType /\ NoLayout.maxAlign # 0
  <2>1. <<>> \in Seq(FieldType) /\ <<>> \in Seq(Nat)  OBVIOUS
  <2> QED  BY <2>1 DEF NoLayout, LayoutType, LayoutStatus
<1>8. StructureInv /\ LayInv  BY <1>7 DEF Init, StructureInv, LayInv, Decls
<1>9. FoldedInv  BY DEF Init, FoldedInv, Decls
<1> QED  BY <1>1, <1>3, <1>4, <1>5, <1>6, <1>8, <1>9 DEF TypeInv

LEMMA NextTypeInv == TypeInv /\ [Next]_vars => TypeInv'
<1> SUFFICES ASSUME TypeInv, [Next]_vars PROVE TypeInv'  OBVIOUS
<1>1. CASE UNCHANGED vars  BY <1>1, KeptInv DEF vars, TypeInv
<1>2. CASE Next
  BY <1>2, RedeclareInv, VisitNamedInv, VisitKnownStructInv,
     VisitIncompleteStructInv, OpenStructInv, OpenCStructInv,
     PlaceStructFieldInv, DieInLayoutInv, CloseStructInv, VisitUseInv DEF Next
<1> QED  BY <1>1, <1>2

LEMMA TypeInvTypeOK == TypeInv => TypeOK
<1> SUFFICES ASSUME TypeInv PROVE TypeOK  OBVIOUS
<1>1. prog \in Seq(Decl)  BY ProgFacts DEF TypeInv
<1>2. \A i \in DOMAIN prog : fieldType[i] \in [DOMAIN prog[i].body -> TypeId]
  BY DEF TypeInv, FieldInv, Decls
<1> QED
  BY <1>1, <1>2 DEF TypeInv, TypeOK, PositionInv, SymbolsInv, NodeInv, NodeType,
     FieldInv, StructureInv, FoldedInv, LayInv, Decls

(* Every variable of the resolution keeps its type, in every program: in   *)
(* particular no type id dangles (type_id::get() on a declaration that is  *)
(* not in the scope's table), and the subpasses stay within their bound.   *)
THEOREM TypeDeclsTypeCorrect == Spec => []TypeOK
<1>1. Init => TypeInv  BY InitTypeInv
<1>2. TypeInv /\ [Next]_vars => TypeInv'  BY NextTypeInv
<1>3. TypeInv => TypeOK  BY TypeInvTypeOK
<1> QED  BY <1>1, <1>2, <1>3, PTL DEF Spec

-----------------------------------------------------------------------------
(* Sizes are final.  Known leaves out the copy of the structure being laid *)
(* out, which the visit has reset.  Whoever has a size with an alignment   *)
(* has it from what Known says, and is not part of what it copied.         *)
Measure(t, sizes) ==
  CASE t.ctor = "name"  -> DefOf(t.ref, sizes)
    [] t.ctor = "array" -> ArrayDef(t.len, t.snap)
    [] t.ctor = "ptr"   -> [size |-> 8, alignment |-> 8]
    [] OTHER            -> Unsized

Measures(types, sizes) == [k \in DOMAIN types |-> Measure(types[k], sizes)]

FinalSnap(t, sizes) ==
  IF t.ctor = "array" THEN t.snap = Unsized \/ t.snap = DefOf(t.ref, sizes)
  ELSE t.snap = Unsized

(* What is looked up once is what another look finds.                      *)
CachedAs(t, e, syms) ==
  /\ Found(e.name, syms)
  /\ t.ctor = e.ctor /\ t.ref = Lookup(e.name, syms) /\ t.len = e.len

NotItself(t, i) == t.ctor \in {"name", "array"} => t.ref # i

GoodFields(p, types, sizes, syms) ==
  \A k \in DOMAIN p.body : types[k] # NoType =>
    /\ types[k].ctor \in {"name", "ptr", "array"}
    /\ FinalSnap(types[k], sizes)
    /\ p.kind = "struct" => CachedAs(types[k], p.body[k], syms)

SizeIn(n) == [size |-> n.size, alignment |-> n.alignment]

GoodNamed(i, p, n, sizes, syms) ==
  p.kind = "named" =>
    /\ n.tid # NoType => FinalSnap(n.tid, sizes) /\ CachedAs(n.tid, p.body[1], syms)
    /\ IF n.alignment = 0 THEN n.size = 0
       ELSE n.tid # NoType /\ NotItself(n.tid, i) /\ SizeIn(n) = Measure(n.tid, sizes)

(* offs after each of the first n fields.                                  *)
EndsOf(ends, n, fields) ==
  /\ ends[0] = 0
  /\ \A k \in 1 .. n :
       ends[k] = Align(ends[k - 1] + fields[k].size, fields[k].alignment)

(* A layout, as the loop makes it.                                         *)
Looped(l) ==
  /\ Len(l.offsets) <= Len(l.fields) /\ l.maxAlign \in Nat \ {0}
  /\ \A k \in 1 .. Len(l.offsets) : l.fields[k].alignment \in 1 .. l.maxAlign
  /\ \/ l.maxAlign = 1
     \/ \E k \in 1 .. Len(l.offsets) : l.fields[k].alignment = l.maxAlign
  /\ \E ends \in [0 .. Len(l.offsets) -> Nat] :
       EndsOf(ends, Len(l.offsets), l.fields) /\ ends[Len(l.offsets)] = l.offs

Wide(l) == ~ l.c /\ Align(l.offs, l.maxAlign) > 8

LaidOutAs(l) ==
  /\ Looped(l) /\ Len(l.offsets) = Len(l.fields)
  /\ l.size = IF Wide(l) THEN Align(l.offs, 16) ELSE Align(l.offs, l.maxAlign)
  /\ l.alignment = IF Wide(l) THEN 16 ELSE l.maxAlign

GoodStruct(i, p, n, types, s, sizes) ==
  p.kind \in {"struct", "cstruct"} =>
    /\ n.tid = IF p.kind = "struct" /\ s.alignment # 0 THEN StructType(i) ELSE NoType
    /\ IF s.alignment = 0 THEN s.size = 0
       ELSE /\ s.fields = Measures(types, sizes)
            /\ \A k \in DOMAIN types : NotItself(types[k], i)
            /\ s.c = (p.kind = "cstruct")
            /\ LaidOutAs(s)

GoodNew(p, n) ==
  /\ p.kind = "use" => ~ n.self
  /\ ~ n.self => n.size = 0 /\ n.alignment = 0

Sized(i, p, n, types, s, sizes, syms) ==
  /\ GoodFields(p, types, sizes, syms)
  /\ GoodNamed(i, p, n, sizes, syms)
  /\ GoodStruct(i, p, n, types, s, sizes)
  /\ GoodNew(p, n)

SizedInv ==
  \A i \in Decls :
    Sized(i, prog[i], node[i], fieldType[i], structure[i], Known, symbols)

CopiesInv == \A i \in Decls : (Busy /\ i = at) \/ SizeIn(node[i]) = Known[i]

BusyInv ==
  Busy =>
    /\ IsStruct(at) /\ node[at].self
    /\ node[at].size = 0 /\ node[at].alignment = Known[at].alignment
    /\ prog[at].kind = "struct" => structure[at].alignment = 0
    /\ lay.c = (prog[at].kind = "cstruct")
    /\ lay.fields = Measures(fieldType[at], node)
    /\ Looped(lay)

SizesInv == SizedInv /\ CopiesInv /\ BusyInv

-----------------------------------------------------------------------------
(* Sizes and types, compared.                                              *)

StructKinds == {"struct", "cstruct"}

KnownAs(p, n, s) == IF p.kind \in StructKinds THEN SizeIn(s) ELSE SizeIn(n)

LEMMA KnownFacts ==
  ASSUME TypeInv
  PROVE  /\ Known \in [Decls -> FieldType]
         /\ \A i \in Decls : /\ Known[i] = KnownAs(prog[i], node[i], structure[i])
                             /\ Known[i] = SizeIn(Known[i])
<1>1. \A i \in Decls : node[i] \in NodeType /\ structure[i] \in LayoutType
  BY DEF TypeInv, NodeInv, StructureInv
<1>2. \A i \in Decls : /\ SizeIn(node[i]) \in FieldType
                       /\ SizeIn(structure[i]) \in FieldType
  BY <1>1 DEF NodeType, LayoutType, SizeIn, FieldType
<1>3. \A i \in Decls : Known[i] = KnownAs(prog[i], node[i], structure[i])
  BY DEF Known, KnownAs, StructKinds, IsStruct, SizeOf, SizeIn, Decls
<1>4. DOMAIN Known = Decls  BY DEF Known, Decls
<1>5. Known = [i \in Decls |-> Known[i]]  BY <1>4 DEF Known, Decls
<1>6. \A i \in Decls : Known[i] \in FieldType  BY <1>2, <1>3 DEF KnownAs
<1>7. \A i \in Decls : Known[i] = SizeIn(Known[i])  BY <1>6 DEF FieldType, SizeIn
<1>8. Known \in [Decls -> FieldType]  BY <1>5, <1>6
<1> QED  BY <1>3, <1>7, <1>8

LEMMA RefFacts ==
  ASSUME ProgInv
  PROVE  /\ \A i \in Decls : i \notin Builtins
         /\ \A ref \in Builtins : \A sizes : DefOf(ref, sizes) = BuiltinType[ref]
         /\ \A i \in Decls : \A sizes : DefOf(i, sizes) = SizeIn(sizes[i])
<1>1. \A i \in Decls : i \in Nat  BY ProgFacts
<1>2. \A i \in Decls : i \notin Builtins  BY <1>1, ConstantsAssumption
<1> QED  BY <1>2 DEF DefOf, SizeIn

(* A definition without an alignment has no size.                          *)
Blank(sizes) ==
  \A ref \in Builtins \cup Decls :
    DefOf(ref, sizes).alignment = 0 => DefOf(ref, sizes) = Unsized

(* Definitions that have a size keep it.                                   *)
Grows(sizes, now) ==
  \A ref \in Builtins \cup Decls :
    DefOf(ref, sizes).alignment # 0 => DefOf(ref, now) = DefOf(ref, sizes)

SymsGrow(syms, now) == \A name \in Names : syms[name] # 0 => now[name] = syms[name]

LEMMA MeasureUnsized ==
  ASSUME NEW t, GoodType(t), NEW sizes, Blank(sizes), FinalSnap(t, sizes),
         Measure(t, sizes).alignment = 0
  PROVE  Measure(t, sizes).size = 0
<1>1. CASE t.ctor = "name"
  <2>1. Measure(t, sizes) = DefOf(t.ref, sizes)  BY <1>1 DEF Measure
  <2>2. t.ref \in Builtins \cup Decls  BY <1>1 DEF GoodType
  <2> QED  BY <2>1, <2>2 DEF Blank, Unsized
<1>2. CASE t.ctor = "array"
  <2>1. t.snap = Unsized \/ t.snap = DefOf(t.ref, sizes)  BY <1>2 DEF FinalSnap
  <2>2. Measure(t, sizes) = ArrayDef(t.len, t.snap)  BY <1>2 DEF Measure
  <2>3. t.snap.alignment = 0  BY <2>2 DEF ArrayDef
  <2>4. t.snap = Unsized  BY <1>2, <2>1, <2>3 DEF Blank, GoodType
  <2>5. t.snap.size = 0 /\ t.len \in Nat  BY <2>4 DEF Unsized, GoodType, TypeId
  <2> QED  BY <2>2, <2>5 DEF ArrayDef
<1>3. CASE t.ctor = "ptr"  BY <1>3 DEF Measure
<1>4. CASE t.ctor \notin {"name", "array", "ptr"}  BY <1>4 DEF Measure, Unsized
<1> QED  BY <1>1, <1>2, <1>3, <1>4

(* An array with a size was made from the final size of its element.       *)
LEMMA ArrayFinal ==
  ASSUME NEW t, GoodType(t), NEW sizes, Blank(sizes), FinalSnap(t, sizes),
         t.ctor = "array", Measure(t, sizes).alignment # 0
  PROVE  t.snap = DefOf(t.ref, sizes) /\ t.snap.alignment # 0
<1>1. Measure(t, sizes) = ArrayDef(t.len, t.snap)  BY DEF Measure
<1>2. t.len \in Nat /\ t.ref \in Builtins \cup Decls  BY DEF GoodType, TypeId
<1>3. t.snap # Unsized
  <2> SUFFICES ASSUME t.snap = Unsized PROVE FALSE  OBVIOUS
  <2>1. t.snap.size = 0 /\ t.snap.alignment = 0  BY DEF Unsized
  <2> QED  BY <1>1, <1>2, <2>1 DEF ArrayDef
<1> QED  BY <1>2, <1>3 DEF FinalSnap, Blank

LEMMA MeasureKept ==
  ASSUME NEW t, GoodType(t), NEW sizes, NEW now, Grows(sizes, now),
         Measure(t, sizes).alignment # 0
  PROVE  Measure(t, now) = Measure(t, sizes)
<1>1. CASE t.ctor = "name"
  <2>1. t.ref \in Builtins \cup Decls  BY <1>1 DEF GoodType
  <2> QED  BY <1>1, <2>1 DEF Measure, Grows
<1>2. CASE t.ctor # "name"  BY <1>2 DEF Measure
<1> QED  BY <1>1, <1>2

LEMMA FinalSnapKept ==
  ASSUME NEW t, GoodType(t), NEW sizes, NEW now, Grows(sizes, now), Blank(sizes),
         FinalSnap(t, sizes)
  PROVE  FinalSnap(t, now)
<1>1. CASE t.ctor = "array"
  <2>1. t.ref \in Builtins \cup Decls  BY <1>1 DEF GoodType
  <2> QED  BY <1>1, <2>1 DEF FinalSnap, Grows, Blank
<1>2. CASE t.ctor # "array"  BY <1>2 DEF FinalSnap
<1> QED  BY <1>1, <1>2

LEMMA CachedKept ==
  ASSUME NEW t, NEW e \in TypeExpr, NEW syms, NEW now, SymsGrow(syms, now),
         CachedAs(t, e, syms)
  PROVE  CachedAs(t, e, now)
<1>1. e.name \in Names \cup Builtins  BY DEF TypeExpr
<1>2. e.name \notin Builtins => syms[e.name] # 0 /\ now[e.name] = syms[e.name]
  BY <1>1 DEF CachedAs, Found, SymsGrow
<1> QED  BY <1>2 DEF CachedAs, Found, Lookup

LEMMA GetMeasure ==
  ASSUME NEW t, GoodType(t), t.ctor # "struct", NEW nodes
  PROVE  Get(t, nodes) = Measure(t, nodes)
BY DEF GoodType, TypeId, Get, Measure

(* Sizes that agree on what a type mentions.                               *)
LEMMA MeasureSame ==
  ASSUME NEW t, NEW sizes, NEW now,
         t.ctor = "name" => DefOf(t.ref, now) = DefOf(t.ref, sizes)
  PROVE  Measure(t, now) = Measure(t, sizes)
BY DEF Measure

-----------------------------------------------------------------------------
(* What is known of a declaration stays true while the others get their    *)
(* sizes.                                                                  *)

Named(p) ==
  /\ p.body \in Seq(TypeExpr) /\ 1 \in DOMAIN p.body

LEMMA FieldsKept ==
  ASSUME NEW p, Named(p), NEW types, \A k \in DOMAIN p.body : GoodType(types[k]),
         NEW sizes, NEW now, Grows(sizes, now), Blank(sizes),
         NEW syms, NEW table, SymsGrow(syms, table),
         GoodFields(p, types, sizes, syms)
  PROVE  GoodFields(p, types, now, table)
<1> SUFFICES ASSUME NEW k \in DOMAIN p.body, types[k] # NoType
             PROVE  /\ types[k].ctor \in {"name", "ptr", "array"}
                    /\ FinalSnap(types[k], now)
                    /\ p.kind = "struct" => CachedAs(types[k], p.body[k], table)
  BY DEF GoodFields
<1>1. /\ types[k].ctor \in {"name", "ptr", "array"}
      /\ FinalSnap(types[k], sizes)
      /\ p.kind = "struct" => CachedAs(types[k], p.body[k], syms)
  BY DEF GoodFields
<1>2. FinalSnap(types[k], now)  BY <1>1, FinalSnapKept
<1>3. p.body[k] \in TypeExpr  BY DEF Named
<1>4. p.kind = "struct" => CachedAs(types[k], p.body[k], table)
  BY <1>1, <1>3, CachedKept
<1> QED  BY <1>1, <1>2, <1>4

LEMMA NamedKept ==
  ASSUME NEW i, NEW p, Named(p), NEW n, GoodType(n.tid),
         NEW sizes, NEW now, Grows(sizes, now), Blank(sizes),
         NEW syms, NEW table, SymsGrow(syms, table),
         GoodNamed(i, p, n, sizes, syms)
  PROVE  GoodNamed(i, p, n, now, table)
<1> SUFFICES ASSUME p.kind = "named" PROVE GoodNamed(i, p, n, now, table)
  BY DEF GoodNamed
<1>1. n.tid # NoType => FinalSnap(n.tid, sizes) /\ CachedAs(n.tid, p.body[1], syms)
  BY DEF GoodNamed
<1>2. n.tid # NoType => FinalSnap(n.tid, now)  BY <1>1, FinalSnapKept
<1>3. p.body[1] \in TypeExpr  BY DEF Named
<1>4. n.tid # NoType => CachedAs(n.tid, p.body[1], table)  BY <1>1, <1>3, CachedKept
<1>5. IF n.alignment = 0 THEN n.size = 0
      ELSE n.tid # NoType /\ NotItself(n.tid, i) /\ SizeIn(n) = Measure(n.tid, sizes)
  BY DEF GoodNamed
<1>6. ASSUME n.alignment # 0  PROVE SizeIn(n) = Measure(n.tid, now)
  <2>1. SizeIn(n) = Measure(n.tid, sizes)  BY <1>5, <1>6
  <2>2. SizeIn(n).alignment # 0  BY <1>6 DEF SizeIn
  <2> QED  BY <2>1, <2>2, MeasureKept
<1> QED  BY <1>2, <1>4, <1>5, <1>6 DEF GoodNamed

(* Every field of a layout has an alignment.                               *)
LEMMA LaidOutFields ==
  ASSUME NEW l \in LayoutType, LaidOutAs(l)
  PROVE  \A k \in DOMAIN l.fields : l.fields[k].alignment # 0
<1>1. l.fields \in Seq(FieldType)  BY DEF LayoutType
<1>2. DOMAIN l.fields = 1 .. Len(l.fields) /\ Len(l.offsets) = Len(l.fields)
  BY <1>1 DEF LaidOutAs
<1>3. \A k \in 1 .. Len(l.offsets) : l.fields[k].alignment \in 1 .. l.maxAlign
  BY DEF LaidOutAs, Looped
<1> QED  BY <1>2, <1>3

LEMMA MeasuresKept ==
  ASSUME NEW types, \A k \in DOMAIN types : GoodType(types[k]),
         NEW sizes, NEW now, Grows(sizes, now),
         \A k \in DOMAIN types : Measures(types, sizes)[k].alignment # 0
  PROVE  Measures(types, now) = Measures(types, sizes)
<1>1. \A k \in DOMAIN types : Measures(types, sizes)[k] = Measure(types[k], sizes)
  BY DEF Measures
<1>2. \A k \in DOMAIN types : Measure(types[k], now) = Measure(types[k], sizes)
  BY <1>1, MeasureKept
<1> QED  BY <1>2 DEF Measures

LEMMA StructKept ==
  ASSUME NEW i, NEW p, NEW n, NEW types, \A k \in DOMAIN types : GoodType(types[k]),
         NEW s \in LayoutType, NEW sizes, NEW now, Grows(sizes, now),
         GoodStruct(i, p, n, types, s, sizes)
  PROVE  GoodStruct(i, p, n, types, s, now)
<1>1. ASSUME p.kind \in {"struct", "cstruct"}, s.alignment # 0
      PROVE  s.fields = Measures(types, now)
  <2>1. s.fields = Measures(types, sizes) /\ LaidOutAs(s)  BY <1>1 DEF GoodStruct
  <2>2. DOMAIN s.fields = DOMAIN types  BY <2>1 DEF Measures
  <2>3. \A k \in DOMAIN types : Measures(types, sizes)[k].alignment # 0
    BY <2>1, <2>2, LaidOutFields
  <2> QED  BY <2>1, <2>3, MeasuresKept
<1> QED  BY <1>1 DEF GoodStruct

LEMMA BlankKnown ==
  ASSUME TypeInv, SizedInv
  PROVE  /\ Blank(Known)
         /\ \A i \in Decls : Known[i].alignment = 0 => Known[i] = Unsized
<1>1. ASSUME NEW i \in Decls, Known[i].alignment = 0
      PROVE  Known[i] = Unsized
  <2>1. Sized(i, prog[i], node[i], fieldType[i], structure[i], Known, symbols)
    BY DEF SizedInv
  <2>2. /\ Known[i] = KnownAs(prog[i], node[i], structure[i])
        /\ prog[i].kind \in {"struct", "named", "cstruct", "use"}
    BY KnownFacts, ProgFacts DEF TypeInv
  <2>3. Known[i] = SizeIn(Known[i])  BY KnownFacts
  <2>4. Known[i].size = 0
    <3>1. CASE prog[i].kind \in StructKinds
      <4>1. Known[i] = SizeIn(structure[i])  BY <2>2, <3>1 DEF KnownAs
      <4>2. structure[i].alignment = 0  BY <1>1, <4>1 DEF SizeIn
      <4>3. structure[i].size = 0
        BY <2>1, <3>1, <4>2 DEF Sized, GoodStruct, StructKinds
      <4> QED  BY <4>1, <4>3 DEF SizeIn
    <3>2. CASE prog[i].kind \notin StructKinds
      <4>1. Known[i] = SizeIn(node[i])  BY <2>2, <3>2 DEF KnownAs
      <4>2. node[i].alignment = 0  BY <1>1, <4>1 DEF SizeIn
      <4>3. CASE prog[i].kind = "named"
        <5>1. node[i].size = 0  BY <2>1, <4>2, <4>3 DEF Sized, GoodNamed
        <5> QED  BY <4>1, <5>1 DEF SizeIn
      <4>4. CASE prog[i].kind = "use"
        <5>1. node[i] \in NodeType  BY DEF TypeInv, NodeInv
        <5>2. ~ node[i].self  BY <2>1, <4>4 DEF Sized, GoodNew
        <5>3. node[i].size = 0  BY <2>1, <5>2 DEF Sized, GoodNew
        <5> QED  BY <4>1, <5>3 DEF SizeIn
      <4> QED  BY <2>2, <3>2, <4>3, <4>4 DEF StructKinds
    <3> QED  BY <3>1, <3>2
  <2> QED  BY <1>1, <2>3, <2>4 DEF SizeIn, Unsized
<1>2. ASSUME NEW ref \in Builtins, BuiltinType[ref].alignment = 0
      PROVE  BuiltinType[ref] = Unsized
  <2>1. BuiltinType[ref] \in FieldType /\ BuiltinType[ref].size = 0
    BY <1>2, ConstantsAssumption
  <2> QED  BY <1>2, <2>1 DEF FieldType, Unsized
<1>3. Blank(Known)
  <2> SUFFICES ASSUME NEW ref \in Builtins \cup Decls, DefOf(ref, Known).alignment = 0
               PROVE  DefOf(ref, Known) = Unsized
    BY DEF Blank
  <2>1. CASE ref \in Builtins  BY <1>2, <2>1, RefFacts DEF TypeInv
  <2>2. CASE ref \in Decls  BY <1>1, <2>2, RefFacts, KnownFacts DEF TypeInv
  <2> QED  BY <2>1, <2>2
<1> QED  BY <1>1, <1>3

LEMMA KnownGrows ==
  ASSUME TypeInv, NEW now,
         \A i \in Decls : Known[i].alignment # 0 => now[i] = Known[i]
  PROVE  Grows(Known, now)
<1> SUFFICES ASSUME NEW ref \in Builtins \cup Decls, DefOf(ref, Known).alignment # 0
             PROVE  DefOf(ref, now) = DefOf(ref, Known)
  BY DEF Grows
<1>1. CASE ref \in Builtins  BY <1>1, RefFacts DEF TypeInv
<1>2. CASE ref \in Decls
  <2>1. DefOf(ref, Known) = SizeIn(Known[ref]) /\ DefOf(ref, now) = SizeIn(now[ref])
    BY <1>2, RefFacts DEF TypeInv
  <2>2. Known[ref].alignment # 0  BY <2>1 DEF SizeIn
  <2> QED  BY <1>2, <2>1, <2>2
<1> QED  BY <1>1, <1>2

LEMMA KnownNext ==
  ASSUME TypeInv, prog' = prog
  PROVE  /\ DOMAIN Known' = Decls
         /\ \A i \in Decls : (Known')[i] = KnownAs(prog[i], (node')[i], (structure')[i])
BY DEF Known, KnownAs, StructKinds, IsStruct, SizeOf, SizeIn, Decls

(* A step that changes one declaration j, which keeps its size.            *)
LEMMA OneChanges ==
  ASSUME TypeInv, SizedInv, prog' = prog, NEW j \in Decls,
         \A i \in Decls : i # j => /\ (node')[i] = node[i]
                                   /\ (structure')[i] = structure[i],
         Known[j].alignment # 0 => (Known')[j] = Known[j]
  PROVE  /\ \A i \in Decls : i # j => (Known')[i] = Known[i]
         /\ Grows(Known, Known')
         /\ Blank(Known)
<1>1. ASSUME NEW i \in Decls, i # j  PROVE (Known')[i] = Known[i]
  <2>1. Known[i] = KnownAs(prog[i], node[i], structure[i])  BY KnownFacts
  <2>2. (Known')[i] = KnownAs(prog[i], (node')[i], (structure')[i])  BY KnownNext
  <2> QED  BY <1>1, <2>1, <2>2
<1>2. \A i \in Decls : Known[i].alignment # 0 => (Known')[i] = Known[i]
  BY <1>1
<1> QED  BY <1>1, <1>2, KnownGrows, BlankKnown

LEMMA SizedKept ==
  ASSUME TypeInv, SizedInv, NEW i \in Decls, NEW now, Grows(Known, now), Blank(Known),
         NEW table, SymsGrow(symbols, table)
  PROVE  Sized(i, prog[i], node[i], fieldType[i], structure[i], now, table)
<1>1. Sized(i, prog[i], node[i], fieldType[i], structure[i], Known, symbols)
  BY DEF SizedInv
<1>2. Named(prog[i])  BY ProgFacts DEF TypeInv, Named
<1>3. /\ DOMAIN fieldType[i] = DOMAIN prog[i].body
      /\ \A k \in DOMAIN prog[i].body : GoodType(fieldType[i][k])
      /\ GoodType(node[i].tid)
      /\ structure[i] \in LayoutType
  BY DEF TypeInv, FieldInv, NodeInv, StructureInv
<1>4. GoodFields(prog[i], fieldType[i], now, table)
  BY <1>1, <1>2, <1>3, FieldsKept DEF Sized
<1>5. GoodNamed(i, prog[i], node[i], now, table)
  BY <1>1, <1>2, <1>3, NamedKept DEF Sized
<1>6. GoodStruct(i, prog[i], node[i], fieldType[i], structure[i], now)
  BY <1>1, <1>3, StructKept DEF Sized
<1> QED  BY <1>1, <1>4, <1>5, <1>6 DEF Sized

LEMMA StepSized ==
  ASSUME TypeInv, SizedInv, prog' = prog, NEW j \in Decls,
         \A i \in Decls : i # j => /\ (node')[i] = node[i]
                                   /\ (fieldType')[i] = fieldType[i]
                                   /\ (structure')[i] = structure[i],
         SymsGrow(symbols, symbols'),
         Known[j].alignment # 0 => (Known')[j] = Known[j],
         Sized(j, prog[j], (node')[j], (fieldType')[j], (structure')[j],
               Known', symbols')
  PROVE  SizedInv'
<1>1. Grows(Known, Known') /\ Blank(Known)  BY OneChanges
<1>2. ASSUME NEW i \in Decls
      PROVE  Sized(i, prog[i], (node')[i], (fieldType')[i], (structure')[i],
                   Known', symbols')
  <2>1. CASE i = j  BY <2>1
  <2>2. CASE i # j
    <3>1. Sized(i, prog[i], node[i], fieldType[i], structure[i], Known', symbols')
      BY <1>1, SizedKept
    <3> QED  BY <2>2, <3>1
  <2> QED  BY <2>1, <2>2
<1>3. Decls' = Decls  BY DEF Decls
<1> QED  BY <1>2, <1>3 DEF SizedInv

LEMMA StepCopies ==
  ASSUME TypeInv, SizedInv, CopiesInv, prog' = prog, NEW j \in Decls,
         Busy => at = j,
         \A i \in Decls : i # j => /\ (node')[i] = node[i]
                                   /\ (structure')[i] = structure[i],
         \/ Busy' /\ at' = j
         \/ SizeIn((node')[j]) = (Known')[j]
  PROVE  CopiesInv'
<1>1. ASSUME NEW i \in Decls, i # j
      PROVE  SizeIn((node')[i]) = (Known')[i]
  <2>1. Known[i] = KnownAs(prog[i], node[i], structure[i])  BY KnownFacts
  <2>2. (Known')[i] = KnownAs(prog[i], (node')[i], (structure')[i])  BY KnownNext
  <2>3. SizeIn(node[i]) = Known[i]  BY <1>1 DEF CopiesInv
  <2> QED  BY <1>1, <2>1, <2>2, <2>3
<1>2. Decls' = Decls  BY DEF Decls
<1> QED  BY <1>1, <1>2 DEF CopiesInv

-----------------------------------------------------------------------------
(* The layout of the same fields has the same size and alignment.          *)

LEMMA LeastFacts ==
  ASSUME NEW T, T \subseteq Nat, T # {}
  PROVE  \E m \in T : \A y \in T : ~ (y < m)
<1> DEFINE R == OpToRel(<, Nat)
<1>1. IsWellFoundedOn(R, Nat)  BY NatLessThanWellFounded
<1> HIDE DEF R
<1>2. PICK m \in T : \A y \in T : ~ (<<y, m>> \in R)  BY <1>1, WFMin
<1>3. ASSUME NEW y \in T, y < m  PROVE <<y, m>> \in R
  BY <1>3 DEF R, OpToRel
<1> QED  BY <1>2, <1>3

LEMMA EndsUnique ==
  ASSUME NEW n \in Nat, NEW fields,
         NEW f \in [0 .. n -> Nat], NEW g \in [0 .. n -> Nat],
         EndsOf(f, n, fields), EndsOf(g, n, fields)
  PROVE  f[n] = g[n]
<1> SUFFICES ASSUME f[n] # g[n] PROVE FALSE  OBVIOUS
<1> DEFINE T == {k \in 0 .. n : f[k] # g[k]}
<1>1. n \in T  OBVIOUS
<1>2. T \subseteq Nat  OBVIOUS
<1>3. PICK m \in T : \A y \in T : ~ (y < m)
  <2> HIDE DEF T
  <2> QED  BY <1>1, <1>2, LeastFacts
<1>4. m \in 0 .. n /\ f[m] # g[m]  OBVIOUS
<1>5. m # 0  BY <1>4 DEF EndsOf
<1>6. m \in 1 .. n /\ m - 1 \in 0 .. n /\ m - 1 < m  BY <1>4, <1>5
<1>7. f[m - 1] = g[m - 1]  BY <1>3, <1>6
<1>8. f[m] = g[m]  BY <1>6, <1>7 DEF EndsOf
<1> QED  BY <1>4, <1>8

LEMMA LayoutUnique ==
  ASSUME NEW l \in LayoutType, NEW m \in LayoutType, LaidOutAs(l), LaidOutAs(m),
         l.fields = m.fields, l.c = m.c
  PROVE  SizeIn(l) = SizeIn(m)
<1> DEFINE n == Len(l.fields)
           fields == l.fields
<1>1. /\ n \in Nat /\ Len(l.offsets) = n /\ Len(m.offsets) = n
      /\ fields \in Seq(FieldType) /\ m.fields = fields
  BY DEF LayoutType, LaidOutAs
<1>2. Looped(l) /\ Looped(m)  BY DEF LaidOutAs
<1>3. l.maxAlign \in Nat \ {0} /\ m.maxAlign \in Nat \ {0}  BY <1>2 DEF Looped
<1> HIDE DEF n, fields
<1>4. l.offs \in Nat /\ m.offs \in Nat  BY DEF LayoutType
<1>5. /\ \A k \in 1 .. n : /\ fields[k].alignment \in 1 .. l.maxAlign
                           /\ fields[k].alignment \in 1 .. m.maxAlign
      /\ l.maxAlign = 1 \/ \E k \in 1 .. n : fields[k].alignment = l.maxAlign
      /\ m.maxAlign = 1 \/ \E k \in 1 .. n : fields[k].alignment = m.maxAlign
  BY <1>1, <1>2 DEF Looped, fields
<1>6. l.maxAlign <= m.maxAlign
  <2>1. CASE l.maxAlign = 1  BY <1>3, <2>1
  <2>2. ASSUME NEW k \in 1 .. n, fields[k].alignment = l.maxAlign
        PROVE  l.maxAlign <= m.maxAlign
    <3>1. fields[k].alignment \in 1 .. m.maxAlign  BY <1>5
    <3> QED  BY <1>3, <2>2, <3>1
  <2> QED  BY <1>5, <2>1, <2>2
<1>7. m.maxAlign <= l.maxAlign
  <2>1. CASE m.maxAlign = 1  BY <1>3, <2>1
  <2>2. ASSUME NEW k \in 1 .. n, fields[k].alignment = m.maxAlign
        PROVE  m.maxAlign <= l.maxAlign
    <3>1. fields[k].alignment \in 1 .. l.maxAlign  BY <1>5
    <3> QED  BY <1>3, <2>2, <3>1
  <2> QED  BY <1>5, <2>1, <2>2
<1>8. l.maxAlign = m.maxAlign  BY <1>3, <1>6, <1>7
<1>9. PICK f \in [0 .. n -> Nat] : EndsOf(f, n, fields) /\ f[n] = l.offs
  BY <1>1, <1>2 DEF Looped, fields
<1>10. PICK g \in [0 .. n -> Nat] : EndsOf(g, n, fields) /\ g[n] = m.offs
  BY <1>1, <1>2 DEF Looped, fields
<1>11. l.offs = m.offs  BY <1>1, <1>9, <1>10, EndsUnique
<1>12. Wide(l) = Wide(m)  BY <1>8, <1>11 DEF Wide
<1> QED  BY <1>8, <1>11, <1>12 DEF LaidOutAs, SizeIn

-----------------------------------------------------------------------------
(* What a visit sees of the sizes, and what it finds.                      *)

LEMMA OpenedFacts ==
  ASSUME TypeInv, SizedInv, CopiesInv, ~ Busy
  PROVE  /\ \A i \in Decls : i # at => Nodes[i] = node[i] /\ Opened[i] = node[i]
         /\ Nodes[at].size = 0 /\ Nodes[at].alignment = node[at].alignment
         /\ Nodes[at].self /\ Nodes[at].tid = node[at].tid
         /\ Opened[at].size = 0 /\ Opened[at].alignment = node[at].alignment
         /\ Opened[at].self = node[at].self /\ Opened[at].tid = node[at].tid
         /\ \A i \in Decls : SizeIn(node[i]) = Known[i]
         /\ node[at].alignment = Known[at].alignment
<1>1. at \in Decls /\ node \in [Decls -> NodeType]
  BY DEF TypeInv, PositionInv, NodeInv
<1>2. node[at] \in NodeType  BY <1>1
<1> DEFINE m == [node[at] EXCEPT !.size = 0, !.opaque = TRUE]
<1>3. /\ m.size = 0 /\ m.alignment = node[at].alignment
      /\ m.self = node[at].self /\ m.tid = node[at].tid
      /\ m \in NodeType
  BY <1>2 DEF NodeType
<1>4. Opened = [node EXCEPT ![at] = m]  BY DEF Opened
<1> HIDE DEF m
<1>5. Opened[at] = m /\ DOMAIN Opened = Decls
      /\ \A i \in Decls : i # at => Opened[i] = node[i]
  BY <1>1, <1>4
<1> DEFINE q == [m EXCEPT !.self = TRUE]
<1>6. q.size = 0 /\ q.alignment = node[at].alignment /\ q.self /\ q.tid = node[at].tid
  BY <1>3 DEF NodeType
<1>7. Nodes = [Opened EXCEPT ![at] = q]
  <2>1. Nodes = [Opened EXCEPT ![at] = [Opened[at] EXCEPT !.self = TRUE]]  BY DEF Nodes
  <2> QED  BY <1>5, <2>1
<1> HIDE DEF q
<1>8. Nodes[at] = q /\ \A i \in Decls : i # at => Nodes[i] = Opened[i]
  BY <1>1, <1>5, <1>7
<1>9. \A i \in Decls : SizeIn(node[i]) = Known[i]  BY DEF CopiesInv
<1>10. node[at].alignment = Known[at].alignment
  <2>1. SizeIn(node[at]) = Known[at]  BY <1>1, <1>9
  <2>2. SizeIn(node[at]).alignment = node[at].alignment  BY DEF SizeIn
  <2> QED  BY <2>1, <2>2
<1> QED  BY <1>3, <1>5, <1>6, <1>8, <1>9, <1>10

LEMMA SeenFacts ==
  ASSUME TypeInv, SizedInv, CopiesInv, ~ Busy,
         NEW ref \in Builtins \cup Decls, ref # at \/ Known[at].alignment = 0
  PROVE  DefOf(ref, Nodes) = DefOf(ref, Known)
<1>1. CASE ref \in Builtins  BY <1>1, RefFacts DEF TypeInv
<1>2. CASE ref \in Decls
  <2>1. DefOf(ref, Nodes) = SizeIn(Nodes[ref]) /\ DefOf(ref, Known) = SizeIn(Known[ref])
    BY <1>2, RefFacts DEF TypeInv
  <2>2. SizeIn(node[ref]) = Known[ref] /\ Known[ref] = SizeIn(Known[ref])
    BY <1>2, OpenedFacts, KnownFacts
  <2>3. CASE ref # at  BY <1>2, <2>1, <2>2, <2>3, OpenedFacts
  <2>4. CASE ref = at
    <3>1. Known[at] = Unsized  BY <1>2, <2>4, BlankKnown
    <3>2. Nodes[at].size = 0 /\ Nodes[at].alignment = 0  BY <2>4, OpenedFacts
    <3> QED  BY <2>1, <2>2, <2>4, <3>1, <3>2 DEF SizeIn, Unsized
  <2> QED  BY <2>3, <2>4
<1> QED  BY <1>1, <1>2

LEMMA SymbolsGrow ==
  ASSUME TypeInv, Registers
  PROVE  SymsGrow(symbols, Symbols)
BY VisitFacts DEF Symbols, SymsGrow, Registers, TypeInv, SymbolsInv

LEMMA LookedUp ==
  ASSUME TypeInv, SizedInv, CopiesInv, ~ Busy, NEW e \in TypeExpr,
         NEW syms \in [Names -> {0} \cup Decls], Resolve(e, syms, Nodes) # NoType
  PROVE  /\ CachedAs(Resolve(e, syms, Nodes), e, syms)
         /\ Resolve(e, syms, Nodes).ctor \in {"name", "ptr", "array"}
         /\ Known[at].alignment = 0 => FinalSnap(Resolve(e, syms, Nodes), Known)
<1> DEFINE ref == Lookup(e.name, syms)
           t == MakeType(e, ref, Nodes)
<1>1. Found(e.name, syms) /\ Resolve(e, syms, Nodes) = t  BY DEF Resolve
<1>2. e.ctor \in {"name", "ptr", "array"} /\ e.name \in Names \cup Builtins
  BY DEF TypeExpr
<1>3. ref \in Builtins \cup Decls  BY <1>1, <1>2 DEF Found, Lookup
<1> HIDE DEF ref
<1>4. /\ t.ctor = e.ctor /\ t.ref = ref /\ t.len = e.len
      /\ t.snap = IF e.ctor = "array" THEN DefOf(ref, Nodes) ELSE Unsized
  BY DEF MakeType
<1> HIDE DEF t
<1>5. Known[at].alignment = 0 => FinalSnap(t, Known)
  BY <1>3, <1>4, SeenFacts DEF FinalSnap
<1> QED  BY <1>1, <1>2, <1>4, <1>5 DEF CachedAs, ref

LEMMA CLookedUp ==
  ASSUME TypeInv, SizedInv, CopiesInv, ~ Busy, NEW e \in TypeExpr,
         NEW syms \in [Names -> {0} \cup Decls], Known[at].alignment = 0
  PROVE  /\ ResolveC(e, syms, Nodes).ctor \in {"name", "ptr", "array"}
         /\ FinalSnap(ResolveC(e, syms, Nodes), Known)
<1> DEFINE ref == IF Found(e.name, syms) THEN Lookup(e.name, syms) ELSE CInt
           t == MakeType(e, ref, Nodes)
<1>1. ResolveC(e, syms, Nodes) = t  BY DEF ResolveC
<1>2. e.ctor \in {"name", "ptr", "array"} /\ e.name \in Names \cup Builtins
  BY DEF TypeExpr
<1>3. ref \in Builtins \cup Decls  BY <1>2, ConstantsAssumption DEF Found, Lookup
<1> HIDE DEF ref
<1>4. /\ t.ctor = e.ctor /\ t.ref = ref
      /\ t.snap = IF e.ctor = "array" THEN DefOf(ref, Nodes) ELSE Unsized
  BY DEF MakeType
<1> HIDE DEF t
<1>5. FinalSnap(t, Known)  BY <1>3, <1>4, SeenFacts DEF FinalSnap
<1> QED  BY <1>1, <1>2, <1>4, <1>5

(* What has a size is found again as it was.                               *)
LEMMA SameLook ==
  ASSUME TypeInv, SizedInv, CopiesInv, ~ Busy, Registers, NEW e \in TypeExpr,
         NEW t, GoodType(t), CachedAs(t, e, symbols), FinalSnap(t, Known),
         NotItself(t, at), Measure(t, Known).alignment # 0
  PROVE  Resolve(e, Symbols, Nodes) = t
<1> DEFINE ref == Lookup(e.name, Symbols)
           u == MakeType(e, ref, Nodes)
<1>1. CachedAs(t, e, Symbols)  BY SymbolsGrow, CachedKept
<1>2. Resolve(e, Symbols, Nodes) = u /\ t.ctor = e.ctor /\ t.ref = ref /\ t.len = e.len
  BY <1>1 DEF CachedAs, Resolve
<1>3. e.ctor \in {"name", "ptr", "array"}  BY DEF TypeExpr
<1> HIDE DEF ref
<1>4. u = [ ctor |-> e.ctor, ref |-> ref, len |-> e.len,
            snap |-> IF e.ctor = "array" THEN DefOf(ref, Nodes) ELSE Unsized ]
  BY DEF MakeType
<1> HIDE DEF u
<1>5. t.snap = IF e.ctor = "array" THEN DefOf(ref, Nodes) ELSE Unsized
  <2>1. CASE e.ctor = "array"
    <3>1. t.snap = DefOf(ref, Known)  BY <1>2, <2>1, BlankKnown, ArrayFinal
    <3>2. ref # at /\ ref \in Builtins \cup Decls
      BY <1>2, <2>1 DEF NotItself, GoodType
    <3> QED  BY <2>1, <3>1, <3>2, SeenFacts
  <2>2. CASE e.ctor # "array"  BY <1>2, <2>2 DEF FinalSnap
  <2> QED  BY <2>1, <2>2
<1>6. t = [ ctor |-> t.ctor, ref |-> t.ref, len |-> t.len, snap |-> t.snap ]
  BY DEF GoodType, TypeId
<1> QED  BY <1>2, <1>4, <1>5, <1>6

(* What a type measures does not depend on the copy of the declaration     *)
(* that a visit has reset.                                                 *)
LEMMA SeenMeasure ==
  ASSUME TypeInv, SizedInv, CopiesInv, ~ Busy, NEW t, GoodType(t),
         Known[at].alignment = 0 \/ NotItself(t, at)
  PROVE  Measure(t, Nodes) = Measure(t, Known)
<1>1. ASSUME t.ctor = "name"  PROVE DefOf(t.ref, Nodes) = DefOf(t.ref, Known)
  <2>1. t.ref \in Builtins \cup Decls  BY <1>1 DEF GoodType
  <2>2. t.ref # at \/ Known[at].alignment = 0  BY <1>1 DEF NotItself
  <2> QED  BY <2>1, <2>2, SeenFacts
<1> QED  BY <1>1, MeasureSame

(* A type with a size is not made from a declaration without one.          *)
LEMMA MeasuredElsewhere ==
  ASSUME TypeInv, SizedInv, NEW i \in Decls, Known[i].alignment = 0,
         NEW t, GoodType(t), FinalSnap(t, Known), Measure(t, Known).alignment # 0
  PROVE  NotItself(t, i)
<1>1. DefOf(i, Known).alignment = 0
  BY RefFacts, KnownFacts DEF TypeInv
<1>2. CASE t.ctor = "name"
  BY <1>1, <1>2 DEF NotItself, Measure
<1>3. CASE t.ctor = "array"
  BY <1>1, <1>3, BlankKnown, ArrayFinal DEF NotItself
<1>4. CASE t.ctor \notin {"name", "array"}  BY <1>4 DEF NotItself
<1> QED  BY <1>2, <1>3, <1>4

-----------------------------------------------------------------------------
(* The steps.  Kept says what the theorems need of one: a declaration that *)
(* has its size keeps it.                                                  *)

Kept == \A i \in Decls : Known[i].alignment # 0 => (Known')[i] = Known[i]

StepSizes == SizesInv' /\ Kept

(* Of a node only this matters here.                                       *)
LEMMA NodeLike ==
  ASSUME NEW i, NEW p, NEW n, NEW m, NEW types, NEW s, NEW sizes, NEW syms,
         m.tid = n.tid, m.size = n.size, m.alignment = n.alignment,
         p.kind = "use" => ~ m.self, ~ m.self => ~ n.self,
         Sized(i, p, n, types, s, sizes, syms)
  PROVE  Sized(i, p, m, types, s, sizes, syms)
<1>1. SizeIn(m) = SizeIn(n)  BY DEF SizeIn
<1> QED  BY <1>1 DEF Sized, GoodNamed, GoodStruct, GoodNew

(* The conclusion of every step: what it left of Known.                    *)
LEMMA KeptFacts ==
  ASSUME TypeInv, SizedInv, prog' = prog, NEW j \in Decls,
         \A i \in Decls : i # j => /\ (node')[i] = node[i]
                                   /\ (structure')[i] = structure[i],
         Known[j].alignment # 0 => (Known')[j] = Known[j]
  PROVE  Kept
BY OneChanges DEF Kept

LEMMA KnownWhole ==
  ASSUME TypeInv, SizedInv, prog' = prog, NEW j \in Decls,
         \A i \in Decls : i # j => /\ (node')[i] = node[i]
                                   /\ (structure')[i] = structure[i],
         (Known')[j] = Known[j]
  PROVE  Known' = Known
<1>1. \A i \in Decls : (Known')[i] = Known[i]  BY OneChanges
<1>2. DOMAIN Known' = Decls  BY KnownNext
<1>3. Known \in [Decls -> FieldType]  BY KnownFacts
<1>4. Known' = [i \in Decls |-> (Known')[i]]
  BY <1>2 DEF Known, Decls
<1> QED  BY <1>1, <1>3, <1>4

LEMMA RedeclareSizes ==
  ASSUME TypeInv, TypeInv', SizesInv, Redeclare
  PROVE  StepSizes
<1>1. /\ SizedInv /\ CopiesInv /\ at \in Decls
      /\ Sized(at, prog[at], node[at], fieldType[at], structure[at], Known, symbols)
  BY VisitFacts DEF SizesInv, SizedInv
<1>2. /\ node' = Opened /\ ~ node[at].self /\ ~ Busy /\ prog' = prog
      /\ symbols' = symbols /\ fieldType' = fieldType /\ structure' = structure
      /\ lay' = lay
      /\ prog[at].kind # "use"
  BY DEF Redeclare, Registers, Visiting, d
<1>3. node[at].size = 0 /\ node[at].alignment = 0  BY <1>1, <1>2 DEF Sized, GoodNew
<1>4. /\ \A i \in Decls : i # at => (node')[i] = node[i]
      /\ (node')[at].size = 0 /\ (node')[at].alignment = node[at].alignment
      /\ (node')[at].tid = node[at].tid /\ (node')[at].self = node[at].self
      /\ SizeIn(node[at]) = Known[at]
  BY <1>1, <1>2, OpenedFacts
<1>5. SizeIn((node')[at]) = SizeIn(node[at])  BY <1>3, <1>4 DEF SizeIn
<1>6. (Known')[at] = Known[at]
  <2>1. Known[at] = KnownAs(prog[at], node[at], structure[at])  BY <1>1, KnownFacts
  <2>2. (Known')[at] = KnownAs(prog[at], (node')[at], structure[at])
    BY <1>1, <1>2, KnownNext
  <2> QED  BY <1>5, <2>1, <2>2 DEF KnownAs
<1>7. Known' = Known  BY <1>1, <1>2, <1>4, <1>6, KnownWhole
<1>8. Sized(at, prog[at], (node')[at], (fieldType')[at], (structure')[at], Known', symbols')
  <2>1. ~ (node')[at].self  BY <1>2, <1>4
  <2>2. Sized(at, prog[at], (node')[at], fieldType[at], structure[at], Known, symbols)
    BY <1>1, <1>2, <1>3, <1>4, <2>1, NodeLike
  <2> QED  BY <1>2, <1>7, <2>2
<1>9. SizedInv'
  <2>1. SymsGrow(symbols, symbols')  BY <1>2 DEF SymsGrow
  <2> QED  BY <1>1, <1>2, <1>4, <1>6, <1>8, <2>1, StepSized
<1>10. CopiesInv'
  <2>1. SizeIn((node')[at]) = (Known')[at]  BY <1>4, <1>5, <1>6
  <2> QED  BY <1>1, <1>2, <1>4, <2>1, StepCopies
<1>11. ~ Busy'  BY <1>2 DEF Busy
<1>12. Kept  BY <1>1, <1>2, <1>4, <1>6, KeptFacts
<1> QED  BY <1>9, <1>10, <1>11, <1>12 DEF StepSizes, SizesInv, BusyInv

(* The symbols of a visit that registers.                                  *)
LEMMA NowGrow ==
  ASSUME TypeInv, Registers, symbols' = Symbols
  PROVE  SymsGrow(symbols, symbols')
BY SymbolsGrow

LEMMA NamedSized ==
  ASSUME NEW i, NEW p, p.kind = "named", NEW n, NEW types, NEW s, NEW sizes, NEW syms,
         GoodFields(p, types, sizes, syms), GoodNamed(i, p, n, sizes, syms), n.self
  PROVE  Sized(i, p, n, types, s, sizes, syms)
BY DEF Sized, GoodStruct, GoodNew

(* type N = expr has its size: what it denotes measures the same.          *)
LEMMA SizedNamedAgain ==
  ASSUME TypeInv, SizedInv, CopiesInv, ~ Busy, Registers, d.kind = "named",
         Known[at].alignment # 0, NEW t,
         t = IF node[at].tid # NoType /\ ~Checking THEN node[at].tid
             ELSE Resolve(d.body[1], Symbols, Nodes)
  PROVE  /\ t = node[at].tid /\ t # NoType
         /\ Get(t, Nodes) = Known[at]
<1> DEFINE u == node[at].tid
<1>1. /\ at \in Decls /\ d = prog[at] /\ d.body[1] \in TypeExpr
      /\ Sized(at, d, node[at], fieldType[at], structure[at], Known, symbols)
  BY VisitFacts DEF SizedInv
<1>2. SizeIn(node[at]) = Known[at] /\ node[at].alignment # 0
  BY <1>1, OpenedFacts
<1>3. /\ u # NoType /\ NotItself(u, at) /\ SizeIn(node[at]) = Measure(u, Known)
      /\ FinalSnap(u, Known) /\ CachedAs(u, d.body[1], symbols)
  BY <1>1, <1>2 DEF Sized, GoodNamed
<1>4. GoodType(u)  BY <1>1 DEF TypeInv, NodeInv
<1> HIDE DEF u
<1>5. Measure(u, Known).alignment # 0  BY <1>2, <1>3 DEF SizeIn
<1>6. Resolve(d.body[1], Symbols, Nodes) = u
  BY <1>1, <1>3, <1>4, <1>5, SameLook
<1>7. u.ctor # "struct"  BY <1>1, <1>3 DEF CachedAs, TypeExpr
<1>8. Get(u, Nodes) = Measure(u, Nodes)  BY <1>4, <1>7, GetMeasure
<1>9. Measure(u, Nodes) = Measure(u, Known)  BY <1>3, <1>4, SeenMeasure
<1> QED  BY <1>2, <1>3, <1>6, <1>8, <1>9 DEF u

(* It has none yet: what it gets is final.                                 *)
LEMMA SizedNamedFirst ==
  ASSUME TypeInv, SizedInv, CopiesInv, ~ Busy, Registers, d.kind = "named",
         Known[at].alignment = 0, NEW t,
         t = IF node[at].tid # NoType /\ ~Checking THEN node[at].tid
             ELSE Resolve(d.body[1], Symbols, Nodes),
         t # NoType
  PROVE  /\ GoodType(t) /\ FinalSnap(t, Known) /\ CachedAs(t, d.body[1], Symbols)
         /\ Get(t, Nodes) = Measure(t, Known)
         /\ Measure(t, Known).alignment = 0 => Measure(t, Known).size = 0
         /\ Measure(t, Known).alignment # 0 => NotItself(t, at)
<1>1. /\ at \in Decls /\ d = prog[at] /\ d.body[1] \in TypeExpr
      /\ Sized(at, d, node[at], fieldType[at], structure[at], Known, symbols)
  BY VisitFacts DEF SizedInv
<1>2. Symbols \in [Names -> {0} \cup Decls] /\ Nodes \in [Decls -> NodeType]
  BY SymbolsType, NodesType
<1>3. GoodType(t) /\ FinalSnap(t, Known) /\ CachedAs(t, d.body[1], Symbols)
  <2>1. CASE t = node[at].tid
    <3>1. FinalSnap(t, Known) /\ CachedAs(t, d.body[1], symbols) /\ GoodType(t)
      BY <1>1, <2>1 DEF Sized, GoodNamed, TypeInv, NodeInv
    <3> QED  BY <1>1, <3>1, SymbolsGrow, CachedKept
  <2>2. CASE t = Resolve(d.body[1], Symbols, Nodes)
    <3>1. GoodType(t)  BY <1>1, <1>2, <2>2, ResolveGood DEF TypeInv
    <3> QED  BY <1>1, <1>2, <2>2, <3>1, LookedUp
  <2> QED  BY <2>1, <2>2
<1>4. t.ctor # "struct"  BY <1>1, <1>3 DEF CachedAs, TypeExpr
<1>5. Get(t, Nodes) = Measure(t, Nodes)  BY <1>3, <1>4, GetMeasure
<1>6. Measure(t, Nodes) = Measure(t, Known)  BY <1>3, SeenMeasure
<1>7. Measure(t, Known).alignment = 0 => Measure(t, Known).size = 0
  BY <1>3, BlankKnown, MeasureUnsized
<1>8. Measure(t, Known).alignment # 0 => NotItself(t, at)
  BY <1>1, <1>3, MeasuredElsewhere
<1> QED  BY <1>3, <1>5, <1>6, <1>7, <1>8

LEMMA VisitNamedSizes ==
  ASSUME TypeInv, TypeInv', SizesInv, VisitNamed
  PROVE  StepSizes
<1> DEFINE t == IF node[at].tid # NoType /\ ~Checking THEN node[at].tid
                ELSE Resolve(d.body[1], Symbols, Nodes)
           def == Get(t, Nodes)
           n == IF t = NoType THEN [Nodes[at] EXCEPT !.tid = NoType]
                ELSE Copied(t, def)
<1>1. /\ SizedInv /\ CopiesInv /\ at \in Decls /\ d = prog[at]
      /\ Sized(at, d, node[at], fieldType[at], structure[at], Known, symbols)
  BY VisitFacts DEF SizesInv, SizedInv
<1>2. /\ ~ Busy /\ d.kind = "named" /\ Registers /\ prog' = prog
      /\ symbols' = Symbols /\ fieldType' = fieldType /\ structure' = structure
      /\ lay' = lay
      /\ node' = [Nodes EXCEPT ![at] = n]
  BY DEF VisitNamed, Visiting
<1>3. /\ SizeIn(node[at]) = Known[at]
      /\ node[at].alignment = Known[at].alignment
      /\ \A i \in Decls : i # at => Nodes[i] = node[i]
      /\ Nodes[at].size = 0 /\ Nodes[at].alignment = node[at].alignment
      /\ Nodes[at].self
      /\ Nodes \in [Decls -> NodeType] /\ Nodes[at] \in NodeType
  BY <1>1, <1>2, OpenedFacts, NodesType
<1>4. t = NoType => n.tid = NoType /\ n.size = 0 /\ n.alignment = node[at].alignment /\ n.self
  <2> HIDE DEF t
  <2> SUFFICES ASSUME t = NoType
               PROVE n.tid = NoType /\ n.size = 0 /\ n.alignment = node[at].alignment /\ n.self
    OBVIOUS
  <2>1. n = [Nodes[at] EXCEPT !.tid = NoType]  OBVIOUS
  <2> QED  BY <1>3, <2>1 DEF NodeType
<1>5. t # NoType => n.tid = t /\ n.size = def.size /\ n.alignment = def.alignment /\ n.self
  <2> HIDE DEF t, def
  <2> QED  BY DEF Copied
<1>6. t = IF node[at].tid # NoType /\ ~Checking THEN node[at].tid
          ELSE Resolve(d.body[1], Symbols, Nodes)
  OBVIOUS
<1>7. def = Get(t, Nodes)  OBVIOUS
<1> HIDE DEF n, t, def
<1>8. (node')[at] = n /\ \A i \in Decls : i # at => (node')[i] = node[i]
  BY <1>1, <1>2, <1>3
<1>9. (Known')[at] = SizeIn(n) /\ Known[at] = SizeIn(node[at])
  <2>1. d.kind \notin StructKinds  BY <1>2 DEF StructKinds
  <2> QED  BY <1>1, <1>2, <1>3, <1>8, <2>1, KnownNext DEF KnownAs
<1>10. Known[at].alignment # 0 => /\ t = node[at].tid /\ t # NoType
                                  /\ def = Known[at]
  BY <1>1, <1>2, <1>6, <1>7, SizedNamedAgain
<1>11. Known[at].alignment = 0 /\ t # NoType =>
         /\ GoodType(t) /\ FinalSnap(t, Known) /\ CachedAs(t, d.body[1], Symbols)
         /\ def = Measure(t, Known)
         /\ Measure(t, Known).alignment = 0 => Measure(t, Known).size = 0
         /\ Measure(t, Known).alignment # 0 => NotItself(t, at)
  <2> SUFFICES ASSUME Known[at].alignment = 0, t # NoType
               PROVE  /\ GoodType(t) /\ FinalSnap(t, Known)
                      /\ CachedAs(t, d.body[1], Symbols)
                      /\ def = Measure(t, Known)
                      /\ Measure(t, Known).alignment = 0 => Measure(t, Known).size = 0
                      /\ Measure(t, Known).alignment # 0 => NotItself(t, at)
    OBVIOUS
  <2> QED  BY <1>1, <1>2, <1>6, <1>7, SizedNamedFirst
<1>12. Known[at].alignment # 0 => SizeIn(n) = Known[at]
  <2> SUFFICES ASSUME Known[at].alignment # 0 PROVE SizeIn(n) = Known[at]  OBVIOUS
  <2>1. n.size = Known[at].size /\ n.alignment = Known[at].alignment
    BY <1>5, <1>10
  <2> QED  BY <1>1, <2>1, KnownFacts DEF SizeIn
<1>13. Grows(Known, Known') /\ Blank(Known)
  BY <1>1, <1>2, <1>8, <1>9, <1>12, OneChanges
<1>14. SymsGrow(symbols, symbols')  BY <1>2, NowGrow
<1>15. Sized(at, prog[at], node[at], fieldType[at], structure[at], Known', symbols')
  BY <1>1, <1>13, <1>14, SizedKept
<1>16. GoodNamed(at, d, n, Known', symbols')
  <2>1. CASE Known[at].alignment # 0
    <3>1. n.tid = node[at].tid  BY <1>5, <1>10, <2>1
    <3>2. n.size = node[at].size /\ n.alignment = node[at].alignment
      BY <1>3, <1>5, <1>10, <2>1 DEF SizeIn
    <3>3. SizeIn(n) = SizeIn(node[at])  BY <3>2 DEF SizeIn
    <3> QED  BY <1>1, <1>15, <3>1, <3>2, <3>3 DEF Sized, GoodNamed
  <2>2. CASE Known[at].alignment = 0 /\ t = NoType
    <3>1. n.tid = NoType /\ n.size = 0 /\ n.alignment = 0  BY <1>3, <1>4, <2>2
    <3> QED  BY <3>1 DEF GoodNamed
  <2>3. CASE Known[at].alignment = 0 /\ t # NoType
    <3>1. n.tid = t /\ n.size = def.size /\ n.alignment = def.alignment  BY <1>5, <2>3
    <3>2. /\ GoodType(t) /\ FinalSnap(t, Known) /\ CachedAs(t, d.body[1], Symbols)
          /\ def = Measure(t, Known)
          /\ Measure(t, Known).alignment = 0 => Measure(t, Known).size = 0
          /\ Measure(t, Known).alignment # 0 => NotItself(t, at)
      BY <1>11, <2>3
    <3>3. FinalSnap(t, Known')  BY <1>13, <3>2, FinalSnapKept
    <3>4. CachedAs(t, d.body[1], symbols')  BY <1>2, <3>2
    <3>5. CASE def.alignment = 0
      <4>1. n.size = 0 /\ n.alignment = 0  BY <3>1, <3>2, <3>5
      <4> QED  BY <2>3, <3>1, <3>3, <3>4, <4>1 DEF GoodNamed
    <3>6. CASE def.alignment # 0
      <4>1. Measure(t, Known') = Measure(t, Known)
        BY <1>13, <3>2, <3>6, MeasureKept
      <4>2. NotItself(t, at)  BY <3>2, <3>6
      <4>3. SizeIn(n) = def
        <5>1. StructureInv /\ def \in FieldType  BY <1>3, <1>7, <3>2, GetType DEF TypeInv
        <5> QED  BY <3>1, <5>1 DEF SizeIn, FieldType
      <4> QED  BY <2>3, <3>1, <3>2, <3>3, <3>4, <3>6, <4>1, <4>2, <4>3 DEF GoodNamed
    <3> QED  BY <3>5, <3>6
  <2> QED  BY <2>1, <2>2, <2>3
<1>17. Sized(at, prog[at], (node')[at], (fieldType')[at], (structure')[at], Known', symbols')
  <2>1. GoodFields(d, fieldType[at], Known', symbols')  BY <1>1, <1>15 DEF Sized
  <2>2. n.self  BY <1>4, <1>5
  <2>3. Sized(at, d, n, fieldType[at], structure[at], Known', symbols')
    BY <1>2, <1>16, <2>1, <2>2, NamedSized
  <2> QED  BY <1>1, <1>2, <1>8, <2>3
<1>18. SizedInv'
  BY <1>1, <1>2, <1>8, <1>9, <1>12, <1>14, <1>17, StepSized
<1>19. CopiesInv'
  BY <1>1, <1>2, <1>8, <1>9, StepCopies
<1>20. ~ Busy'  BY <1>2 DEF Busy
<1>21. Kept  BY <1>1, <1>2, <1>8, <1>9, <1>12, KeptFacts
<1> QED  BY <1>18, <1>19, <1>20, <1>21 DEF StepSizes, SizesInv, BusyInv

(* A structure that has its layout.                                        *)
LEMMA LaidFacts ==
  ASSUME TypeInv, SizedInv, NEW i \in Decls, prog[i].kind \in StructKinds,
         Known[i].alignment # 0
  PROVE  /\ structure[i].alignment # 0 /\ LaidOutAs(structure[i])
         /\ structure[i].fields = Measures(fieldType[i], Known)
         /\ structure[i].c = (prog[i].kind = "cstruct")
         /\ \A k \in DOMAIN prog[i].body :
              /\ fieldType[i][k] # NoType /\ GoodType(fieldType[i][k])
              /\ FinalSnap(fieldType[i][k], Known)
              /\ Measure(fieldType[i][k], Known).alignment # 0
              /\ NotItself(fieldType[i][k], i)
              /\ prog[i].kind = "struct" =>
                   CachedAs(fieldType[i][k], prog[i].body[k], symbols)
<1>1. /\ Sized(i, prog[i], node[i], fieldType[i], structure[i], Known, symbols)
      /\ Known[i] = SizeIn(structure[i])
      /\ structure[i] \in LayoutType
      /\ DOMAIN fieldType[i] = DOMAIN prog[i].body
      /\ \A k \in DOMAIN prog[i].body : GoodType(fieldType[i][k])
  BY KnownFacts DEF SizedInv, TypeInv, FieldInv, StructureInv, KnownAs
<1>2. structure[i].alignment # 0  BY <1>1 DEF SizeIn
<1>3. /\ structure[i].fields = Measures(fieldType[i], Known)
      /\ \A k \in DOMAIN fieldType[i] : NotItself(fieldType[i][k], i)
      /\ structure[i].c = (prog[i].kind = "cstruct")
      /\ LaidOutAs(structure[i])
  BY <1>1, <1>2 DEF Sized, GoodStruct, StructKinds
<1>4. ASSUME NEW k \in DOMAIN prog[i].body
      PROVE  /\ fieldType[i][k] # NoType
             /\ FinalSnap(fieldType[i][k], Known)
             /\ Measure(fieldType[i][k], Known).alignment # 0
             /\ prog[i].kind = "struct" =>
                  CachedAs(fieldType[i][k], prog[i].body[k], symbols)
  <2>1. /\ DOMAIN structure[i].fields = DOMAIN prog[i].body
        /\ structure[i].fields[k] = Measure(fieldType[i][k], Known)
    BY <1>1, <1>3 DEF Measures
  <2>2. structure[i].fields[k].alignment # 0  BY <1>1, <1>3, <2>1, LaidOutFields
  <2>3. Measure(NoType, Known).alignment = 0  BY DEF Measure, NoType, Unsized
  <2>4. fieldType[i][k] # NoType  BY <2>1, <2>2, <2>3
  <2> QED  BY <1>1, <2>1, <2>2, <2>4 DEF Sized, GoodFields
<1> QED  BY <1>1, <1>2, <1>3, <1>4

LEMMA FieldTypesAgain ==
  ASSUME TypeInv, SizedInv, CopiesInv, ~ Busy, Registers, d.kind \in StructKinds,
         Known[at].alignment # 0
  PROVE  /\ d.kind = "struct" => FieldTypes = fieldType[at]
         /\ CFieldTypes = fieldType[at]
<1>1. /\ at \in Decls /\ d = prog[at]
      /\ \A k \in DOMAIN d.body : d.body[k] \in TypeExpr
  BY VisitFacts
<1>2. fieldType[at] \in [DOMAIN d.body -> TypeId]  BY <1>1 DEF TypeInv, FieldInv
<1>3. ASSUME d.kind = "struct", NEW k \in DOMAIN d.body
      PROVE  Resolve(d.body[k], Symbols, Nodes) = fieldType[at][k]
  BY <1>1, <1>3, LaidFacts, SameLook DEF StructKinds
<1>4. ASSUME d.kind = "struct"  PROVE FieldTypes = fieldType[at]
  <2>1. \A k \in DOMAIN d.body : FieldTypes[k] = fieldType[at][k]
    BY <1>3, <1>4 DEF FieldTypes
  <2>2. FieldTypes = [k \in DOMAIN d.body |-> FieldTypes[k]]  BY DEF FieldTypes
  <2> QED  BY <1>2, <2>1, <2>2
<1>5. CFieldTypes = fieldType[at]
  <2>1. \A k \in DOMAIN d.body : fieldType[at][k] # NoType  BY <1>1, LaidFacts
  <2>2. \A k \in DOMAIN d.body : CFieldTypes[k] = fieldType[at][k]
    BY <2>1 DEF CFieldTypes
  <2>3. CFieldTypes = [k \in DOMAIN d.body |-> CFieldTypes[k]]  BY DEF CFieldTypes
  <2> QED  BY <1>2, <2>2, <2>3
<1> QED  BY <1>4, <1>5

LEMMA FieldTypesFirst ==
  ASSUME TypeInv, SizedInv, CopiesInv, ~ Busy, Registers, Known[at].alignment = 0
  PROVE  /\ d.kind \in StructKinds => GoodFields(d, FieldTypes, Known, Symbols)
         /\ d.kind = "cstruct" => GoodFields(d, CFieldTypes, Known, Symbols)
<1>1. /\ at \in Decls /\ d = prog[at]
      /\ \A k \in DOMAIN d.body : d.body[k] \in TypeExpr
      /\ Symbols \in [Names -> {0} \cup Decls]
      /\ SymsGrow(symbols, Symbols)
  BY VisitFacts, SymbolsType, SymbolsGrow
<1>2. ASSUME NEW k \in DOMAIN d.body, fieldType[at][k] # NoType
      PROVE  /\ fieldType[at][k].ctor \in {"name", "ptr", "array"}
             /\ FinalSnap(fieldType[at][k], Known)
             /\ d.kind = "struct" => CachedAs(fieldType[at][k], d.body[k], Symbols)
  <2>1. GoodFields(d, fieldType[at], Known, symbols)
    BY <1>1 DEF SizedInv, Sized
  <2>2. /\ fieldType[at][k].ctor \in {"name", "ptr", "array"}
        /\ FinalSnap(fieldType[at][k], Known)
        /\ d.kind = "struct" => CachedAs(fieldType[at][k], d.body[k], symbols)
    BY <1>2, <2>1 DEF GoodFields
  <2> QED  BY <1>1, <2>2, CachedKept
<1>3. ASSUME NEW k \in DOMAIN d.body, Resolve(d.body[k], Symbols, Nodes) # NoType
      PROVE  /\ Resolve(d.body[k], Symbols, Nodes).ctor \in {"name", "ptr", "array"}
             /\ FinalSnap(Resolve(d.body[k], Symbols, Nodes), Known)
             /\ CachedAs(Resolve(d.body[k], Symbols, Nodes), d.body[k], Symbols)
  BY <1>1, <1>3, LookedUp
<1>4. GoodFields(d, FieldTypes, Known, Symbols)
  <2> SUFFICES ASSUME NEW k \in DOMAIN d.body, FieldTypes[k] # NoType
               PROVE  /\ FieldTypes[k].ctor \in {"name", "ptr", "array"}
                      /\ FinalSnap(FieldTypes[k], Known)
                      /\ d.kind = "struct" => CachedAs(FieldTypes[k], d.body[k], Symbols)
    BY DEF GoodFields
  <2>1. \/ FieldTypes[k] = fieldType[at][k]
        \/ FieldTypes[k] = Resolve(d.body[k], Symbols, Nodes)
    BY DEF FieldTypes
  <2>2. CASE FieldTypes[k] = fieldType[at][k]
    <3>1. fieldType[at][k] # NoType  BY <2>2
    <3> QED  BY <1>2, <2>2, <3>1
  <2>3. CASE FieldTypes[k] = Resolve(d.body[k], Symbols, Nodes)
    <3>1. Resolve(d.body[k], Symbols, Nodes) # NoType  BY <2>3
    <3> QED  BY <1>3, <2>3, <3>1
  <2> QED  BY <2>1, <2>2, <2>3
<1>5. ASSUME d.kind = "cstruct"  PROVE GoodFields(d, CFieldTypes, Known, Symbols)
  <2> SUFFICES ASSUME NEW k \in DOMAIN d.body, CFieldTypes[k] # NoType
               PROVE  /\ CFieldTypes[k].ctor \in {"name", "ptr", "array"}
                      /\ FinalSnap(CFieldTypes[k], Known)
    BY <1>5 DEF GoodFields
  <2>1. \/ fieldType[at][k] # NoType /\ CFieldTypes[k] = fieldType[at][k]
        \/ CFieldTypes[k] = ResolveC(d.body[k], Symbols, Nodes)
    BY DEF CFieldTypes
  <2>2. CASE fieldType[at][k] # NoType /\ CFieldTypes[k] = fieldType[at][k]
    BY <1>2, <2>2
  <2>3. CASE CFieldTypes[k] = ResolveC(d.body[k], Symbols, Nodes)
    BY <1>1, <2>3, CLookedUp
  <2> QED  BY <2>1, <2>2, <2>3
<1> QED  BY <1>4, <1>5

LEMMA VisitKnownStructSizes ==
  ASSUME TypeInv, TypeInv', SizesInv, VisitKnownStruct
  PROVE  StepSizes
<1> DEFINE t == node[at].tid
           def == Get(t, Nodes)
           n == Copied(t, def)
<1>1. /\ SizedInv /\ CopiesInv /\ at \in Decls /\ d = prog[at]
      /\ Sized(at, d, node[at], fieldType[at], structure[at], Known, symbols)
  BY VisitFacts DEF SizesInv, SizedInv
<1>2. /\ ~ Busy /\ d.kind = "struct" /\ Registers /\ prog' = prog
      /\ t # NoType
      /\ symbols' = symbols /\ structure' = structure /\ lay' = lay
      /\ node' = [Nodes EXCEPT ![at] = n]
      /\ fieldType' = IF Checking THEN [fieldType EXCEPT ![at] = FieldTypes]
                      ELSE fieldType
  BY DEF VisitKnownStruct, Visiting
<1>3. /\ SizeIn(node[at]) = Known[at]
      /\ \A i \in Decls : i # at => Nodes[i] = node[i]
      /\ Nodes \in [Decls -> NodeType]
  BY <1>1, <1>2, OpenedFacts, NodesType
<1>4. structure[at].alignment # 0 /\ t = StructType(at)
  BY <1>1, <1>2 DEF Sized, GoodStruct
<1>5. Known[at] = SizeIn(structure[at])
  BY <1>1, <1>2, KnownFacts DEF KnownAs, StructKinds
<1>6. def = Known[at]  BY <1>4, <1>5 DEF Get, StructType, SizeIn
<1>7. /\ n.tid = node[at].tid /\ n.self
      /\ n.size = Known[at].size /\ n.alignment = Known[at].alignment
  <2> HIDE DEF t, def
  <2>1. n.tid = t /\ n.self /\ n.size = def.size /\ n.alignment = def.alignment
    BY DEF Copied
  <2> QED  BY <1>6, <2>1 DEF t
<1> HIDE DEF n, t, def
<1>8. /\ (node')[at] = n /\ \A i \in Decls : i # at => (node')[i] = node[i]
  BY <1>1, <1>2, <1>3
<1>9. n.size = node[at].size /\ n.alignment = node[at].alignment
  BY <1>3, <1>7 DEF SizeIn
<1>10. (Known')[at] = Known[at]
  BY <1>1, <1>2, <1>5, KnownNext DEF KnownAs, StructKinds
<1>11. \A i \in Decls : (fieldType')[i] = fieldType[i]
  <2>1. Known[at].alignment # 0  BY <1>4, <1>5 DEF SizeIn
  <2>2. FieldTypes = fieldType[at]
    BY <1>1, <1>2, <2>1, FieldTypesAgain DEF StructKinds
  <2>3. DOMAIN fieldType = Decls  BY DEF TypeInv, FieldInv
  <2> QED  BY <1>1, <1>2, <2>2, <2>3
<1>12. Known' = Known  BY <1>1, <1>2, <1>8, <1>10, KnownWhole
<1>13. Sized(at, d, n, fieldType[at], structure[at], Known, symbols)
  BY <1>1, <1>2, <1>7, <1>9, NodeLike
<1>14. SizedInv'
  <2>1. SymsGrow(symbols, symbols')  BY <1>2 DEF SymsGrow
  <2>2. Sized(at, prog[at], (node')[at], (fieldType')[at], (structure')[at],
              Known', symbols')
    BY <1>1, <1>2, <1>8, <1>11, <1>12, <1>13
  <2> QED  BY <1>1, <1>2, <1>8, <1>10, <1>11, <2>1, <2>2, StepSized
<1>15. CopiesInv'
  <2>1. SizeIn((node')[at]) = (Known')[at]  BY <1>3, <1>8, <1>9, <1>10 DEF SizeIn
  <2> QED  BY <1>1, <1>2, <1>8, <2>1, StepCopies
<1>16. ~ Busy'  BY <1>2 DEF Busy
<1>17. Kept  BY <1>1, <1>2, <1>8, <1>10, KeptFacts
<1> QED  BY <1>14, <1>15, <1>16, <1>17 DEF StepSizes, SizesInv, BusyInv

(* A structure without a layout: nothing is known of its size, before the  *)
(* visit as after it.                                                      *)
LEMMA StructSized ==
  ASSUME NEW i, NEW p, p.kind \in StructKinds, NEW n, n.self, n.tid = NoType,
         NEW types, NEW s, s.alignment = 0, s.size = 0, NEW sizes, NEW syms,
         GoodFields(p, types, sizes, syms)
  PROVE  Sized(i, p, n, types, s, sizes, syms)
BY DEF Sized, GoodNamed, GoodStruct, GoodNew, StructKinds

LEMMA UnlaidFacts ==
  ASSUME TypeInv, SizedInv, CopiesInv, ~ Busy, d.kind \in StructKinds
  PROVE  /\ Known[at] = SizeIn(structure[at])
         /\ structure[at].alignment = Known[at].alignment
         /\ Known[at].alignment = 0 => structure[at].size = 0 /\ node[at].tid = NoType
         /\ d.kind = "struct" /\ node[at].tid = NoType => Known[at].alignment = 0
<1>1. /\ at \in Decls /\ d = prog[at]
      /\ Sized(at, d, node[at], fieldType[at], structure[at], Known, symbols)
  BY VisitFacts DEF SizedInv
<1>2. Known[at] = SizeIn(structure[at])  BY <1>1, KnownFacts DEF KnownAs
<1>3. structure[at].alignment = Known[at].alignment  BY <1>2 DEF SizeIn
<1>4. Known[at].alignment = 0 => structure[at].size = 0
  BY <1>1, <1>3 DEF Sized, GoodStruct, StructKinds
<1>5. Known[at].alignment = 0 => node[at].tid = NoType
  BY <1>1, <1>3 DEF Sized, GoodStruct, StructKinds
<1>6. StructType(at) # NoType  BY DEF StructType, NoType
<1>7. d.kind = "struct" /\ node[at].tid = NoType => Known[at].alignment = 0
  BY <1>1, <1>3, <1>6 DEF Sized, GoodStruct
<1> QED  BY <1>2, <1>3, <1>4, <1>5, <1>7

(* A visit that leaves the structure without a layout, for now.            *)
LEMMA UnlaidStep ==
  ASSUME TypeInv, TypeInv', SizedInv, CopiesInv, ~ Busy, Registers,
         d.kind \in StructKinds, Known[at].alignment = 0,
         NEW types, GoodFields(d, types, Known, Symbols),
         prog' = prog, node' = Nodes, symbols' = Symbols, structure' = structure,
         fieldType' = [fieldType EXCEPT ![at] = types]
  PROVE  SizedInv' /\ CopiesInv' /\ Kept
<1>1. /\ at \in Decls /\ d = prog[at]
      /\ structure[at].alignment = 0 /\ structure[at].size = 0 /\ node[at].tid = NoType
      /\ DOMAIN fieldType = Decls
  BY VisitFacts, UnlaidFacts DEF TypeInv, FieldInv
<1>2. /\ (node')[at].self /\ (node')[at].tid = NoType
      /\ (node')[at].size = 0 /\ (node')[at].alignment = 0
      /\ \A i \in Decls : i # at => (node')[i] = node[i]
  BY <1>1, OpenedFacts
<1>3. /\ (fieldType')[at] = types
      /\ \A i \in Decls : i # at => (fieldType')[i] = fieldType[i]
  BY <1>1
<1>4. (Known')[at] = Known[at]
  BY <1>1, KnownNext, UnlaidFacts DEF KnownAs
<1>5. Known' = Known  BY <1>1, <1>2, <1>4, KnownWhole
<1>6. Sized(at, d, (node')[at], types, structure[at], Known, symbols')
  BY <1>1, <1>2, StructSized
<1>7. SizedInv'
  <2>1. SymsGrow(symbols, symbols')  BY NowGrow
  <2>2. Sized(at, prog[at], (node')[at], (fieldType')[at], (structure')[at],
              Known', symbols')
    BY <1>1, <1>3, <1>5, <1>6
  <2> QED  BY <1>1, <1>2, <1>3, <1>4, <2>1, <2>2, StepSized
<1>8. CopiesInv'
  <2>1. Known[at] = Unsized  BY <1>1, BlankKnown
  <2>2. SizeIn((node')[at]) = (Known')[at]  BY <1>2, <1>4, <2>1 DEF SizeIn, Unsized
  <2> QED  BY <1>1, <1>2, <2>2, StepCopies
<1>9. Kept  BY <1>1, <1>2, <1>4, KeptFacts
<1> QED  BY <1>7, <1>8, <1>9

LEMMA VisitIncompleteStructSizes ==
  ASSUME TypeInv, TypeInv', SizesInv, VisitIncompleteStruct
  PROVE  StepSizes
<1>1. /\ SizedInv /\ CopiesInv
      /\ ~ Busy /\ d.kind = "struct" /\ Registers /\ node[at].tid = NoType
      /\ prog' = prog /\ symbols' = Symbols /\ structure' = structure /\ lay' = lay
      /\ node' = Nodes /\ fieldType' = [fieldType EXCEPT ![at] = FieldTypes]
  BY DEF VisitIncompleteStruct, Visiting, SizesInv
<1>2. d.kind \in StructKinds  BY <1>1 DEF StructKinds
<1>3. Known[at].alignment = 0  BY <1>1, <1>2, UnlaidFacts
<1>4. GoodFields(d, FieldTypes, Known, Symbols)  BY <1>1, <1>2, <1>3, FieldTypesFirst
<1>5. SizedInv' /\ CopiesInv' /\ Kept
  BY <1>1, <1>2, <1>3, <1>4, UnlaidStep
<1>6. ~ Busy'  BY <1>1 DEF Busy
<1> QED  BY <1>5, <1>6 DEF StepSizes, SizesInv, BusyInv

(* The layout begins with what the field types measure now.                *)
LEMMA BegunLooped ==
  ASSUME NEW fields, NEW c, BeginLayout(fields, c), Len(fields) \in Nat
  PROVE  /\ (lay').fields = fields /\ (lay').c = c /\ (lay').status = "placing"
         /\ Looped(lay')
<1>1. lay' = [ status |-> "placing", c |-> c, fields |-> fields, offsets |-> <<>>,
               offs |-> 0, maxAlign |-> 1, size |-> 0, alignment |-> 0 ]
  BY DEF BeginLayout, NoLayout
<1>2. /\ (lay').fields = fields /\ (lay').c = c /\ (lay').status = "placing"
      /\ (lay').offsets = <<>> /\ (lay').offs = 0 /\ (lay').maxAlign = 1
  BY <1>1
<1>3. Len((lay').offsets) = 0  BY <1>2
<1>4. \E ends \in [0 .. 0 -> Nat] : EndsOf(ends, 0, fields) /\ ends[0] = 0
  <2> DEFINE ends == [x \in 0 .. 0 |-> 0]
  <2>1. ends \in [0 .. 0 -> Nat] /\ ends[0] = 0  OBVIOUS
  <2>2. 1 .. 0 = {}  OBVIOUS
  <2> HIDE DEF ends
  <2>3. EndsOf(ends, 0, fields)  BY <2>1, <2>2 DEF EndsOf
  <2> QED  BY <2>1, <2>3
<1>5. 1 .. 0 = {}  OBVIOUS
<1>6. Looped(lay')  BY <1>2, <1>3, <1>4, <1>5 DEF Looped
<1> QED  BY <1>2, <1>6

LEMMA SizesMeasures ==
  ASSUME TypeInv, NEW types \in [DOMAIN d.body -> TypeId],
         \A k \in DOMAIN d.body : GoodType(types[k]) /\ types[k].ctor # "struct"
  PROVE  Sizes(types) = Measures(types, Nodes)
<1>1. \A k \in DOMAIN types : Get(types[k], Nodes) = Measure(types[k], Nodes)
  BY GetMeasure
<1> QED  BY <1>1 DEF Sizes, Measures

LEMMA NoStructFields ==
  ASSUME NEW p, NEW types, NEW sizes, NEW syms, GoodFields(p, types, sizes, syms)
  PROVE  \A k \in DOMAIN p.body : types[k].ctor # "struct"
BY DEF GoodFields, NoType

LEMMA OpenStructSizes ==
  ASSUME TypeInv, TypeInv', SizesInv, OpenStruct
  PROVE  StepSizes
<1>1. /\ SizedInv /\ CopiesInv
      /\ ~ Busy /\ d.kind = "struct" /\ Registers /\ node[at].tid = NoType
      /\ prog' = prog /\ symbols' = Symbols /\ structure' = structure
      /\ node' = Nodes /\ fieldType' = [fieldType EXCEPT ![at] = FieldTypes]
      /\ at' = at /\ BeginLayout(Sizes(FieldTypes), FALSE)
  BY DEF OpenStruct, Visiting, SizesInv, position
<1>2. d.kind \in StructKinds /\ at \in Decls /\ d = prog[at] /\ DOMAIN fieldType = Decls
  BY <1>1, VisitFacts DEF StructKinds, TypeInv, FieldInv
<1>3. Known[at].alignment = 0 /\ structure[at].alignment = 0
  BY <1>1, <1>2, UnlaidFacts
<1>4. GoodFields(d, FieldTypes, Known, Symbols)  BY <1>1, <1>2, <1>3, FieldTypesFirst
<1>5. SizedInv' /\ CopiesInv' /\ Kept
  BY <1>1, <1>2, <1>3, <1>4, UnlaidStep
<1>6. /\ FieldTypes \in [DOMAIN d.body -> TypeId]
      /\ \A k \in DOMAIN d.body : GoodType(FieldTypes[k]) /\ FieldTypes[k].ctor # "struct"
  BY <1>4, FieldTypesGood, NoStructFields
<1>7. Sizes(FieldTypes) = Measures(FieldTypes, Nodes) /\ Sizes(FieldTypes) \in Seq(FieldType)
  BY <1>6, SizesMeasures, SizesType
<1>8. /\ (lay').fields = Sizes(FieldTypes) /\ (lay').c = FALSE /\ Looped(lay')
  <2>1. Len(Sizes(FieldTypes)) \in Nat  BY <1>7
  <2> QED  BY <1>1, <2>1, BegunLooped
<1>9. (lay').fields = Measures((fieldType')[at], node')
  BY <1>1, <1>2, <1>7, <1>8
<1>10. (Known')[at].alignment = 0
  <2>1. (Known')[at] = SizeIn(structure[at])  BY <1>1, <1>2, KnownNext DEF KnownAs
  <2> QED  BY <1>3, <2>1 DEF SizeIn
<1>11. (node')[at].self /\ (node')[at].size = 0 /\ (node')[at].alignment = 0
  BY <1>1, <1>3, OpenedFacts
<1>12. BusyInv'
  <2>1. (prog')[at'].kind = "struct" /\ (structure')[at'].alignment = 0
    BY <1>1, <1>2, <1>3
  <2> QED  BY <1>1, <1>8, <1>9, <1>10, <1>11, <2>1 DEF BusyInv, IsStruct
<1> QED  BY <1>5, <1>12 DEF StepSizes, SizesInv

LEMMA CStructNode ==
  ASSUME NEW i, NEW p, p.kind = "cstruct", NEW n, NEW m, m.tid = n.tid, m.self,
         NEW types, NEW s, NEW sizes, NEW syms,
         Sized(i, p, n, types, s, sizes, syms)
  PROVE  Sized(i, p, m, types, s, sizes, syms)
BY DEF Sized, GoodNamed, GoodStruct, GoodNew

(* A C structure that has its layout is laid out again.                    *)
LEMMA RelaidStep ==
  ASSUME TypeInv, TypeInv', SizedInv, CopiesInv, ~ Busy, Busy', at' = at, Registers,
         d.kind = "cstruct", Known[at].alignment # 0,
         prog' = prog, node' = Nodes, symbols' = Symbols, structure' = structure,
         fieldType' = [fieldType EXCEPT ![at] = CFieldTypes]
  PROVE  SizedInv' /\ CopiesInv' /\ Kept /\ CFieldTypes = fieldType[at]
<1>1. /\ at \in Decls /\ d = prog[at] /\ d.kind \in StructKinds
      /\ DOMAIN fieldType = Decls
  BY VisitFacts DEF TypeInv, FieldInv, StructKinds
<1>2. /\ (node')[at].self /\ (node')[at].tid = node[at].tid
      /\ \A i \in Decls : i # at => (node')[i] = node[i]
  BY <1>1, OpenedFacts
<1>3. CFieldTypes = fieldType[at]  BY <1>1, FieldTypesAgain
<1>4. \A i \in Decls : (fieldType')[i] = fieldType[i]  BY <1>1, <1>3
<1>5. (Known')[at] = Known[at]
  BY <1>1, KnownNext, UnlaidFacts DEF KnownAs
<1>6. Grows(Known, Known') /\ Blank(Known)  BY <1>1, <1>2, <1>5, OneChanges
<1>7. SymsGrow(symbols, symbols')  BY NowGrow
<1>8. Sized(at, d, node[at], fieldType[at], structure[at], Known', symbols')
  BY <1>1, <1>6, <1>7, SizedKept
<1>9. Sized(at, d, (node')[at], fieldType[at], structure[at], Known', symbols')
  BY <1>2, <1>8, CStructNode
<1>10. Sized(at, prog[at], (node')[at], (fieldType')[at], (structure')[at],
             Known', symbols')
  BY <1>1, <1>4, <1>9
<1>11. SizedInv'  BY <1>1, <1>2, <1>4, <1>5, <1>7, <1>10, StepSized
<1>12. CopiesInv'  BY <1>1, <1>2, StepCopies
<1>13. Kept  BY <1>1, <1>2, <1>5, KeptFacts
<1> QED  BY <1>3, <1>11, <1>12, <1>13

LEMMA OpenCStructSizes ==
  ASSUME TypeInv, TypeInv', SizesInv, OpenCStruct
  PROVE  StepSizes
<1>1. /\ SizedInv /\ CopiesInv
      /\ ~ Busy /\ d.kind = "cstruct" /\ Registers
      /\ prog' = prog /\ symbols' = Symbols /\ structure' = structure
      /\ node' = Nodes /\ fieldType' = [fieldType EXCEPT ![at] = CFieldTypes]
      /\ at' = at /\ BeginLayout(Sizes(CFieldTypes), TRUE)
  BY DEF OpenCStruct, Visiting, SizesInv, position
<1>2. d.kind \in StructKinds /\ at \in Decls /\ d = prog[at] /\ DOMAIN fieldType = Decls
  BY <1>1, VisitFacts DEF StructKinds, TypeInv, FieldInv
<1>3. /\ CFieldTypes \in [DOMAIN d.body -> TypeId]
      /\ \A k \in DOMAIN d.body : GoodType(CFieldTypes[k])
  BY FieldTypesGood
<1>4. Busy'
  <2>1. Sizes(CFieldTypes) \in Seq(FieldType)  BY <1>3, SizesType
  <2>2. Len(Sizes(CFieldTypes)) \in Nat  BY <2>1
  <2>3. (lay').status = "placing"  BY <1>1, <2>2, BegunLooped
  <2> QED  BY <2>3 DEF Busy
<1>5. /\ SizedInv' /\ CopiesInv' /\ Kept
      /\ \A k \in DOMAIN d.body : CFieldTypes[k].ctor # "struct"
  <2>1. CASE Known[at].alignment # 0
    <3>1. /\ SizedInv' /\ CopiesInv' /\ Kept /\ CFieldTypes = fieldType[at]
      BY <1>1, <1>4, <2>1, RelaidStep
    <3>2. GoodFields(d, fieldType[at], Known, symbols)  BY <1>1, <1>2 DEF SizedInv, Sized
    <3>3. \A k \in DOMAIN d.body : fieldType[at][k].ctor # "struct"
      BY <3>2, NoStructFields
    <3> QED  BY <3>1, <3>3
  <2>2. CASE Known[at].alignment = 0
    <3>1. GoodFields(d, CFieldTypes, Known, Symbols)
      BY <1>1, <2>2, FieldTypesFirst
    <3>2. SizedInv' /\ CopiesInv' /\ Kept
      BY <1>1, <1>2, <2>2, <3>1, UnlaidStep
    <3> QED  BY <3>1, <3>2, NoStructFields
  <2> QED  BY <2>1, <2>2
<1>6. Sizes(CFieldTypes) = Measures(CFieldTypes, Nodes)
      /\ Sizes(CFieldTypes) \in Seq(FieldType)
  BY <1>3, <1>5, SizesMeasures, SizesType
<1>7. /\ (lay').fields = Sizes(CFieldTypes) /\ (lay').c = TRUE /\ Looped(lay')
  <2>1. Len(Sizes(CFieldTypes)) \in Nat  BY <1>6
  <2> QED  BY <1>1, <2>1, BegunLooped
<1>8. (lay').fields = Measures((fieldType')[at], node')
  BY <1>1, <1>2, <1>6, <1>7
<1>9. (Known')[at].alignment = Known[at].alignment
  <2>1. (Known')[at] = SizeIn(structure[at])  BY <1>1, <1>2, KnownNext DEF KnownAs
  <2>2. Known[at] = SizeIn(structure[at])  BY <1>1, <1>2, UnlaidFacts
  <2> QED  BY <2>1, <2>2
<1>10. /\ (node')[at].self /\ (node')[at].size = 0
       /\ (node')[at].alignment = Known[at].alignment
  BY <1>1, OpenedFacts
<1>11. BusyInv'
  <2>1. (prog')[at'].kind = "cstruct"  BY <1>1, <1>2
  <2> QED  BY <1>1, <1>7, <1>8, <1>9, <1>10, <2>1 DEF BusyInv, IsStruct
<1> QED  BY <1>5, <1>11 DEF StepSizes, SizesInv

-----------------------------------------------------------------------------
(* Steps that leave the declarations alone.                                *)

LEMMA AllSame ==
  ASSUME TypeInv, SizedInv, prog' = prog, node' = node, fieldType' = fieldType,
         structure' = structure, symbols' = symbols
  PROVE  /\ SizedInv' /\ Kept /\ Known' = Known /\ Decls' = Decls
<1>1. Known' = Known  BY DEF Known, IsStruct, SizeOf
<1>2. Decls' = Decls  BY DEF Decls
<1> QED  BY <1>1, <1>2 DEF SizedInv, Kept

(* The loop has placed one more field.                                     *)
LEMMA EndsExtend ==
  ASSUME NEW n \in Nat, NEW fields, NEW ends \in [0 .. n -> Nat], EndsOf(ends, n, fields),
         NEW e \in Nat,
         e = Align(ends[n] + fields[n + 1].size, fields[n + 1].alignment)
  PROVE  \E more \in [0 .. n + 1 -> Nat] :
           EndsOf(more, n + 1, fields) /\ more[n + 1] = e
<1> DEFINE more == [x \in 0 .. n + 1 |-> IF x = n + 1 THEN e ELSE ends[x]]
<1>1. more \in [0 .. n + 1 -> Nat]  OBVIOUS
<1>2. more[n + 1] = e /\ \A k \in 0 .. n : more[k] = ends[k]  OBVIOUS
<1> HIDE DEF more
<1>3. more[0] = 0  BY <1>2 DEF EndsOf
<1>4. ASSUME NEW k \in 1 .. n + 1
      PROVE  more[k] = Align(more[k - 1] + fields[k].size, fields[k].alignment)
  <2>1. CASE k = n + 1
    <3>1. k - 1 = n  BY <2>1
    <3>2. more[n] = ends[n]  BY <1>2
    <3> QED  BY <1>2, <2>1, <3>1, <3>2
  <2>2. CASE k # n + 1
    <3>1. k \in 1 .. n /\ k - 1 \in 0 .. n /\ k \in 0 .. n  BY <2>2
    <3>2. ends[k] = Align(ends[k - 1] + fields[k].size, fields[k].alignment)
      BY <3>1 DEF EndsOf
    <3> QED  BY <1>2, <3>1, <3>2
  <2> QED  BY <2>1, <2>2
<1>5. EndsOf(more, n + 1, fields)  BY <1>3, <1>4 DEF EndsOf
<1> QED  BY <1>1, <1>2, <1>5

LEMMA PlacedLooped ==
  ASSUME LayInv, Looped(lay), PlaceField
  PROVE  /\ Looped(lay') /\ (lay').c = lay.c /\ (lay').fields = lay.fields
<1> DEFINE n == Len(lay.offsets)
           f == lay.fields[n + 1]
           m == IF f.alignment > lay.maxAlign THEN f.alignment ELSE lay.maxAlign
           e == Align(lay.offs + f.size, f.alignment)
           more == Append(lay.offsets, CurrentOffset)
<1>1. /\ lay \in LayoutType /\ lay.maxAlign \in Nat \ {0} /\ lay.offs \in Nat
      /\ lay.fields \in Seq(FieldType) /\ lay.offsets \in Seq(Nat)
      /\ n \in Nat /\ n < Len(lay.fields) /\ f.alignment # 0
  BY DEF LayInv, LayoutType, PlaceField, Pending, Placed, Current
<1>2. f \in FieldType
  <2>1. n + 1 \in 1 .. Len(lay.fields)  BY <1>1
  <2> QED  BY <1>1, <2>1
<1>3. f.size \in Nat /\ f.alignment \in Nat \ {0}  BY <1>1, <1>2 DEF FieldType
<1>4. e \in Nat
  <2>0. lay.offs \in Nat  BY <1>1
  <2>1. lay.offs + f.size \in Nat  BY <1>3, <2>0
  <2> QED  BY <1>3, <2>1, AlignUp
<1>5. lay' = [lay EXCEPT !.offsets = more, !.offs = e, !.maxAlign = m]
  BY DEF PlaceField, Current, Placed, OffsAfter
<1>6. Len(more) = n + 1
  <2>1. CurrentOffset \in Nat
    BY <1>1, <1>3, AlignUp DEF CurrentOffset, Current, Placed
  <2> QED  BY <1>1, <2>1
<1>7. m \in Nat \ {0} /\ m >= lay.maxAlign /\ m >= f.alignment
      /\ (m = lay.maxAlign \/ m = f.alignment)
  BY <1>1, <1>3
<1>8. PICK ends \in [0 .. n -> Nat] : EndsOf(ends, n, lay.fields) /\ ends[n] = lay.offs
  BY DEF Looped
<1>9. f = lay.fields[n + 1]  OBVIOUS
<1>10. e = Align(lay.offs + f.size, f.alignment)  OBVIOUS
<1>11. /\ \A k \in 1 .. n : lay.fields[k].alignment \in 1 .. lay.maxAlign
       /\ lay.maxAlign = 1 \/ \E k \in 1 .. n : lay.fields[k].alignment = lay.maxAlign
  BY DEF Looped
<1> HIDE DEF f, e, m, more
<1>12. /\ (lay').offsets = more /\ (lay').offs = e /\ (lay').maxAlign = m
       /\ (lay').fields = lay.fields /\ (lay').c = lay.c
  BY <1>1, <1>5 DEF LayoutType
<1> HIDE DEF n
<1>13. \E all \in [0 .. n + 1 -> Nat] :
         EndsOf(all, n + 1, lay.fields) /\ all[n + 1] = e
  <2> DEFINE fields == lay.fields
  <2>1. n \in Nat  BY <1>1
  <2>2. e = Align(ends[n] + fields[n + 1].size, fields[n + 1].alignment)
    BY <1>8, <1>9, <1>10
  <2>3. EndsOf(ends, n, fields)  BY <1>8
  <2> HIDE DEF fields
  <2>4. \E all \in [0 .. n + 1 -> Nat] : EndsOf(all, n + 1, fields) /\ all[n + 1] = e
    BY <1>4, <2>1, <2>2, <2>3, EndsExtend
  <2> QED  BY <2>4 DEF fields
<1>14. \A k \in 1 .. n + 1 : lay.fields[k].alignment \in 1 .. m
  <2> SUFFICES ASSUME NEW k \in 1 .. n + 1 PROVE lay.fields[k].alignment \in 1 .. m
    OBVIOUS
  <2>1. CASE k = n + 1  BY <1>3, <1>7, <1>9, <2>1
  <2>2. CASE k # n + 1
    <3>1. k \in 1 .. n  BY <1>1, <2>2
    <3>2. lay.fields[k].alignment \in 1 .. lay.maxAlign  BY <1>11, <3>1
    <3> QED  BY <1>1, <1>7, <3>2
  <2> QED  BY <2>1, <2>2
<1>15. m = 1 \/ \E k \in 1 .. n + 1 : lay.fields[k].alignment = m
  <2>1. CASE m = f.alignment
    <3>1. n + 1 \in 1 .. n + 1  BY <1>1
    <3> QED  BY <1>9, <2>1, <3>1
  <2>2. CASE m = lay.maxAlign
    <3>1. 1 .. n \subseteq 1 .. n + 1  BY <1>1
    <3> QED  BY <1>11, <2>2, <3>1
  <2> QED  BY <1>7, <2>1, <2>2
<1>16. n + 1 <= Len(lay.fields)  BY <1>1
<1>17. Looped(lay')
  BY <1>6, <1>7, <1>12, <1>13, <1>14, <1>15, <1>16 DEF Looped
<1> QED  BY <1>12, <1>17

LEMMA PlaceStructFieldSizes ==
  ASSUME TypeInv, TypeInv', SizesInv, PlaceStructField
  PROVE  StepSizes
<1>1. /\ SizedInv /\ CopiesInv /\ BusyInv /\ LayInv
      /\ prog' = prog /\ node' = node /\ fieldType' = fieldType
      /\ structure' = structure /\ symbols' = symbols /\ at' = at
      /\ PlaceField
  BY DEF PlaceStructField, position, SizesInv, TypeInv
<1>2. Busy  BY <1>1 DEF PlaceField, Pending, Busy
<1>3. SizedInv' /\ Kept /\ Known' = Known /\ Decls' = Decls  BY <1>1, AllSame
<1>4. /\ Looped(lay') /\ (lay').c = lay.c /\ (lay').fields = lay.fields
  BY <1>1, <1>2, PlacedLooped DEF BusyInv
<1>5. BusyInv'  BY <1>1, <1>2, <1>3, <1>4 DEF BusyInv, IsStruct
<1>6. Busy'
  <2>1. lay \in LayoutType /\ lay.status = "placing"
    BY <1>1 DEF LayInv, PlaceField, Pending
  <2>2. (lay').status = lay.status  BY <1>1, <2>1 DEF PlaceField, LayoutType
  <2> QED  BY <2>1, <2>2 DEF Busy
<1>7. CopiesInv'  BY <1>1, <1>2, <1>3, <1>6 DEF CopiesInv
<1> QED  BY <1>3, <1>5, <1>7 DEF StepSizes, SizesInv

LEMMA DieInLayoutSizes ==
  ASSUME TypeInv, TypeInv', SizesInv, DieInLayout
  PROVE  StepSizes
<1>1. /\ SizedInv /\ CopiesInv /\ BusyInv /\ LayInv
      /\ prog' = prog /\ node' = node /\ fieldType' = fieldType
      /\ structure' = structure /\ symbols' = symbols /\ at' = at
      /\ lay.status = "placing" /\ lay' = [lay EXCEPT !.status = "crashed"]
  BY DEF DieInLayout, DivideByZero, Pending, position, SizesInv, TypeInv
<1>2. Busy  BY <1>1 DEF Busy
<1>3. SizedInv' /\ Kept /\ Known' = Known /\ Decls' = Decls  BY <1>1, AllSame
<1>4. /\ (lay').c = lay.c /\ (lay').fields = lay.fields /\ (lay').status = "crashed"
      /\ (lay').offsets = lay.offsets /\ (lay').offs = lay.offs
      /\ (lay').maxAlign = lay.maxAlign
  BY <1>1 DEF LayInv, LayoutType
<1>5. Looped(lay)  BY <1>1, <1>2 DEF BusyInv
<1>6. Looped(lay')  BY <1>4, <1>5 DEF Looped
<1>7. BusyInv'  BY <1>1, <1>2, <1>3, <1>4, <1>6 DEF BusyInv, IsStruct
<1>8. Busy'  BY <1>4 DEF Busy
<1>9. CopiesInv'  BY <1>1, <1>2, <1>3, <1>8 DEF CopiesInv
<1> QED  BY <1>3, <1>7, <1>9 DEF StepSizes, SizesInv

LEMMA VisitUseSizes ==
  ASSUME TypeInv, TypeInv', SizesInv, VisitUse
  PROVE  StepSizes
<1>1. /\ SizedInv /\ CopiesInv /\ ~ Busy
      /\ prog' = prog /\ node' = node /\ fieldType' = fieldType
      /\ structure' = structure /\ symbols' = symbols /\ lay' = lay
  BY DEF VisitUse, Visiting, SizesInv
<1>2. SizedInv' /\ Kept /\ Known' = Known /\ Decls' = Decls  BY <1>1, AllSame
<1>3. ~ Busy'  BY <1>1 DEF Busy
<1>4. CopiesInv'  BY <1>1, <1>2 DEF CopiesInv
<1> QED  BY <1>2, <1>3, <1>4 DEF StepSizes, SizesInv, BusyInv

(* The layout is complete.                                                 *)
LEMMA ClosedLaid ==
  ASSUME LayInv, LayInv', Looped(lay), CloseLayout
  PROVE  /\ LaidOutAs(lay') /\ (lay').alignment # 0 /\ lay' \in LayoutType
         /\ (lay').fields = lay.fields /\ (lay').c = lay.c /\ (lay').status = "idle"
<1>1. /\ lay \in LayoutType /\ lay' \in LayoutType /\ lay.maxAlign # 0
      /\ Len(lay.offsets) = Len(lay.fields)
  BY DEF LayInv, CloseLayout, Placed
<1> DEFINE size == IF Widened THEN Align(lay.offs, 16) ELSE PackedSize
           alignment == IF Widened THEN 16 ELSE lay.maxAlign
<1>2. lay' = [ lay EXCEPT !.status = "idle", !.size = size, !.alignment = alignment ]
  BY DEF CloseLayout
<1>3. Widened = Wide(lay)  BY DEF Widened, Wide, PackedSize
<1>4. /\ size = IF Wide(lay) THEN Align(lay.offs, 16) ELSE Align(lay.offs, lay.maxAlign)
      /\ alignment = IF Wide(lay) THEN 16 ELSE lay.maxAlign
      /\ alignment # 0
  BY <1>1, <1>3 DEF PackedSize
<1> HIDE DEF size, alignment
<1>5. /\ (lay').status = "idle" /\ (lay').size = size /\ (lay').alignment = alignment
      /\ (lay').c = lay.c /\ (lay').fields = lay.fields
      /\ (lay').offsets = lay.offsets /\ (lay').offs = lay.offs
      /\ (lay').maxAlign = lay.maxAlign
  BY <1>1, <1>2 DEF LayoutType
<1>6. Looped(lay')  BY <1>5 DEF Looped
<1>7. Wide(lay') = Wide(lay)  BY <1>5 DEF Wide
<1>8. LaidOutAs(lay')  BY <1>1, <1>4, <1>5, <1>6, <1>7 DEF LaidOutAs
<1> QED  BY <1>1, <1>4, <1>5, <1>8

(* The fields measure, for the loop, what they measure for good.           *)
LEMMA BusyMeasures ==
  ASSUME TypeInv, SizesInv, Busy,
         NEW t, GoodType(t), Known[at].alignment = 0 \/ NotItself(t, at)
  PROVE  Measure(t, node) = Measure(t, Known)
<1>1. SizedInv /\ CopiesInv /\ BusyInv  BY DEF SizesInv
<1>2. at \in Decls  BY VisitFacts
<1>3. ASSUME t.ctor = "name"  PROVE DefOf(t.ref, node) = DefOf(t.ref, Known)
  <2>1. t.ref \in Builtins \cup Decls  BY <1>3 DEF GoodType
  <2>2. CASE t.ref \in Builtins  BY <2>2, RefFacts DEF TypeInv
  <2>3. CASE t.ref \in Decls
    <3>1. /\ DefOf(t.ref, node) = SizeIn(node[t.ref])
          /\ DefOf(t.ref, Known) = SizeIn(Known[t.ref])
      BY <2>3, RefFacts DEF TypeInv
    <3>2. Known[t.ref] = SizeIn(Known[t.ref])  BY <2>3, KnownFacts
    <3>3. CASE t.ref # at
      <4>1. SizeIn(node[t.ref]) = Known[t.ref]  BY <1>1, <2>3, <3>3 DEF CopiesInv
      <4> QED  BY <3>1, <3>2, <4>1
    <3>4. CASE t.ref = at
      <4>1. Known[at].alignment = 0  BY <1>3, <3>4 DEF NotItself
      <4>2. Known[at] = Unsized  BY <1>1, <1>2, <4>1, BlankKnown
      <4>3. node[at].size = 0 /\ node[at].alignment = 0  BY <1>1, <4>1 DEF BusyInv
      <4> QED  BY <3>1, <3>2, <3>4, <4>2, <4>3 DEF SizeIn, Unsized
    <3> QED  BY <3>3, <3>4
  <2> QED  BY <2>1, <2>2, <2>3
<1> QED  BY <1>3, MeasureSame

LEMMA ClosedFields ==
  ASSUME TypeInv, SizesInv, Busy, NEW l \in LayoutType, LaidOutAs(l),
         l.fields = lay.fields
  PROVE  /\ l.fields = Measures(fieldType[at], Known)
         /\ \A k \in DOMAIN fieldType[at] : NotItself(fieldType[at][k], at)
         /\ \A k \in DOMAIN fieldType[at] :
              Measure(fieldType[at][k], Known).alignment # 0
<1>1. /\ SizedInv /\ CopiesInv /\ BusyInv /\ at \in Decls
      /\ prog[at].kind \in StructKinds
      /\ lay.fields = Measures(fieldType[at], node)
  BY VisitFacts DEF SizesInv, BusyInv, IsStruct, StructKinds
<1>2. /\ DOMAIN fieldType[at] = DOMAIN prog[at].body
      /\ \A k \in DOMAIN fieldType[at] : GoodType(fieldType[at][k])
  BY <1>1 DEF TypeInv, FieldInv
<1>3. Known[at].alignment = 0 \/ \A k \in DOMAIN fieldType[at] : NotItself(fieldType[at][k], at)
  BY <1>1, <1>2, LaidFacts
<1>4. \A k \in DOMAIN fieldType[at] :
        Measure(fieldType[at][k], node) = Measure(fieldType[at][k], Known)
  BY <1>2, <1>3, BusyMeasures
<1>5. l.fields = Measures(fieldType[at], Known)  BY <1>1, <1>4 DEF Measures
<1>6. ASSUME NEW k \in DOMAIN fieldType[at]
      PROVE  Measure(fieldType[at][k], Known).alignment # 0
  <2>1. k \in DOMAIN l.fields /\ l.fields[k] = Measure(fieldType[at][k], Known)
    BY <1>5 DEF Measures
  <2> QED  BY <2>1, LaidOutFields
<1>7. ASSUME NEW k \in DOMAIN fieldType[at], Known[at].alignment = 0
      PROVE  NotItself(fieldType[at][k], at)
  <2>1. fieldType[at][k] # NoType
    <3>1. Measure(NoType, Known).alignment = 0  BY DEF Measure, NoType, Unsized
    <3> QED  BY <1>6, <3>1
  <2>2. FinalSnap(fieldType[at][k], Known)
    BY <1>1, <1>2, <2>1 DEF SizedInv, Sized, GoodFields
  <2> QED  BY <1>1, <1>2, <1>6, <1>7, <2>2, MeasuredElsewhere
<1> QED  BY <1>3, <1>5, <1>6, <1>7

LEMMA CloseStructSizes ==
  ASSUME TypeInv, TypeInv', SizesInv, CloseStruct
  PROVE  StepSizes
<1> DEFINE t == IF d.kind = "struct" THEN StructType(at) ELSE NoType
           n == Copied(t, lay')
<1>1. /\ SizedInv /\ CopiesInv /\ BusyInv /\ LayInv /\ LayInv'
      /\ at \in Decls /\ d = prog[at]
      /\ Sized(at, d, node[at], fieldType[at], structure[at], Known, symbols)
      /\ DOMAIN fieldType[at] = DOMAIN d.body
      /\ \A k \in DOMAIN d.body : GoodType(fieldType[at][k])
      /\ structure[at] \in LayoutType
  BY VisitFacts DEF SizesInv, SizedInv, TypeInv, FieldInv, StructureInv
<1>2. /\ CloseLayout /\ prog' = prog /\ symbols' = symbols /\ fieldType' = fieldType
      /\ structure' = [structure EXCEPT ![at] = lay']
      /\ node' = [node EXCEPT ![at] = n]
  BY DEF CloseStruct
<1>3. Busy /\ d.kind \in StructKinds /\ lay.c = (d.kind = "cstruct")
  BY <1>1, <1>2 DEF CloseLayout, Busy, BusyInv, IsStruct, StructKinds
<1>4. /\ LaidOutAs(lay') /\ (lay').alignment # 0 /\ lay' \in LayoutType
      /\ (lay').fields = lay.fields /\ (lay').c = lay.c /\ (lay').status = "idle"
  BY <1>1, <1>2, <1>3, ClosedLaid DEF BusyInv
<1>5. /\ n.tid = t /\ n.self /\ n.size = (lay').size /\ n.alignment = (lay').alignment
  BY DEF Copied
<1>6. SizeIn(n) = SizeIn(lay')  BY <1>5 DEF SizeIn
<1> HIDE DEF n
<1>7. /\ (node')[at] = n /\ (structure')[at] = lay'
      /\ \A i \in Decls : i # at => /\ (node')[i] = node[i]
                                    /\ (structure')[i] = structure[i]
  BY <1>1, <1>2 DEF TypeInv, NodeInv, StructureInv
<1>8. (Known')[at] = SizeIn(lay') /\ Known[at] = SizeIn(structure[at])
  BY <1>1, <1>2, <1>3, <1>7, KnownNext, KnownFacts DEF KnownAs
<1>9. /\ (lay').fields = Measures(fieldType[at], Known)
      /\ \A k \in DOMAIN fieldType[at] : NotItself(fieldType[at][k], at)
      /\ \A k \in DOMAIN fieldType[at] :
           Measure(fieldType[at][k], Known).alignment # 0
  BY <1>1, <1>3, <1>4, ClosedFields
<1>10. Known[at].alignment # 0 => (Known')[at] = Known[at]
  <2> SUFFICES ASSUME Known[at].alignment # 0
               PROVE  (Known')[at] = Known[at]
    OBVIOUS
  <2>1. /\ LaidOutAs(structure[at])
        /\ structure[at].fields = Measures(fieldType[at], Known)
        /\ structure[at].c = (d.kind = "cstruct")
    BY <1>1, <1>3, LaidFacts
  <2>2. (lay').fields = structure[at].fields  BY <1>9, <2>1
  <2>3. (lay').c = structure[at].c  BY <1>3, <1>4, <2>1
  <2>4. SizeIn(lay') = SizeIn(structure[at])
    BY <1>1, <1>4, <2>1, <2>2, <2>3, LayoutUnique
  <2> QED  BY <1>8, <2>4
<1>11. Grows(Known, Known') /\ Blank(Known)
  BY <1>1, <1>2, <1>7, <1>10, OneChanges
<1>12. SymsGrow(symbols, symbols')  BY <1>2 DEF SymsGrow
<1>13. GoodFields(d, fieldType[at], Known', symbols')
  BY <1>1, <1>11, <1>12, SizedKept DEF Sized
<1>14. Measures(fieldType[at], Known') = Measures(fieldType[at], Known)
  <2>1. \A k \in DOMAIN fieldType[at] :
          Measures(fieldType[at], Known)[k].alignment # 0
    BY <1>9 DEF Measures
  <2> QED  BY <1>1, <1>11, <2>1, MeasuresKept
<1>15. GoodStruct(at, d, n, fieldType[at], lay', Known')
  <2>1. n.tid = IF d.kind = "struct" /\ (lay').alignment # 0 THEN StructType(at)
                ELSE NoType
    BY <1>4, <1>5
  <2>2. (lay').fields = Measures(fieldType[at], Known')  BY <1>9, <1>14
  <2>3. (lay').c = (d.kind = "cstruct")  BY <1>3, <1>4
  <2> QED  BY <1>4, <1>9, <2>1, <2>2, <2>3 DEF GoodStruct
<1>16. Sized(at, d, n, fieldType[at], lay', Known', symbols')
  BY <1>3, <1>5, <1>13, <1>15 DEF Sized, GoodNamed, GoodNew, StructKinds
<1>17. SizedInv'
  <2>1. Sized(at, prog[at], (node')[at], (fieldType')[at], (structure')[at],
              Known', symbols')
    BY <1>1, <1>2, <1>7, <1>16
  <2>2. \A i \in Decls : (fieldType')[i] = fieldType[i]  BY <1>2
  <2> QED  BY <1>1, <1>2, <1>7, <1>10, <1>12, <2>1, <2>2, StepSized
<1>18. CopiesInv'
  <2>1. SizeIn((node')[at]) = (Known')[at]  BY <1>6, <1>7, <1>8
  <2> QED  BY <1>1, <1>2, <1>7, <2>1, StepCopies
<1>19. ~ Busy'  BY <1>4 DEF Busy
<1>20. Kept  BY <1>1, <1>2, <1>7, <1>10, KeptFacts
<1> QED  BY <1>17, <1>18, <1>19, <1>20 DEF StepSizes, SizesInv, BusyInv

-----------------------------------------------------------------------------
LEMMA InitSizes ==
  ASSUME Init
  PROVE  SizesInv
<1>1. TypeInv  BY InitTypeInv
<1>2. ~ Busy  BY DEF Init, Busy, NoLayout
<1>3. ASSUME NEW i \in Decls
      PROVE  /\ Sized(i, prog[i], node[i], fieldType[i], structure[i], Known, symbols)
             /\ SizeIn(node[i]) = Known[i]
  <2>1. /\ node[i] = NewNode /\ structure[i] = NoLayout
        /\ \A k \in DOMAIN prog[i].body : fieldType[i][k] = NoType
    BY <1>3 DEF Init, Decls
  <2>2. /\ node[i].tid = NoType /\ node[i].size = 0 /\ node[i].alignment = 0
        /\ ~ node[i].self
        /\ structure[i].alignment = 0 /\ structure[i].size = 0
    BY <2>1 DEF NewNode, NoLayout
  <2>3. GoodFields(prog[i], fieldType[i], Known, symbols)  BY <2>1 DEF GoodFields
  <2>4. GoodNamed(i, prog[i], node[i], Known, symbols)  BY <2>2 DEF GoodNamed
  <2>5. GoodStruct(i, prog[i], node[i], fieldType[i], structure[i], Known)
    BY <2>2 DEF GoodStruct
  <2>6. GoodNew(prog[i], node[i])  BY <2>2 DEF GoodNew
  <2>7. Known[i] = KnownAs(prog[i], node[i], structure[i])  BY <1>1, KnownFacts
  <2>8. SizeIn(node[i]) = Known[i]  BY <2>2, <2>7 DEF KnownAs, SizeIn
  <2> QED  BY <2>3, <2>4, <2>5, <2>6, <2>8 DEF Sized
<1> QED  BY <1>2, <1>3 DEF SizesInv, SizedInv, CopiesInv, BusyInv

LEMMA NextSizes ==
  ASSUME TypeInv, TypeInv', SizesInv, [Next]_vars
  PROVE  StepSizes
<1>1. CASE UNCHANGED vars
  <2>1. /\ SizedInv /\ CopiesInv /\ BusyInv
        /\ prog' = prog /\ node' = node /\ fieldType' = fieldType
        /\ structure' = structure /\ symbols' = symbols /\ lay' = lay /\ at' = at
    BY <1>1 DEF vars, position, SizesInv
  <2>2. SizedInv' /\ Kept /\ Known' = Known /\ Decls' = Decls  BY <2>1, AllSame
  <2>3. CopiesInv' /\ BusyInv'
    BY <2>1, <2>2 DEF CopiesInv, BusyInv, Busy, IsStruct
  <2> QED  BY <2>2, <2>3 DEF StepSizes, SizesInv
<1>2. CASE Next
  BY <1>2, RedeclareSizes, VisitNamedSizes, VisitKnownStructSizes,
     VisitIncompleteStructSizes, OpenStructSizes, OpenCStructSizes,
     PlaceStructFieldSizes, DieInLayoutSizes, CloseStructSizes, VisitUseSizes DEF Next
<1> QED  BY <1>1, <1>2

LEMMA KeptProg ==
  ASSUME [Next]_vars
  PROVE  prog' = prog /\ Decls' = Decls
<1>1. prog' = prog
  BY DEF vars, Next, Redeclare, VisitNamed, VisitKnownStruct, VisitIncompleteStruct,
     OpenStruct, OpenCStruct, PlaceStructField, DieInLayout, CloseStruct, VisitUse
<1> QED  BY <1>1 DEF Decls

LEMMA LaidOutFinal ==
  ASSUME TypeInv, SizesInv
  PROVE  LaidOutFromFinalSizes
<1> SUFFICES ASSUME ~ Busy, NEW i \in Decls, LaidOutStruct(i)
             PROVE  structure[i].fields = [ k \in DOMAIN fieldType[i] |->
                                              Get(fieldType[i][k], node) ]
  BY DEF LaidOutFromFinalSizes, Decls
<1>1. SizedInv /\ CopiesInv /\ prog[i].kind \in StructKinds /\ structure[i].alignment # 0
  BY DEF SizesInv, LaidOutStruct, IsStruct, StructKinds
<1>2. Known[i].alignment # 0
  BY <1>1, KnownFacts DEF KnownAs, SizeIn
<1>3. /\ structure[i].fields = Measures(fieldType[i], Known)
      /\ \A k \in DOMAIN prog[i].body : GoodType(fieldType[i][k])
  BY <1>1, <1>2, LaidFacts
<1>4. DOMAIN fieldType[i] = DOMAIN prog[i].body  BY DEF TypeInv, FieldInv
<1>5. ASSUME NEW k \in DOMAIN prog[i].body
      PROVE  Get(fieldType[i][k], node) = Measure(fieldType[i][k], Known)
  <2> DEFINE t == fieldType[i][k]
  <2>1. t.ctor # "struct"
    BY <1>1, <1>5, NoStructFields DEF SizedInv, Sized
  <2>2. GoodType(t)  BY <1>3
  <2> HIDE DEF t
  <2>3. Get(t, node) = Measure(t, node)  BY <2>1, <2>2, GetMeasure
  <2>4. ASSUME t.ctor = "name"  PROVE DefOf(t.ref, node) = DefOf(t.ref, Known)
    <3>1. t.ref \in Builtins \cup Decls  BY <2>2, <2>4 DEF GoodType
    <3>2. CASE t.ref \in Builtins  BY <3>2, RefFacts DEF TypeInv
    <3>3. CASE t.ref \in Decls
      <4>1. /\ DefOf(t.ref, node) = SizeIn(node[t.ref])
            /\ DefOf(t.ref, Known) = SizeIn(Known[t.ref])
        BY <3>3, RefFacts DEF TypeInv
      <4>2. SizeIn(node[t.ref]) = Known[t.ref]  BY <1>1, <3>3 DEF CopiesInv
      <4>3. Known[t.ref] = SizeIn(Known[t.ref])  BY <3>3, KnownFacts
      <4> QED  BY <4>1, <4>2, <4>3
    <3> QED  BY <3>1, <3>2, <3>3
  <2> QED  BY <2>3, <2>4, MeasureSame DEF t
<1> QED  BY <1>3, <1>4, <1>5 DEF Measures

(* The offsets of a structure are computed from sizes that are final: what *)
(* its fields measure at any later time, between two visits, is what they  *)
(* measured when compute_struct_size_alignment_offsets read them.  Every   *)
(* visit resets the size of the declaration it visits, array types copy    *)
(* the size they see, and a structure found by name may have none yet; the *)
(* layout divides by zero rather than use it.                              *)
THEOREM OffsetsFromFinalSizes == Spec => []LaidOutFromFinalSizes
<1>1. Init => TypeInv /\ SizesInv  BY InitTypeInv, InitSizes
<1>2. TypeInv /\ SizesInv /\ [Next]_vars => TypeInv' /\ SizesInv'
  BY NextTypeInv, NextSizes DEF StepSizes
<1>3. TypeInv /\ SizesInv => LaidOutFromFinalSizes  BY LaidOutFinal
<1> QED  BY <1>1, <1>2, <1>3, PTL DEF Spec

(* A declaration that has its size keeps it, though every visit resets the *)
(* size and computes it anew, in every pass.                               *)
THEOREM SizesAreFinal == Spec => SizedForGood
<1> DEFINE Same == \A i \in DOMAIN prog :
                     (~Busy /\ ~Busy' /\ node[i].alignment # 0) => (SizeOf(i)' = SizeOf(i))
<1>1. Init => TypeInv /\ SizesInv  BY InitTypeInv, InitSizes
<1>2. TypeInv /\ SizesInv /\ [Next]_vars => TypeInv' /\ SizesInv'
  BY NextTypeInv, NextSizes DEF StepSizes
<1>3. TypeInv /\ SizesInv /\ [Next]_vars => [Same]_vars
  <2> SUFFICES ASSUME TypeInv, SizesInv, [Next]_vars, NEW i \in Decls,
                      ~ Busy, ~ Busy', node[i].alignment # 0
               PROVE  SizeOf(i)' = SizeOf(i)
    BY DEF Decls
  <2>1. TypeInv' /\ SizesInv' /\ Kept  BY NextTypeInv, NextSizes DEF StepSizes
  <2>2. SizeIn(node[i]) = Known[i]  BY DEF SizesInv, CopiesInv
  <2>3. SizeIn((node')[i]) = (Known')[i]
    <3>1. CopiesInv'  BY <2>1 DEF SizesInv
    <3>2. i \in Decls'  BY KeptProg
    <3> QED  BY <3>1, <3>2 DEF CopiesInv
  <2>4. Known[i].alignment # 0
    <3>1. SizeIn(node[i]).alignment = node[i].alignment  BY DEF SizeIn
    <3> QED  BY <2>2, <3>1
  <2>5. (Known')[i] = Known[i]  BY <2>1, <2>4 DEF Kept
  <2>6. SizeIn((node')[i]) = SizeIn(node[i])  BY <2>2, <2>3, <2>5
  <2> QED  BY <2>6 DEF SizeIn, SizeOf
<1> QED  BY <1>1, <1>2, <1>3, PTL DEF Spec, SizedForGood

-----------------------------------------------------------------------------
(* Errors.  A name belongs to the first declaration of it, every           *)
(* declaration that the walk has passed has its name in the scope, and the *)
(* checks pass has reported what is wrong as far as it has come.           *)

Visited(i) == phase # "register" \/ i < at

SelfInv ==
  \A i \in Decls : node[i].self => Declares(i) /\ symbols[prog[i].name] = i

OwnerInv ==
  \A n \in Names : symbols[n] # 0 =>
    /\ node[symbols[n]].self /\ prog[symbols[n]].name = n
    /\ \A j \in Decls : j < symbols[n] => ~ (Declares(j) /\ prog[j].name = n)

VisitedInv ==
  /\ start <= at
  /\ \A i \in Decls : Declares(i) /\ Visited(i) => symbols[prog[i].name] # 0

FoldInv ==
  \A i \in Decls : folded[i] # NotFolded => \A n \in Mentions(i) : Declared(n)

ReportInv ==
  /\ phase \in {"register", "resolve"} => errors = {}
  /\ phase = "checks" => errors = {i \in Decls : i < at /\ Wrong(i)}
  /\ phase = "checks" /\ Busy => ~ Wrong(at)
  /\ phase = "done" => errors = {i \in Decls : Wrong(i)} /\ ~ Busy

ErrorsInv == SelfInv /\ OwnerInv /\ VisitedInv /\ FoldInv /\ ReportInv

LEMMA MoveFacts ==
  ASSUME TypeInv, NEW un, Leave(un), start <= at
  PROVE  /\ start' <= at' /\ phase # "done"
         /\ phase = "register" => \/ phase' = "register" /\ at' \in Nat /\ at' <= at + 1
                                  \/ phase' = "resolve" /\ at = Len(prog)
         /\ phase = "resolve" => phase' = "resolve" \/ (phase' = "checks" /\ at' = 1)
         /\ phase = "checks" => \/ phase' = "checks" /\ at < Len(prog) /\ at' = at + 1
                                \/ phase' = "done" /\ at = Len(prog)
<1>1. at \in Nat /\ start \in Nat /\ at >= 1 /\ start >= 1 /\ at <= Len(prog)
      /\ Len(prog) \in Nat
  <2>1. Decls = 1 .. Len(prog) /\ Len(prog) \in Nat  BY ProgFacts DEF TypeInv
  <2> QED  BY <2>1 DEF TypeInv, PositionInv
<1> DEFINE u == unresolved \/ un
<1>2. Advance(u)  BY DEF Leave
<1> HIDE DEF u
<1>3. CASE NextOfUnit(u)  BY <1>1, <1>3 DEF NextOfUnit, Goto
<1>4. CASE RepeatUnit(u)  BY <1>1, <1>4 DEF RepeatUnit, Goto
<1>5. CASE NextUnit(u)  BY <1>1, <1>5 DEF NextUnit, Goto
<1>6. CASE StartResolve  BY <1>1, <1>6 DEF StartResolve, Goto, Last
<1>7. CASE NextInPass(u)  BY <1>1, <1>7 DEF NextInPass, Goto, Last
<1>8. CASE ResolveAgain(u)  BY <1>1, <1>8 DEF ResolveAgain, Goto
<1>9. CASE StartChecks(u)  BY <1>1, <1>9 DEF StartChecks, Goto
<1>10. CASE Finish(u)  BY <1>1, <1>10 DEF Finish, Goto, Last
<1> QED
  BY <1>2, <1>3, <1>4, <1>5, <1>6, <1>7, <1>8, <1>9, <1>10 DEF Advance

LEMMA VisitedNext ==
  ASSUME TypeInv, NEW un, Leave(un), start <= at, NEW i \in Decls,
         phase' # "register" \/ i < at'
  PROVE  Visited(i) \/ i = at
<1>1. i \in Nat /\ at \in Nat /\ i <= Len(prog)
  <2>1. Decls = 1 .. Len(prog) /\ Len(prog) \in Nat  BY ProgFacts DEF TypeInv
  <2> QED  BY <2>1 DEF TypeInv, PositionInv
<1> QED  BY <1>1, MoveFacts DEF Visited

(* The walk goes on after a visit that left the name in the scope.         *)
LEMMA VisitedStep ==
  ASSUME TypeInv, NEW un, Leave(un), start <= at, prog' = prog,
         \A i \in Decls : Declares(i) /\ (Visited(i) \/ i = at) =>
                            (symbols')[prog[i].name] # 0
  PROVE  VisitedInv'
<1>1. start' <= at'  BY MoveFacts
<1>2. ASSUME NEW i \in Decls, Declares(i), phase' # "register" \/ i < at'
      PROVE  (symbols')[prog[i].name] # 0
  BY <1>2, VisitedNext
<1>3. Decls' = Decls  BY DEF Decls
<1> QED  BY <1>1, <1>2, <1>3 DEF VisitedInv, Visited, Declares

LEMMA SelfSame ==
  ASSUME SelfInv, OwnerInv, prog' = prog, symbols' = symbols, TypeInv,
         \A i \in Decls : (node')[i].self <=> node[i].self
  PROVE  SelfInv' /\ OwnerInv'
<1>1. Decls' = Decls  BY DEF Decls
<1>2. SelfInv'  BY <1>1 DEF SelfInv, Declares
<1>3. \A n \in Names : symbols[n] # 0 => symbols[n] \in Decls
  BY DEF TypeInv, SymbolsInv
<1>4. OwnerInv'  BY <1>1, <1>3 DEF OwnerInv, Declares
<1> QED  BY <1>2, <1>4

(* The name is registered, unless it is already.                           *)
LEMMA RegisterStep ==
  ASSUME TypeInv, SelfInv, OwnerInv, VisitedInv, Registers, Declares(at),
         prog' = prog, symbols' = Symbols, (node')[at].self,
         \A i \in Decls : i # at => (node')[i].self <=> node[i].self
  PROVE  /\ SelfInv' /\ OwnerInv'
         /\ \A i \in Decls : Declares(i) /\ (Visited(i) \/ i = at) =>
                               (symbols')[prog[i].name] # 0
<1>1. /\ at \in Decls /\ d = prog[at] /\ d.name \in Names /\ Decls' = Decls
      /\ at \in Nat /\ at # 0
      /\ symbols \in [Names -> {0} \cup Decls]
      /\ \A i \in Decls : prog[i].name \in Names
  <2>1. Decls = 1 .. Len(prog) /\ Len(prog) \in Nat  BY ProgFacts DEF TypeInv
  <2>2. at \in Nat /\ at # 0  BY <2>1, VisitFacts
  <2> QED  BY <2>2, VisitFacts, ProgFacts DEF TypeInv, SymbolsInv, Decls
<1>2. CASE node[at].self
  <2>1. symbols' = symbols  BY <1>2 DEF Symbols
  <2>2. \A i \in Decls : (node')[i].self <=> node[i].self  BY <1>2
  <2>3. symbols[d.name] = at  BY <1>1, <1>2 DEF SelfInv
  <2>4. SelfInv' /\ OwnerInv'  BY <2>1, <2>2, SelfSame
  <2>5. \A i \in Decls : Declares(i) /\ Visited(i) => symbols[prog[i].name] # 0
    BY DEF VisitedInv
  <2> QED  BY <1>1, <2>1, <2>3, <2>4, <2>5
<1>3. CASE ~ node[at].self
  <2>1. symbols[d.name] = 0 /\ symbols' = [symbols EXCEPT ![d.name] = at]
    BY <1>3 DEF Symbols, Registers
  <2>2. /\ (symbols')[d.name] = at
        /\ \A n \in Names : n # d.name => (symbols')[n] = symbols[n]
    BY <1>1, <2>1
  <2>3. ASSUME NEW i \in Decls, (node')[i].self
        PROVE  Declares(i) /\ (symbols')[prog[i].name] = i
    <3>1. CASE i = at  BY <1>1, <2>2, <3>1
    <3>2. CASE i # at
      <4>1. node[i].self  BY <2>3, <3>2
      <4>2. Declares(i) /\ symbols[prog[i].name] = i  BY <4>1 DEF SelfInv
      <4>3. i # 0
        <5>1. Decls = 1 .. Len(prog) /\ Len(prog) \in Nat  BY ProgFacts DEF TypeInv
        <5> QED  BY <5>1
      <4>4. prog[i].name # d.name  BY <2>1, <4>2, <4>3
      <4> QED  BY <1>1, <2>2, <4>2, <4>4
    <3> QED  BY <3>1, <3>2
  <2>4. SelfInv'  BY <1>1, <2>3 DEF SelfInv, Declares
  <2>5. ASSUME NEW n \in Names, (symbols')[n] # 0
        PROVE  /\ (node')[(symbols')[n]].self /\ prog[(symbols')[n]].name = n
               /\ \A j \in Decls : j < (symbols')[n] => ~ (Declares(j) /\ prog[j].name = n)
    <3>1. CASE n = d.name
      <4>1. ASSUME NEW j \in Decls, j < at, Declares(j), prog[j].name = n
            PROVE  FALSE
        <5>1. Visited(j)  BY <4>1 DEF Visited
        <5>2. symbols[n] # 0  BY <4>1, <5>1 DEF VisitedInv
        <5> QED  BY <2>1, <3>1, <5>2
      <4> QED  BY <1>1, <2>2, <3>1, <4>1
    <3>2. CASE n # d.name
      <4> DEFINE o == symbols[n]
      <4>1. (symbols')[n] = o /\ o # 0  BY <2>2, <2>5, <3>2
      <4>2. /\ node[o].self /\ prog[o].name = n
            /\ \A j \in Decls : j < o => ~ (Declares(j) /\ prog[j].name = n)
        BY <4>1 DEF OwnerInv
      <4>3. o \in Decls /\ o # at  BY <1>1, <1>3, <4>1, <4>2
      <4> HIDE DEF o
      <4>4. (node')[o].self  BY <4>2, <4>3
      <4> QED  BY <4>1, <4>2, <4>4
    <3> QED  BY <3>1, <3>2
  <2>6. OwnerInv'  BY <1>1, <2>5 DEF OwnerInv, Declares
  <2>7. ASSUME NEW i \in Decls, Declares(i), Visited(i) \/ i = at
        PROVE  (symbols')[prog[i].name] # 0
    <3>1. CASE prog[i].name = d.name  BY <1>1, <2>2, <3>1
    <3>2. CASE prog[i].name # d.name
      <4>1. Visited(i)  BY <1>1, <2>7, <3>2
      <4>2. symbols[prog[i].name] # 0  BY <2>7, <4>1 DEF VisitedInv
      <4> QED  BY <1>1, <2>2, <3>2, <4>2
    <3> QED  BY <3>1, <3>2
  <2> QED  BY <2>4, <2>6, <2>7
<1> QED  BY <1>2, <1>3

(* In the checks pass: who has the name, and what a lookup finds.          *)
LEMMA DuplicateFacts ==
  ASSUME TypeInv, SelfInv, OwnerInv, VisitedInv, NEW i \in Decls, Declares(i)
  PROVE  /\ Duplicate(i) => ~ node[i].self
         /\ Visited(i) /\ ~ node[i].self => Duplicate(i)
<1>1. Decls = 1 .. Len(prog) /\ Len(prog) \in Nat /\ prog[i].name \in Names
  BY ProgFacts DEF TypeInv
<1> DEFINE n == prog[i].name
           o == symbols[n]
<1>2. ASSUME Duplicate(i), node[i].self  PROVE FALSE
  <2>1. PICK j \in 1 .. i - 1 : Declares(j) /\ prog[j].name = n
    BY <1>2 DEF Duplicate
  <2>2. j \in Decls /\ j < i /\ i # 0  BY <1>1, <2>1
  <2>3. symbols[n] = i  BY <1>2 DEF SelfInv
  <2> QED  BY <1>1, <2>1, <2>2, <2>3 DEF OwnerInv
<1>3. ASSUME Visited(i), ~ node[i].self  PROVE Duplicate(i)
  <2>1. o # 0  BY <1>3 DEF VisitedInv
  <2>2. o \in Decls  BY <1>1, <2>1 DEF TypeInv, SymbolsInv
  <2>3. /\ node[o].self /\ prog[o].name = n
        /\ \A j \in Decls : j < o => ~ (Declares(j) /\ prog[j].name = n)
    BY <1>1, <2>1 DEF OwnerInv
  <2>4. Declares(o)  BY <2>2, <2>3 DEF SelfInv
  <2>5. o # i  BY <1>3, <2>3
  <2> HIDE DEF o
  <2>6. ~ (i < o)  BY <2>3
  <2>7. o \in 1 .. i - 1  BY <1>1, <2>2, <2>5, <2>6
  <2> QED  BY <2>3, <2>4, <2>7 DEF Duplicate
<1> QED  BY <1>2, <1>3

LEMMA FoundFacts ==
  ASSUME TypeInv, SelfInv, OwnerInv, VisitedInv, NEW n \in Names \cup Builtins
  PROVE  /\ Found(n, symbols) => Declared(n)
         /\ phase # "register" /\ Declared(n) => Found(n, symbols)
<1>1. ASSUME Found(n, symbols), n \notin Builtins  PROVE Declared(n)
  <2>1. symbols[n] # 0 /\ n \in Names  BY <1>1 DEF Found
  <2>2. symbols[n] \in Decls  BY <2>1 DEF TypeInv, SymbolsInv
  <2>3. node[symbols[n]].self /\ prog[symbols[n]].name = n  BY <2>1 DEF OwnerInv
  <2>4. Declares(symbols[n])  BY <2>2, <2>3 DEF SelfInv
  <2> QED  BY <2>2, <2>3, <2>4 DEF Declared, Decls
<1>2. ASSUME phase # "register", Declared(n), n \notin Builtins  PROVE Found(n, symbols)
  <2>1. PICK i \in Decls : Declares(i) /\ prog[i].name = n
    BY <1>2 DEF Declared, Decls
  <2>2. symbols[n] # 0  BY <1>2, <2>1 DEF VisitedInv, Visited
  <2> QED  BY <2>2 DEF Found
<1> QED  BY <1>1, <1>2 DEF Found, Declared

LEMMA WrongSame ==
  ASSUME prog' = prog
  PROVE  \A i : Wrong(i)' <=> Wrong(i)
BY DEF Wrong, Duplicate, Declares, Mentions, Declared

(* A visit in the checks pass reports its declaration if it is wrong.      *)
LEMMA ReportStep ==
  ASSUME TypeInv, ReportInv, start <= at, ~ Busy', NEW un, Leave(un), prog' = prog,
         NEW bad \in BOOLEAN, errors' = IF bad /\ Checking THEN errors \cup {at} ELSE errors,
         phase = "checks" => (bad <=> Wrong(at))
  PROVE  ReportInv'
<1>1. /\ Decls = 1 .. Len(prog) /\ Len(prog) \in Nat /\ Decls' = Decls
      /\ at \in Decls /\ at \in Nat
      /\ \A i : Wrong(i)' <=> Wrong(i)
  <2>1. Decls = 1 .. Len(prog) /\ Len(prog) \in Nat  BY ProgFacts DEF TypeInv
  <2>2. at \in Decls /\ at \in Nat  BY <2>1, VisitFacts
  <2>3. Decls' = Decls  BY DEF Decls
  <2> QED  BY <2>1, <2>2, <2>3, WrongSame
<1>2. CASE phase = "register"
  <2>1. phase' \in {"register", "resolve"}  BY <1>2, MoveFacts
  <2>2. errors' = {}  BY <1>2 DEF ReportInv, Checking
  <2> QED  BY <2>1, <2>2 DEF ReportInv
<1>3. CASE phase = "resolve"
  <2>1. errors' = {}  BY <1>3 DEF ReportInv, Checking
  <2>2. phase' = "resolve" \/ (phase' = "checks" /\ at' = 1)  BY <1>3, MoveFacts
  <2>3. at' = 1 => {i \in Decls : i < at' /\ Wrong(i)'} = {}  BY <1>1
  <2> QED  BY <1>1, <2>1, <2>2, <2>3 DEF ReportInv
<1>4. CASE phase = "checks"
  <2> DEFINE Was == {i \in Decls : i < at /\ Wrong(i)}
             Now == {i \in Decls : i < at + 1 /\ Wrong(i)}
  <2>1. errors = Was  BY <1>4 DEF ReportInv
  <2>2. errors' = IF bad THEN Was \cup {at} ELSE Was  BY <1>4, <2>1 DEF Checking
  <2>3. \A i \in Decls : i < at + 1 <=> i < at \/ i = at  BY <1>1
  <2>4. Now = IF bad THEN Was \cup {at} ELSE Was  BY <1>1, <1>4, <2>3
  <2>5. CASE phase' = "checks" /\ at' = at + 1
    <3>1. errors' = {i \in Decls : i < at' /\ Wrong(i)'}  BY <1>1, <2>2, <2>4, <2>5
    <3> QED  BY <1>1, <2>5, <3>1 DEF ReportInv
  <2>6. CASE phase' = "done" /\ at = Len(prog)
    <3>1. \A i \in Decls : i < at + 1  BY <1>1, <2>6
    <3>2. Now = {i \in Decls : Wrong(i)'}  BY <1>1, <3>1
    <3> QED  BY <1>1, <2>2, <2>4, <2>6, <3>2 DEF ReportInv
  <2> QED  BY <1>4, <2>5, <2>6, MoveFacts
<1> QED  BY <1>2, <1>3, <1>4, MoveFacts DEF TypeInv, PositionInv

LEMMA FoldSame ==
  ASSUME FoldInv, prog' = prog, folded' = folded
  PROVE  FoldInv'
BY DEF FoldInv, Decls, Mentions, Declared, Declares

LEMMA MentionFacts ==
  ASSUME TypeInv, NEW i \in Decls
  PROVE  \A k \in DOMAIN prog[i].body :
           /\ prog[i].body[k].name \in Names \cup Builtins
           /\ prog[i].body[k].name \in Mentions(i)
           /\ prog[i].body[k] \in TypeExpr
<1>1. prog[i].body \in Seq(TypeExpr)  BY ProgFacts DEF TypeInv
<1>2. \A k \in DOMAIN prog[i].body : prog[i].body[k] \in TypeExpr  BY <1>1
<1> QED  BY <1>2 DEF TypeExpr, Mentions

LEMMA OneExpr ==
  ASSUME TypeInv, NEW i \in Decls, prog[i].kind \in {"named", "use"}
  PROVE  Mentions(i) = {prog[i].body[1].name}
<1>1. prog \in Programs  BY DEF TypeInv, ProgInv
<1>2. Len(prog[i].body) = 1  BY <1>1, ConstantsAssumption DEF Decls
<1>3. prog[i].body \in Seq(TypeExpr)  BY ProgFacts DEF TypeInv
<1>4. DOMAIN prog[i].body = {1}  BY <1>2, <1>3
<1> QED  BY <1>4 DEF Mentions

(* A name that is found has a type.                                        *)
LEMMA NoTypeFound ==
  ASSUME NEW e \in TypeExpr, NEW syms, NEW nodes
  PROVE  Resolve(e, syms, nodes) = NoType <=> ~ Found(e.name, syms)
<1>1. e.ctor # "none"  BY DEF TypeExpr
<1>2. \A ref : MakeType(e, ref, nodes).ctor = e.ctor  BY DEF MakeType
<1>3. NoType.ctor = "none"  BY DEF NoType
<1> QED  BY <1>1, <1>2, <1>3 DEF Resolve

(* The declaration visited in the checks pass is the first of its name:    *)
(* then it is wrong only if it mentions a name that is not found.          *)
LEMMA WrongFacts ==
  ASSUME TypeInv, SelfInv, OwnerInv, VisitedInv, phase = "checks", Registers, Declares(at)
  PROVE  /\ Symbols = symbols /\ ~ Duplicate(at)
         /\ Wrong(at) <=> /\ d.kind # "cstruct"
                          /\ \E k \in DOMAIN d.body : ~ Found(d.body[k].name, symbols)
<1>1. at \in Decls /\ d = prog[at] /\ d.name \in Names  BY VisitFacts
<1>2. symbols[d.name] # 0  BY <1>1 DEF VisitedInv, Visited
<1>3. node[at].self /\ Symbols = symbols  BY <1>2 DEF Registers, Symbols
<1>4. ~ Duplicate(at)  BY <1>1, <1>3, DuplicateFacts
<1>5. \A k \in DOMAIN d.body : Found(d.body[k].name, symbols) <=> Declared(d.body[k].name)
  BY <1>1, MentionFacts, FoundFacts
<1>6. (\A n \in Mentions(at) : Declared(n))
         <=> \A k \in DOMAIN d.body : Found(d.body[k].name, symbols)
  BY <1>1, <1>5 DEF Mentions
<1> QED  BY <1>1, <1>3, <1>4, <1>6 DEF Wrong

LEMMA RedeclareErrors ==
  ASSUME TypeInv, TypeInv', SizesInv, ErrorsInv, Redeclare
  PROVE  ErrorsInv'
<1>1. /\ SelfInv /\ OwnerInv /\ VisitedInv /\ FoldInv /\ ReportInv
      /\ SizedInv /\ CopiesInv /\ at \in Decls /\ d = prog[at] /\ start <= at
  BY VisitFacts DEF ErrorsInv, SizesInv, VisitedInv
<1>2. /\ node' = Opened /\ ~ node[at].self /\ symbols[d.name] # 0 /\ ~ Busy
      /\ prog' = prog /\ symbols' = symbols /\ folded' = folded /\ lay' = lay
      /\ Declares(at) /\ Leave(FALSE) /\ Report(TRUE)
  BY <1>1 DEF Redeclare, Registers, Visiting, d, Declares
<1>3. \A i \in Decls : (node')[i].self <=> node[i].self  BY <1>1, <1>2, OpenedFacts
<1>4. SelfInv' /\ OwnerInv'  BY <1>1, <1>2, <1>3, SelfSame
<1>5. VisitedInv'
  <2>1. \A i \in Decls : Declares(i) /\ (Visited(i) \/ i = at) =>
                           (symbols')[prog[i].name] # 0
    BY <1>1, <1>2 DEF VisitedInv
  <2> QED  BY <1>1, <1>2, <2>1, VisitedStep
<1>6. phase = "checks" => Wrong(at)
  BY <1>1, <1>2, DuplicateFacts DEF Visited, Wrong
<1>7. ReportInv'
  <2>1. ~ Busy'  BY <1>2 DEF Busy
  <2>2. errors' = IF TRUE /\ Checking THEN errors \cup {at} ELSE errors
    BY <1>2 DEF Report
  <2>3. TRUE \in BOOLEAN  OBVIOUS
  <2> QED  BY <1>1, <1>2, <1>6, <2>1, <2>2, <2>3, ReportStep
<1>8. FoldInv'  BY <1>1, <1>2, FoldSame
<1> QED  BY <1>4, <1>5, <1>7, <1>8 DEF ErrorsInv

(* The end of a visit that registers its declaration.                      *)
LEMMA RegisteredErrors ==
  ASSUME TypeInv, TypeInv', ErrorsInv, Declares(at), Registers,
         prog' = prog, symbols' = Symbols, folded' = folded, (node')[at].self,
         \A i \in Decls : i # at => (node')[i] = node[i],
         ~ Busy', NEW un, Leave(un), NEW bad \in BOOLEAN, Report(bad),
         phase = "checks" => (bad <=> Wrong(at))
  PROVE  ErrorsInv'
<1>1. /\ SelfInv /\ OwnerInv /\ VisitedInv /\ FoldInv /\ ReportInv
      /\ at \in Decls /\ start <= at
  BY VisitFacts DEF ErrorsInv, VisitedInv
<1>2. \A i \in Decls : i # at => ((node')[i].self <=> node[i].self)  OBVIOUS
<1>3. /\ SelfInv' /\ OwnerInv'
      /\ \A i \in Decls : Declares(i) /\ (Visited(i) \/ i = at) =>
                            (symbols')[prog[i].name] # 0
  BY <1>1, <1>2, RegisterStep
<1>4. VisitedInv'  BY <1>1, <1>3, VisitedStep
<1>5. ReportInv'  BY <1>1, ReportStep DEF Report
<1>6. FoldInv'  BY <1>1, FoldSame
<1> QED  BY <1>3, <1>4, <1>5, <1>6 DEF ErrorsInv

LEMMA VisitNamedErrors ==
  ASSUME TypeInv, TypeInv', SizesInv, ErrorsInv, VisitNamed
  PROVE  ErrorsInv'
<1> DEFINE t == IF node[at].tid # NoType /\ ~Checking THEN node[at].tid
                ELSE Resolve(d.body[1], Symbols, Nodes)
           n == IF t = NoType THEN [Nodes[at] EXCEPT !.tid = NoType]
                ELSE Copied(t, Get(t, Nodes))
           bad == t = NoType
<1>1. /\ SelfInv /\ OwnerInv /\ VisitedInv /\ SizedInv /\ CopiesInv
      /\ at \in Decls /\ d = prog[at]
      /\ Nodes \in [Decls -> NodeType] /\ Nodes[at] \in NodeType
  BY VisitFacts, NodesType DEF ErrorsInv, SizesInv
<1>2. /\ ~ Busy /\ d.kind = "named" /\ Registers /\ prog' = prog
      /\ symbols' = Symbols /\ folded' = folded /\ lay' = lay
      /\ node' = [Nodes EXCEPT ![at] = n] /\ Report(bad) /\ Leave(bad)
  BY DEF VisitNamed, Visiting
<1>3. n.self
  <2>1. Nodes[at].self  BY <1>1, <1>2, OpenedFacts
  <2>2. [Nodes[at] EXCEPT !.tid = NoType].self <=> Nodes[at].self
    BY <1>1 DEF NodeType
  <2>3. Copied(t, Get(t, Nodes)).self  BY DEF Copied
  <2> QED  BY <2>1, <2>2, <2>3
<1>4. Declares(at)  BY <1>1, <1>2 DEF Declares
<1>5. phase = "checks" => (bad <=> Wrong(at))
  <2> SUFFICES ASSUME phase = "checks" PROVE bad <=> Wrong(at)  OBVIOUS
  <2>1. bad <=> Resolve(d.body[1], symbols, Nodes) = NoType
    BY <1>1, <1>2, <1>4, WrongFacts DEF Checking
  <2> HIDE DEF bad
  <2>2. d.body[1] \in TypeExpr /\ 1 \in DOMAIN d.body  BY <1>1, VisitFacts
  <2>3. bad <=> ~ Found(d.body[1].name, symbols)  BY <2>1, <2>2, NoTypeFound
  <2>4. Mentions(at) = {d.body[1].name}  BY <1>1, <1>2, OneExpr
  <2>5. ~ Duplicate(at)  BY <1>1, <1>2, <1>4, WrongFacts
  <2>6. Found(d.body[1].name, symbols) <=> Declared(d.body[1].name)
    BY <1>1, <2>2, MentionFacts, FoundFacts
  <2> QED  BY <1>1, <1>2, <2>3, <2>4, <2>5, <2>6 DEF Wrong
<1>6. bad \in BOOLEAN  OBVIOUS
<1> HIDE DEF n, bad
<1>7. (node')[at].self /\ \A i \in Decls : i # at => (node')[i] = node[i]
  BY <1>1, <1>2, <1>3, OpenedFacts
<1>8. ~ Busy'  BY <1>2 DEF Busy
<1> QED  BY <1>2, <1>4, <1>5, <1>6, <1>7, <1>8, RegisteredErrors

LEMMA MissingFacts ==
  ASSUME TypeInv, ErrorsInv, phase = "checks", Registers, d.kind = "struct"
  PROVE  Missing <=> Wrong(at)
<1>1. /\ SelfInv /\ OwnerInv /\ VisitedInv /\ at \in Decls /\ d = prog[at]
      /\ Declares(at) /\ \A k \in DOMAIN d.body : d.body[k] \in TypeExpr
  BY VisitFacts DEF ErrorsInv, Declares
<1>2. /\ Symbols = symbols
      /\ Wrong(at) <=> \E k \in DOMAIN d.body : ~ Found(d.body[k].name, symbols)
  BY <1>1, WrongFacts
<1>3. \A k \in DOMAIN d.body : FieldTypes[k] = Resolve(d.body[k], symbols, Nodes)
  BY <1>2 DEF FieldTypes, Checking
<1>4. \A k \in DOMAIN d.body : FieldTypes[k] = NoType <=> ~ Found(d.body[k].name, symbols)
  BY <1>1, <1>3, NoTypeFound
<1> QED  BY <1>2, <1>4 DEF Missing

LEMMA VisitKnownStructErrors ==
  ASSUME TypeInv, TypeInv', SizesInv, ErrorsInv, VisitKnownStruct
  PROVE  ErrorsInv'
<1> DEFINE n == Copied(node[at].tid, Get(node[at].tid, Nodes))
<1>1. /\ SizedInv /\ CopiesInv /\ SelfInv /\ at \in Decls /\ d = prog[at]
      /\ Nodes \in [Decls -> NodeType]
      /\ Sized(at, d, node[at], fieldType[at], structure[at], Known, symbols)
  BY VisitFacts, NodesType DEF ErrorsInv, SizesInv, SizedInv
<1>2. /\ ~ Busy /\ d.kind = "struct" /\ Registers /\ prog' = prog
      /\ node[at].tid # NoType
      /\ symbols' = symbols /\ folded' = folded /\ lay' = lay
      /\ node' = [Nodes EXCEPT ![at] = n] /\ Report(Missing) /\ Leave(Checking /\ Missing)
  BY DEF VisitKnownStruct, Visiting
<1>3. n.self  BY DEF Copied
<1>4. Declares(at)  BY <1>1, <1>2 DEF Declares
<1>5. node[at].self
  <2>1. d.kind \in StructKinds  BY <1>2 DEF StructKinds
  <2>2. Known[at].alignment # 0  BY <1>1, <1>2, <2>1, UnlaidFacts
  <2>3. node[at].alignment # 0  BY <1>1, <1>2, <2>2, OpenedFacts
  <2> QED  BY <1>1, <2>3 DEF Sized, GoodNew
<1>6. symbols' = Symbols  BY <1>2, <1>5 DEF Symbols
<1>7. phase = "checks" => (Missing <=> Wrong(at))  BY <1>2, MissingFacts
<1>8. Missing \in BOOLEAN /\ (Checking /\ Missing) \in BOOLEAN
  BY DEF Missing
<1> HIDE DEF n
<1>9. (node')[at].self /\ \A i \in Decls : i # at => (node')[i] = node[i]
  BY <1>1, <1>2, <1>3, OpenedFacts
<1>10. ~ Busy'  BY <1>2 DEF Busy
<1> QED  BY <1>2, <1>4, <1>6, <1>7, <1>8, <1>9, <1>10, RegisteredErrors

LEMMA VisitIncompleteStructErrors ==
  ASSUME TypeInv, TypeInv', SizesInv, ErrorsInv, VisitIncompleteStruct
  PROVE  ErrorsInv'
<1>1. /\ SizedInv /\ CopiesInv /\ at \in Decls /\ d = prog[at]
  BY VisitFacts DEF SizesInv
<1>2. /\ ~ Busy /\ d.kind = "struct" /\ Registers /\ Missing /\ prog' = prog
      /\ symbols' = Symbols /\ folded' = folded /\ lay' = lay
      /\ node' = Nodes /\ Report(TRUE) /\ Leave(TRUE)
  BY DEF VisitIncompleteStruct, Visiting
<1>3. Declares(at)  BY <1>1, <1>2 DEF Declares
<1>4. phase = "checks" => (TRUE <=> Wrong(at))  BY <1>2, MissingFacts
<1>5. (node')[at].self /\ \A i \in Decls : i # at => (node')[i] = node[i]
  BY <1>1, <1>2, OpenedFacts
<1>6. ~ Busy'  BY <1>2 DEF Busy
<1>7. TRUE \in BOOLEAN  OBVIOUS
<1> QED  BY <1>2, <1>3, <1>4, <1>5, <1>6, <1>7, RegisteredErrors

(* A layout begins only for a declaration that is not wrong.               *)
LEMMA OpenErrors ==
  ASSUME TypeInv, TypeInv', SizesInv, ErrorsInv, Declares(at), Registers, ~ Busy,
         prog' = prog, symbols' = Symbols, folded' = folded, node' = Nodes,
         phase' = phase, at' = at, start' = start, errors' = errors,
         phase # "done", phase = "checks" => ~ Wrong(at)
  PROVE  ErrorsInv'
<1>1. /\ SelfInv /\ OwnerInv /\ VisitedInv /\ FoldInv /\ ReportInv
      /\ SizedInv /\ CopiesInv /\ at \in Decls /\ start <= at /\ Decls' = Decls
  BY VisitFacts DEF ErrorsInv, SizesInv, VisitedInv, Decls
<1>2. (node')[at].self /\ \A i \in Decls : i # at => ((node')[i].self <=> node[i].self)
  BY <1>1, OpenedFacts
<1>3. /\ SelfInv' /\ OwnerInv'
      /\ \A i \in Decls : Declares(i) /\ (Visited(i) \/ i = at) =>
                            (symbols')[prog[i].name] # 0
  BY <1>1, <1>2, RegisterStep
<1>4. VisitedInv'  BY <1>1, <1>3 DEF VisitedInv, Visited, Declares
<1>5. \A i : Wrong(i)' <=> Wrong(i)  BY WrongSame
<1>6. ReportInv'
  <2>1. phase = "checks" => errors = {i \in Decls : i < at /\ Wrong(i)}
    BY <1>1 DEF ReportInv
  <2>2. {i \in Decls : i < at /\ Wrong(i)} = {i \in Decls : i < at /\ Wrong(i)'}
    BY <1>5
  <2>3. phase = "checks" => ~ Wrong(at)'  BY <1>5
  <2> QED  BY <1>1, <2>1, <2>2, <2>3 DEF ReportInv
<1>7. FoldInv'  BY <1>1, FoldSame
<1> QED  BY <1>3, <1>4, <1>6, <1>7 DEF ErrorsInv

LEMMA OpenStructErrors ==
  ASSUME TypeInv, TypeInv', SizesInv, ErrorsInv, OpenStruct
  PROVE  ErrorsInv'
<1>1. /\ ~ Busy /\ d.kind = "struct" /\ Registers /\ ~ Missing /\ prog' = prog
      /\ symbols' = Symbols /\ folded' = folded /\ node' = Nodes
      /\ phase' = phase /\ at' = at /\ start' = start /\ errors' = errors
      /\ phase # "done"
  BY DEF OpenStruct, Visiting, position
<1>2. Declares(at)  BY <1>1 DEF Declares, d
<1>3. phase = "checks" => ~ Wrong(at)  BY <1>1, MissingFacts
<1> QED  BY <1>1, <1>2, <1>3, OpenErrors

LEMMA OpenCStructErrors ==
  ASSUME TypeInv, TypeInv', SizesInv, ErrorsInv, OpenCStruct
  PROVE  ErrorsInv'
<1>1. /\ ~ Busy /\ d.kind = "cstruct" /\ Registers /\ prog' = prog
      /\ symbols' = Symbols /\ folded' = folded /\ node' = Nodes
      /\ phase' = phase /\ at' = at /\ start' = start /\ errors' = errors
      /\ phase # "done"
  BY DEF OpenCStruct, Visiting, position
<1>2. Declares(at)  BY <1>1 DEF Declares, d
<1>3. phase = "checks" => ~ Wrong(at)  BY <1>1, <1>2, WrongFacts DEF ErrorsInv
<1> QED  BY <1>1, <1>2, <1>3, OpenErrors

(* The loop of the layout, and what changes nothing.                       *)
LEMMA QuietErrors ==
  ASSUME TypeInv, ErrorsInv, prog' = prog, symbols' = symbols, folded' = folded,
         node' = node, phase' = phase, at' = at, start' = start, errors' = errors,
         Busy' <=> Busy
  PROVE  ErrorsInv'
<1>1. /\ SelfInv /\ OwnerInv /\ VisitedInv /\ FoldInv /\ ReportInv /\ Decls' = Decls
  BY DEF ErrorsInv, Decls
<1>2. SelfInv' /\ OwnerInv'
  <2>1. \A i \in Decls : (node')[i].self <=> node[i].self  OBVIOUS
  <2> QED  BY <1>1, <2>1, SelfSame
<1>3. VisitedInv'  BY <1>1 DEF VisitedInv, Visited, Declares
<1>4. \A i : Wrong(i)' <=> Wrong(i)  BY WrongSame
<1>5. ReportInv'
  <2>1. {i \in Decls : i < at /\ Wrong(i)} = {i \in Decls : i < at /\ Wrong(i)'}
    BY <1>4
  <2>2. {i \in Decls : Wrong(i)} = {i \in Decls : Wrong(i)'}  BY <1>4
  <2> QED  BY <1>1, <1>4, <2>1, <2>2 DEF ReportInv
<1>6. FoldInv'  BY <1>1, FoldSame
<1> QED  BY <1>2, <1>3, <1>5, <1>6 DEF ErrorsInv

LEMMA PlaceStructFieldErrors ==
  ASSUME TypeInv, TypeInv', SizesInv, ErrorsInv, PlaceStructField
  PROVE  ErrorsInv'
<1>1. /\ prog' = prog /\ symbols' = symbols /\ folded' = folded /\ node' = node
      /\ phase' = phase /\ at' = at /\ start' = start /\ errors' = errors
      /\ PlaceField /\ lay \in LayoutType /\ lay.status = "placing"
  BY DEF PlaceStructField, position, PlaceField, Pending, TypeInv, LayInv
<1>2. (lay').status = lay.status  BY <1>1 DEF PlaceField, LayoutType
<1> QED  BY <1>1, <1>2, QuietErrors DEF Busy

LEMMA DieInLayoutErrors ==
  ASSUME TypeInv, TypeInv', SizesInv, ErrorsInv, DieInLayout
  PROVE  ErrorsInv'
<1>1. /\ prog' = prog /\ symbols' = symbols /\ folded' = folded /\ node' = node
      /\ phase' = phase /\ at' = at /\ start' = start /\ errors' = errors
      /\ DivideByZero /\ lay \in LayoutType /\ lay.status = "placing"
  BY DEF DieInLayout, position, DivideByZero, Pending, TypeInv, LayInv
<1>2. (lay').status = "crashed"  BY <1>1 DEF DivideByZero, LayoutType
<1>3. Busy /\ Busy'  BY <1>1, <1>2 DEF Busy
<1> QED  BY <1>1, <1>3, QuietErrors

LEMMA CloseStructErrors ==
  ASSUME TypeInv, TypeInv', SizesInv, ErrorsInv, CloseStruct
  PROVE  ErrorsInv'
<1> DEFINE n == Copied(IF d.kind = "struct" THEN StructType(at) ELSE NoType, lay')
<1>1. /\ SelfInv /\ OwnerInv /\ VisitedInv /\ FoldInv /\ ReportInv /\ BusyInv
      /\ LayInv /\ LayInv' /\ at \in Decls /\ start <= at
      /\ node \in [Decls -> NodeType]
  BY VisitFacts DEF ErrorsInv, SizesInv, VisitedInv, TypeInv, NodeInv
<1>2. /\ CloseLayout /\ prog' = prog /\ symbols' = symbols /\ folded' = folded
      /\ errors' = errors /\ node' = [node EXCEPT ![at] = n] /\ Leave(FALSE)
  BY DEF CloseStruct
<1>3. n.self  BY DEF Copied
<1> HIDE DEF n
<1>4. Busy  BY <1>2 DEF CloseLayout, Busy
<1>5. node[at].self  BY <1>1, <1>4 DEF BusyInv
<1>6. \A i \in Decls : (node')[i].self <=> node[i].self  BY <1>1, <1>2, <1>3, <1>5
<1>7. SelfInv' /\ OwnerInv'  BY <1>1, <1>2, <1>6, SelfSame
<1>8. VisitedInv'
  <2>1. symbols[prog[at].name] = at /\ at # 0
    <3>1. Decls = 1 .. Len(prog) /\ Len(prog) \in Nat  BY ProgFacts DEF TypeInv
    <3> QED  BY <1>1, <1>5, <3>1 DEF SelfInv
  <2>2. \A i \in Decls : Declares(i) /\ (Visited(i) \/ i = at) =>
                           (symbols')[prog[i].name] # 0
    BY <1>1, <1>2, <2>1 DEF VisitedInv
  <2> QED  BY <1>1, <1>2, <2>2, VisitedStep
<1>9. ~ Busy'
  <2>1. (lay').status = "idle"  BY <1>1, <1>2, <1>4, ClosedLaid DEF BusyInv
  <2> QED  BY <2>1 DEF Busy
<1>10. ReportInv'
  <2>1. phase = "checks" => (FALSE <=> Wrong(at))  BY <1>1, <1>4 DEF ReportInv
  <2>2. errors' = IF FALSE /\ Checking THEN errors \cup {at} ELSE errors  BY <1>2
  <2>3. FALSE \in BOOLEAN  OBVIOUS
  <2> QED  BY <1>1, <1>2, <1>9, <2>1, <2>2, <2>3, ReportStep
<1>11. FoldInv'  BY <1>1, <1>2, FoldSame
<1> QED  BY <1>7, <1>8, <1>10, <1>11 DEF ErrorsInv

LEMMA VisitUseErrors ==
  ASSUME TypeInv, TypeInv', SizesInv, ErrorsInv, VisitUse
  PROVE  ErrorsInv'
<1> DEFINE t == Resolve(d.body[1], symbols, node)
           bad == folded[at] = NotFolded /\ t = NoType
<1>1. /\ SelfInv /\ OwnerInv /\ VisitedInv /\ FoldInv /\ ReportInv
      /\ at \in Decls /\ d = prog[at] /\ start <= at /\ Decls' = Decls
      /\ d.body[1] \in TypeExpr /\ 1 \in DOMAIN d.body
      /\ folded \in [Decls -> Nat \cup {NotFolded}]
  <2>1. start <= at /\ Decls' = Decls  BY DEF ErrorsInv, VisitedInv, VisitUse, Decls
  <2>2. d.body[1] \in TypeExpr /\ 1 \in DOMAIN d.body  BY VisitFacts
  <2> QED  BY <2>1, <2>2, VisitFacts DEF ErrorsInv, TypeInv, FoldedInv
<1>2. /\ ~ Busy /\ d.kind = "use" /\ prog' = prog /\ symbols' = symbols
      /\ node' = node /\ lay' = lay /\ Report(bad) /\ Leave(bad)
      /\ folded' = IF folded[at] = NotFolded /\ t # NoType
                   THEN [folded EXCEPT ![at] = Get(t, node).size] ELSE folded
  BY DEF VisitUse, Visiting
<1>3. t = NoType <=> ~ Declared(d.body[1].name) \/ (t = NoType /\ phase = "register")
  <2>1. t = NoType <=> ~ Found(d.body[1].name, symbols)  BY <1>1, NoTypeFound
  <2>2. d.body[1].name \in Names \cup Builtins  BY <1>1, MentionFacts
  <2>3. /\ Found(d.body[1].name, symbols) => Declared(d.body[1].name)
        /\ phase # "register" /\ Declared(d.body[1].name) =>
             Found(d.body[1].name, symbols)
    BY <1>1, <2>2, FoundFacts
  <2> QED  BY <2>1, <2>3
<1>4. bad \in BOOLEAN /\ (bad <=> folded[at] = NotFolded /\ t = NoType)  OBVIOUS
<1> HIDE DEF t, bad
<1>5. Mentions(at) = {d.body[1].name}  BY <1>1, <1>2, OneExpr
<1>6. phase = "checks" => (bad <=> Wrong(at))
  <2> SUFFICES ASSUME phase = "checks" PROVE bad <=> Wrong(at)  OBVIOUS
  <2>1. Wrong(at) <=> ~ Declared(d.body[1].name)
    BY <1>1, <1>2, <1>5 DEF Wrong, Duplicate, Declares
  <2>2. folded[at] # NotFolded => Declared(d.body[1].name)
    BY <1>1, <1>5 DEF FoldInv
  <2> QED  BY <1>3, <1>4, <2>1, <2>2
<1>7. SelfInv' /\ OwnerInv'
  <2>1. \A i \in Decls : (node')[i].self <=> node[i].self  BY <1>2
  <2> QED  BY <1>1, <1>2, <2>1, SelfSame
<1>8. VisitedInv'
  <2>1. \A i \in Decls : Declares(i) /\ (Visited(i) \/ i = at) =>
                           (symbols')[prog[i].name] # 0
    BY <1>1, <1>2 DEF VisitedInv, Declares
  <2> QED  BY <1>1, <1>2, <2>1, VisitedStep
<1>9. ~ Busy'  BY <1>2 DEF Busy
<1>10. ReportInv'
  BY <1>1, <1>2, <1>4, <1>6, <1>9, ReportStep DEF Report
<1>11. ASSUME NEW i \in Decls, (folded')[i] # NotFolded, NEW n \in Mentions(i)
       PROVE  Declared(n)
  <2>1. CASE folded[i] # NotFolded  BY <1>1, <1>11, <2>1 DEF FoldInv
  <2>2. CASE folded[i] = NotFolded
    <3>1. i = at /\ t # NoType  BY <1>1, <1>2, <1>11, <2>2
    <3>2. Declared(d.body[1].name)  BY <1>3, <3>1
    <3> QED  BY <1>5, <1>11, <3>1, <3>2
  <2> QED  BY <2>1, <2>2
<1>12. FoldInv'
  <2>1. \A i \in Decls : Mentions(i)' = Mentions(i)  BY <1>2 DEF Mentions
  <2>2. \A n : Declared(n)' <=> Declared(n)  BY <1>2 DEF Declared, Declares
  <2> QED  BY <1>1, <1>11, <2>1, <2>2 DEF FoldInv
<1> QED  BY <1>7, <1>8, <1>10, <1>12 DEF ErrorsInv

LEMMA InitErrors ==
  ASSUME Init
  PROVE  ErrorsInv
<1>1. TypeInv  BY InitTypeInv
<1>2. Decls = 1 .. Len(prog) /\ Len(prog) \in Nat  BY <1>1, ProgFacts DEF TypeInv
<1>3. \A i \in Decls : ~ node[i].self /\ folded[i] = NotFolded
  BY DEF Init, NewNode, Decls
<1>4. phase = "register" /\ at = 1 /\ start = 1 /\ errors = {}
      /\ \A n \in Names : symbols[n] = 0
  BY DEF Init
<1>5. \A i \in Decls : ~ Visited(i)  BY <1>2, <1>4 DEF Visited
<1> QED
  BY <1>3, <1>4, <1>5 DEF ErrorsInv, SelfInv, OwnerInv, VisitedInv, FoldInv, ReportInv

LEMMA NextErrors ==
  ASSUME TypeInv, TypeInv', SizesInv, ErrorsInv, [Next]_vars
  PROVE  ErrorsInv'
<1>1. CASE UNCHANGED vars
  <2>1. /\ prog' = prog /\ symbols' = symbols /\ folded' = folded /\ node' = node
        /\ phase' = phase /\ at' = at /\ start' = start /\ errors' = errors
        /\ (Busy' <=> Busy)
    BY <1>1 DEF vars, position, Busy
  <2> QED  BY <2>1, QuietErrors
<1>2. CASE Next
  BY <1>2, RedeclareErrors, VisitNamedErrors, VisitKnownStructErrors,
     VisitIncompleteStructErrors, OpenStructErrors, OpenCStructErrors,
     PlaceStructFieldErrors, DieInLayoutErrors, CloseStructErrors, VisitUseErrors
     DEF Next
<1> QED  BY <1>1, <1>2

(* The compiler reports exactly the declarations that are wrong: the       *)
(* second declarations of a name and those that mention a name no file of  *)
(* the module declares, and no other, in whatever order they are written   *)
(* and however many subpasses it takes.                                    *)
THEOREM ReportsWhatIsWrong == Spec => []ErrorsExact
<1>1. Init => TypeInv /\ SizesInv /\ ErrorsInv  BY InitTypeInv, InitSizes, InitErrors
<1>2. TypeInv /\ SizesInv /\ ErrorsInv /\ [Next]_vars =>
        TypeInv' /\ SizesInv' /\ ErrorsInv'
  BY NextTypeInv, NextSizes, NextErrors DEF StepSizes
<1>3. ErrorsInv => ErrorsExact  BY DEF ErrorsInv, ReportInv, ErrorsExact, Done, Decls
<1> QED  BY <1>1, <1>2, <1>3, PTL DEF Spec

-----------------------------------------------------------------------------
(* The walks implement TypeNamespace.  The loop aligns behind a field, the *)
(* textbook in front of it; both come to the same if sizes are multiples   *)
(* of their alignments.                                                    *)

LEMMA DivMod ==
  ASSUME NEW n \in Nat, NEW a \in Nat \ {0}
  PROVE  /\ n % a \in 0 .. a - 1
         /\ n \div a \in Nat
         /\ n = a * (n \div a) + (n % a)
OBVIOUS

LEMMA MultDiv ==
  ASSUME NEW q \in Nat, NEW a \in Nat \ {0}, NEW r \in 0 .. a - 1
  PROVE  (a * q + r) % a = r /\ (a * q + r) \div a = q
OBVIOUS

LEMMA AlignMod ==
  ASSUME NEW n \in Nat, NEW a \in Nat \ {0}
  PROVE  Align(n, a) % a = 0
<1> DEFINE q == n \div a
<1>1. n = a * q + (n % a) /\ q \in Nat /\ n % a \in 0 .. a - 1  BY DivMod
<1>2. CASE n % a = 0  BY <1>2 DEF Align
<1>3. CASE n % a # 0
  <2>1. n - (n % a) + a = a * (q + 1) + 0  BY <1>1
  <2>2. (a * (q + 1) + 0) % a = 0
    <3>1. q + 1 \in Nat /\ 0 \in 0 .. a - 1  BY <1>1
    <3> QED  BY <3>1, MultDiv
  <2> QED  BY <1>3, <2>1, <2>2 DEF Align
<1> QED  BY <1>2, <1>3

LEMMA AlignShift ==
  ASSUME NEW n \in Nat, NEW s \in Nat, NEW a \in Nat \ {0}, s % a = 0
  PROVE  Align(n + s, a) = Align(n, a) + s
<1> DEFINE q == n \div a
           r == n % a
           p == s \div a
<1>1. n = a * q + r /\ q \in Nat /\ r \in 0 .. a - 1  BY DivMod
<1>2. s = a * p /\ p \in Nat  BY DivMod
<1>3. n + s = a * (q + p) + r /\ q + p \in Nat  BY <1>1, <1>2
<1>4. Align(n + s, a) = IF r # 0 THEN n + s - r + a ELSE n + s
  <2> HIDE DEF q, r, p
  <2>1. (a * (q + p) + r) % a = r  BY <1>1, <1>3, MultDiv
  <2>2. (n + s) % a = r  BY <1>3, <2>1
  <2> QED  BY <2>2 DEF Align
<1>5. Align(n, a) = IF r # 0 THEN n - r + a ELSE n  BY DEF Align
<1> HIDE DEF q, r, p
<1> QED  BY <1>1, <1>4, <1>5

(* Up of the abstract specification is align().                            *)
LEMMA UpIsAlign ==
  ASSUME NEW n \in Nat, NEW a \in Nat \ {0}
  PROVE  Namespace!Up(n, a) = Align(n, a)
<1> DEFINE q == n \div a
           r == n % a
<1>1. n = a * q + r /\ q \in Nat /\ r \in 0 .. a - 1  BY DivMod
<1>2. Align(n, a) = IF r # 0 THEN n - r + a ELSE n  BY DEF Align
<1>3. Namespace!Up(n, a) = ((n + a - 1) \div a) * a  BY DEF Namespace!Up
<1> HIDE DEF q, r
<1>4. CASE r = 0
  <2>1. n + a - 1 = a * q + (a - 1) /\ a - 1 \in 0 .. a - 1  BY <1>1, <1>4
  <2>2. (n + a - 1) \div a = q  BY <1>1, <2>1, MultDiv
  <2> QED  BY <1>1, <1>2, <1>3, <1>4, <2>2
<1>5. CASE r # 0
  <2>1. n + a - 1 = a * (q + 1) + (r - 1) /\ r - 1 \in 0 .. a - 1 /\ q + 1 \in Nat
    BY <1>1, <1>5
  <2>2. (n + a - 1) \div a = q + 1  BY <2>1, MultDiv
  <2>3. (q + 1) * a = n - r + a  BY <1>1
  <2> QED  BY <1>2, <1>3, <1>5, <2>2, <2>3
<1> QED  BY <1>4, <1>5

Alignments == {1, 2, 4, 8, 16}

(* Rounding to 16 needs no rounding to less before.                        *)
LEMMA AlignTwice ==
  ASSUME NEW n \in Nat, NEW a \in Alignments
  PROVE  Align(Align(n, a), 16) = Align(n, 16)
<1>1. CASE a = 1  BY <1>1 DEF Align
<1>2. CASE a = 2  BY <1>2 DEF Align
<1>3. CASE a = 4  BY <1>3 DEF Align
<1>4. CASE a = 8  BY <1>4 DEF Align
<1>5. CASE a = 16  BY <1>5 DEF Align
<1> QED  BY <1>1, <1>2, <1>3, <1>4, <1>5 DEF Alignments

(* A size with an alignment that keeps its elements aligned.               *)
WholeSize(t) == t.alignment \in Alignments /\ t.size % t.alignment = 0

(* The end of the k-th field, from the ends of those before it.            *)
EndRule(fields, f, k) ==
  IF k = 0 THEN 0
  ELSE Namespace!Up(f[k - 1], fields[k].alignment) + fields[k].size

LEMMA EndsTextbook ==
  ASSUME NEW n \in Nat, NEW fields \in Seq(FieldType), n = Len(fields),
         \A k \in 1 .. n : WholeSize(fields[k]),
         NEW ends \in [0 .. n -> Nat], EndsOf(ends, n, fields)
  PROVE  Namespace!EndOf(fields) = ends[n]
<1> DEFINE Is(f) == f = [k \in 0 .. n |-> EndRule(fields, f, k)]
           all == CHOOSE f : Is(f)
<1>1. ASSUME NEW k \in 1 .. n, NEW m \in Nat
      PROVE  Align(m + fields[k].size, fields[k].alignment) =
               Namespace!Up(m, fields[k].alignment) + fields[k].size
  <2>1. fields[k] \in FieldType /\ WholeSize(fields[k])  OBVIOUS
  <2>2. /\ fields[k].size \in Nat /\ fields[k].alignment \in Nat \ {0}
        /\ fields[k].size % fields[k].alignment = 0
    BY <2>1 DEF FieldType, WholeSize, Alignments
  <2> DEFINE s == fields[k].size
             a == fields[k].alignment
  <2>3. s \in Nat /\ a \in Nat \ {0} /\ s % a = 0  BY <2>2
  <2> HIDE DEF s, a
  <2>4. Align(m + s, a) = Align(m, a) + s  BY <2>3, AlignShift
  <2>5. Namespace!Up(m, a) = Align(m, a)  BY <2>3, UpIsAlign
  <2> QED  BY <2>4, <2>5 DEF s, a
<1>2. Is(ends)
  <2>1. ASSUME NEW k \in 0 .. n  PROVE ends[k] = EndRule(fields, ends, k)
    <3>1. CASE k = 0  BY <3>1 DEF EndRule, EndsOf
    <3>2. CASE k # 0
      <4>1. k \in 1 .. n /\ k - 1 \in 0 .. n  BY <3>2
      <4>2. ends[k - 1] \in Nat  BY <4>1
      <4>3. ends[k] = Align(ends[k - 1] + fields[k].size, fields[k].alignment)
        BY <4>1 DEF EndsOf
      <4> QED  BY <1>1, <3>2, <4>1, <4>2, <4>3 DEF EndRule
    <3> QED  BY <3>1, <3>2
  <2> QED  BY <2>1
<1>3. Is(all)
  <2> HIDE DEF Is
  <2> QED  BY <1>2, Zenon
<1>4. Namespace!EndOf(fields) = all[n]  BY DEF Namespace!EndOf, EndRule
<1> HIDE DEF all
<1>5. all[n] = ends[n]
  <2> SUFFICES ASSUME all[n] # ends[n]  PROVE FALSE  OBVIOUS
  <2> DEFINE T == {k \in 0 .. n : all[k] # ends[k]}
  <2>1. n \in T /\ T \subseteq Nat  OBVIOUS
  <2>2. PICK m \in T : \A y \in T : ~ (y < m)
    <3> HIDE DEF T
    <3> QED  BY <2>1, LeastFacts
  <2>3. m \in 0 .. n /\ all[m] # ends[m]  OBVIOUS
  <2>4. all[m] = EndRule(fields, all, m) /\ ends[m] = EndRule(fields, ends, m)
    BY <1>2, <1>3, <2>3
  <2>5. m # 0  BY <2>3, <2>4 DEF EndRule
  <2>6. m - 1 \in 0 .. n /\ m - 1 < m  BY <2>3, <2>5
  <2>7. all[m - 1] = ends[m - 1]  BY <2>2, <2>6
  <2> QED  BY <2>3, <2>4, <2>7 DEF EndRule
<1> QED  BY <1>4, <1>5

LEMMA LargestIs ==
  ASSUME NEW S \in SUBSET Nat, NEW m \in S, \A y \in S : y <= m
  PROVE  Namespace!Largest(S) = m
<1>1. \A x \in S : (\A y \in S : y <= x) => x = m
  <2> SUFFICES ASSUME NEW x \in S, \A y \in S : y <= x  PROVE x = m  OBVIOUS
  <2>1. m <= x /\ x <= m /\ x \in Nat /\ m \in Nat  OBVIOUS
  <2> QED  BY <2>1
<1> QED  BY <1>1 DEF Namespace!Largest

LEMMA LayoutTextbook ==
  ASSUME NEW l \in LayoutType, LaidOutAs(l),
         \A k \in DOMAIN l.fields : WholeSize(l.fields[k])
  PROVE  /\ SizeIn(l) = Namespace!Textbook(l.fields, l.c)
         /\ WholeSize(SizeIn(l))
<1> DEFINE n == Len(l.fields)
           fields == l.fields
           a == l.maxAlign
           packed == Align(l.offs, a)
<1>1. /\ n \in Nat /\ Len(l.offsets) = n /\ fields \in Seq(FieldType)
      /\ DOMAIN fields = 1 .. n
      /\ l.offs \in Nat /\ l.c \in BOOLEAN
  BY DEF LayoutType, LaidOutAs
<1>2. Looped(l)  BY DEF LaidOutAs
<1>3. /\ a \in Nat \ {0}
      /\ \A k \in 1 .. n : fields[k].alignment \in 1 .. a
      /\ a = 1 \/ \E k \in 1 .. n : fields[k].alignment = a
  BY <1>1, <1>2 DEF Looped
<1>4. PICK ends \in [0 .. n -> Nat] : EndsOf(ends, n, fields) /\ ends[n] = l.offs
  BY <1>1, <1>2 DEF Looped
<1>5. \A k \in 1 .. n : WholeSize(fields[k])  BY <1>1
<1> DEFINE S == {1} \cup {fields[k].alignment : k \in DOMAIN fields}
<1> HIDE DEF n, fields, a
<1>6. Namespace!EndOf(fields) = l.offs
  BY <1>1, <1>4, <1>5, EndsTextbook DEF n
<1>7. a \in Alignments
  BY <1>3, <1>5 DEF WholeSize, Alignments
<1>8. Namespace!Largest(S) = a
  <2>1. \A k \in DOMAIN fields : fields[k].alignment \in Nat /\ fields[k].alignment <= a
    BY <1>1, <1>3
  <2>2. S \in SUBSET Nat /\ \A y \in S : y <= a  BY <1>3, <2>1
  <2>3. a \in S  BY <1>1, <1>3
  <2> HIDE DEF S
  <2> QED  BY <2>2, <2>3, LargestIs
<1>9. packed \in Nat /\ packed % a = 0 /\ Namespace!Up(l.offs, a) = packed
  BY <1>1, <1>3, AlignUp, AlignMod, UpIsAlign
<1>10. Namespace!Up(packed, 16) = Align(l.offs, 16)
  <2>1. Align(packed, 16) = Align(l.offs, 16)  BY <1>1, <1>7, AlignTwice
  <2>2. 16 \in Nat \ {0}  OBVIOUS
  <2> HIDE DEF packed
  <2> QED  BY <1>9, <2>1, <2>2, UpIsAlign
<1>11. Align(l.offs, 16) % 16 = 0
  <2>1. 16 \in Nat \ {0}  OBVIOUS
  <2> QED  BY <1>1, <2>1, AlignMod
<1>12. Wide(l) <=> ~ (l.c \/ packed <= 8)
  BY <1>9 DEF Wide, a
<1>13. /\ l.size = IF Wide(l) THEN Align(l.offs, 16) ELSE packed
       /\ l.alignment = IF Wide(l) THEN 16 ELSE a
  BY DEF LaidOutAs, a
<1> HIDE DEF packed, S
<1>14. Namespace!Textbook(fields, l.c) =
         IF l.c \/ packed <= 8 THEN [size |-> packed, alignment |-> a]
         ELSE [size |-> Align(l.offs, 16), alignment |-> 16]
  BY <1>6, <1>8, <1>9, <1>10 DEF Namespace!Textbook, S
<1>15. SizeIn(l) = Namespace!Textbook(fields, l.c)
  BY <1>12, <1>13, <1>14 DEF SizeIn
<1>16. WholeSize(SizeIn(l))
  BY <1>7, <1>9, <1>11, <1>13 DEF SizeIn, WholeSize, Alignments
<1> QED  BY <1>15, <1>16 DEF fields

-----------------------------------------------------------------------------
(* What a declaration measures, by its text and the sizes of the others.   *)

ElemIn(n, c, syms, sizes) ==
  IF n \in Builtins THEN BuiltinType[n]
  ELSE IF syms[n] # 0 THEN sizes[syms[n]]
  ELSE IF c THEN BuiltinType[CInt] ELSE Unsized

ValueIn(e, c, syms, sizes) ==
  IF e.ctor = "ptr" THEN [size |-> 8, alignment |-> 8]
  ELSE IF e.ctor = "name" THEN ElemIn(e.name, c, syms, sizes)
  ELSE ArrayDef(e.len, ElemIn(e.name, c, syms, sizes))

Values(p, syms, sizes) ==
  [k \in DOMAIN p.body |-> ValueIn(p.body[k], p.kind = "cstruct", syms, sizes)]

(* The size that the abstract specification settles.                       *)
SettledAs(p, def, syms, sizes) ==
  /\ \A k \in DOMAIN p.body : Values(p, syms, sizes)[k].alignment # 0
  /\ def = IF p.kind = "named" THEN Values(p, syms, sizes)[1]
           ELSE Namespace!Textbook(Values(p, syms, sizes), p.kind = "cstruct")

(* No element is the declaration itself.                                   *)
Apart(i, p, syms) ==
  \A k \in DOMAIN p.body :
    p.body[k].ctor # "ptr" /\ p.body[k].name \notin Builtins => syms[p.body[k].name] # i

(* A type that a field of a C structure was looked up to.                  *)
CachedC(t, e, syms) ==
  /\ t.ctor = e.ctor /\ t.len = e.len
  /\ t.ref = IF Found(e.name, syms) THEN Lookup(e.name, syms) ELSE CInt

(* The arrays that were made are whole numbers of alignments: the array    *)
(* constructor aligns an array of more than 8 bytes to 16 and leaves its   *)
(* size as it is, so that [3]int32 has size 12 and alignment 16.           *)
WholeArray(t) ==
  t.ctor = "array" /\ ArrayDef(t.len, t.snap).alignment # 0 =>
    ArrayDef(t.len, t.snap).size % ArrayDef(t.len, t.snap).alignment = 0

ArraysWhole ==
  \A i \in Decls : /\ WholeArray(node[i].tid)
                   /\ \A k \in DOMAIN prog[i].body : WholeArray(fieldType[i][k])

WholeKnown(i) == Known[i].alignment # 0 => WholeSize(Known[i])

WholeInv == \A i \in Decls : WholeKnown(i)

SettledNow(i) ==
  /\ prog[i].kind # "use" /\ symbols[prog[i].name] = i
  /\ (prog[i].kind = "cstruct" =>
        \A k \in DOMAIN prog[i].body : CachedC(fieldType[i][k], prog[i].body[k], symbols))
     => Apart(i, prog[i], symbols) /\ SettledAs(prog[i], Known[i], symbols, Known)

(* A size is whole and settled if those it is made of are whole.           *)
SettlesInv ==
  \A i \in Decls :
    Known[i].alignment # 0 /\ (\A j \in Decls \ {i} : WholeKnown(j)) =>
      WholeSize(Known[i]) /\ SettledNow(i)

LEMMA ElemMeasure ==
  ASSUME TypeInv, NEW e \in TypeExpr, NEW c \in BOOLEAN, NEW t, GoodType(t),
         t.ctor = e.ctor, t.len = e.len,
         t.ref = IF Found(e.name, symbols) THEN Lookup(e.name, symbols) ELSE CInt,
         c \/ Found(e.name, symbols), FinalSnap(t, Known), Blank(Known),
         Measure(t, Known).alignment # 0
  PROVE  /\ ValueIn(e, c, symbols, Known) = Measure(t, Known)
         /\ e.ctor # "ptr" => DefOf(t.ref, Known).alignment # 0
         /\ e.name \notin Builtins /\ symbols[e.name] # 0 => t.ref = symbols[e.name]
<1>1. e.ctor \in {"name", "ptr", "array"} /\ e.name \in Names \cup Builtins
  BY DEF TypeExpr
<1>2. symbols \in [Names -> {0} \cup Decls] /\ CInt \in Builtins
  BY ConstantsAssumption DEF TypeInv, SymbolsInv
<1>3. ElemIn(e.name, c, symbols, Known) = DefOf(t.ref, Known)
  <2>1. CASE e.name \in Builtins
    BY <1>1, <2>1, RefFacts DEF ElemIn, Found, Lookup, TypeInv
  <2>2. CASE e.name \notin Builtins /\ symbols[e.name] # 0
    <3>1. t.ref = symbols[e.name] /\ t.ref \in Decls
      BY <1>1, <1>2, <2>2 DEF Found, Lookup
    <3>2. DefOf(t.ref, Known) = Known[t.ref]  BY <3>1, RefFacts, KnownFacts DEF TypeInv
    <3> QED  BY <2>2, <3>1, <3>2 DEF ElemIn
  <2>3. CASE e.name \notin Builtins /\ symbols[e.name] = 0
    <3>1. c /\ t.ref = CInt  BY <2>3 DEF Found
    <3>2. DefOf(CInt, Known) = BuiltinType[CInt]  BY <1>2, RefFacts DEF TypeInv
    <3> QED  BY <2>3, <3>1, <3>2 DEF ElemIn
  <2> QED  BY <2>1, <2>2, <2>3
<1>4. CASE e.ctor = "ptr"  BY <1>4 DEF ValueIn, Measure, Found, Lookup
<1>5. CASE e.ctor = "name"  BY <1>3, <1>5 DEF ValueIn, Measure, Found, Lookup
<1>6. CASE e.ctor = "array"
  <2>1. t.snap = DefOf(t.ref, Known) /\ t.snap.alignment # 0  BY <1>6, ArrayFinal
  <2>2. Measure(t, Known) = ArrayDef(t.len, t.snap)  BY <1>6 DEF Measure
  <2> QED  BY <1>3, <1>6, <2>1, <2>2 DEF ValueIn, Found, Lookup
<1> QED  BY <1>1, <1>4, <1>5, <1>6

(* A whole array of whole elements, a pointer, or what a name has.         *)
LEMMA MeasureWhole ==
  ASSUME TypeInv, NEW t, GoodType(t), FinalSnap(t, Known), Blank(Known),
         t.ctor \in {"name", "ptr", "array"}, Measure(t, Known).alignment # 0,
         WholeArray(t), t.ctor # "ptr" /\ t.ref \in Decls => WholeKnown(t.ref)
  PROVE  WholeSize(Measure(t, Known))
<1>1. CASE t.ctor = "ptr"
  <2>1. Measure(t, Known) = [size |-> 8, alignment |-> 8]  BY <1>1 DEF Measure
  <2> QED  BY <2>1 DEF WholeSize, Alignments
<1>2. ASSUME t.ctor # "ptr", DefOf(t.ref, Known).alignment # 0
      PROVE  WholeSize(DefOf(t.ref, Known))
  <2>1. t.ref \in Builtins \cup Decls  BY DEF GoodType
  <2>2. CASE t.ref \in Builtins
    <3>1. DefOf(t.ref, Known) = BuiltinType[t.ref]  BY <2>2, RefFacts DEF TypeInv
    <3>2. GoodBuiltin(BuiltinType[t.ref])  BY <2>2, ConstantsAssumption
    <3> QED  BY <1>2, <3>1, <3>2 DEF GoodBuiltin, WholeSize, Alignments
  <2>3. CASE t.ref \in Decls
    <3>1. DefOf(t.ref, Known) = Known[t.ref]  BY <2>3, RefFacts, KnownFacts DEF TypeInv
    <3> QED  BY <1>2, <2>3, <3>1 DEF WholeKnown
  <2> QED  BY <2>1, <2>2, <2>3
<1>3. CASE t.ctor = "name"
  BY <1>2, <1>3 DEF Measure
<1>4. CASE t.ctor = "array"
  <2>1. t.snap = DefOf(t.ref, Known) /\ t.snap.alignment # 0  BY <1>4, ArrayFinal
  <2>2. Measure(t, Known) = ArrayDef(t.len, t.snap)  BY <1>4 DEF Measure
  <2>3. WholeSize(t.snap)  BY <1>2, <1>4, <2>1
  <2>4. ArrayDef(t.len, t.snap).alignment \in {16, t.snap.alignment}  BY DEF ArrayDef
  <2>5. ArrayDef(t.len, t.snap).alignment \in Alignments
    BY <2>3, <2>4 DEF WholeSize, Alignments
  <2> QED  BY <1>4, <2>2, <2>5 DEF WholeArray, WholeSize
<1> QED  BY <1>1, <1>3, <1>4

LEMMA SizedIsDeclared ==
  ASSUME TypeInv, SizesInv, SelfInv, NEW i \in Decls, Known[i].alignment # 0
  PROVE  prog[i].kind # "use" /\ symbols[prog[i].name] = i
<1>1. Sized(i, prog[i], node[i], fieldType[i], structure[i], Known, symbols)
  BY DEF SizesInv, SizedInv
<1>2. node[i].self
  <2>1. CASE Busy /\ i = at  BY <2>1 DEF SizesInv, BusyInv
  <2>2. CASE ~ (Busy /\ i = at)
    <3>1. SizeIn(node[i]) = Known[i]  BY <2>2 DEF SizesInv, CopiesInv
    <3>2. node[i].alignment # 0
      <4>1. SizeIn(node[i]).alignment = node[i].alignment  BY DEF SizeIn
      <4> QED  BY <3>1, <4>1
    <3> QED  BY <1>1, <3>2 DEF Sized, GoodNew
  <2> QED  BY <2>1, <2>2
<1> QED  BY <1>2 DEF SelfInv, Declares

(* How a named type got its size.                                          *)
LEMMA NamedFacts ==
  ASSUME TypeInv, SizedInv, NEW i \in Decls, Known[i].alignment # 0,
         prog[i].kind = "named"
  PROVE  LET t == node[i].tid
         IN  /\ GoodType(t) /\ FinalSnap(t, Known) /\ NotItself(t, i)
             /\ CachedAs(t, prog[i].body[1], symbols)
             /\ Known[i] = Measure(t, Known)
             /\ DOMAIN prog[i].body = {1}
<1>1. Sized(i, prog[i], node[i], fieldType[i], structure[i], Known, symbols)
  BY DEF SizedInv
<1>2. Known[i] = SizeIn(node[i])  BY KnownFacts DEF KnownAs, StructKinds
<1>3. node[i].alignment # 0
  <2>1. SizeIn(node[i]).alignment = node[i].alignment  BY DEF SizeIn
  <2> QED  BY <1>2, <2>1
<1>4. GoodNamed(i, prog[i], node[i], Known, symbols)  BY <1>1 DEF Sized
<1>5. GoodType(node[i].tid)  BY DEF TypeInv, NodeInv
<1>6. DOMAIN prog[i].body = {1}
  <2>1. prog[i].body \in Seq(TypeExpr)  BY ProgFacts DEF TypeInv
  <2>2. Len(prog[i].body) = 1
    BY ConstantsAssumption DEF TypeInv, ProgInv, Decls
  <2> QED  BY <2>1, <2>2
<1> QED  BY <1>2, <1>3, <1>4, <1>5, <1>6 DEF GoodNamed

(* The types of the elements, whichever kind of declaration has them.      *)
LEMMA ElementFacts ==
  ASSUME TypeInv, NEW i \in Decls, Blank(Known), NEW types,
         NEW c \in BOOLEAN, c = (prog[i].kind = "cstruct"),
         \A k \in DOMAIN prog[i].body :
           /\ GoodType(types[k]) /\ FinalSnap(types[k], Known)
           /\ Measure(types[k], Known).alignment # 0
           /\ NotItself(types[k], i)
           /\ CachedC(types[k], prog[i].body[k], symbols)
           /\ c \/ Found(prog[i].body[k].name, symbols)
  PROVE  /\ Apart(i, prog[i], symbols)
         /\ \A k \in DOMAIN prog[i].body :
              Values(prog[i], symbols, Known)[k] = Measure(types[k], Known)
<1>1. \A k \in DOMAIN prog[i].body : prog[i].body[k] \in TypeExpr
  <2>1. prog[i].body \in Seq(TypeExpr)  BY ProgFacts DEF TypeInv
  <2> QED  BY <2>1
<1>2. ASSUME NEW k \in DOMAIN prog[i].body
      PROVE  /\ ValueIn(prog[i].body[k], c, symbols, Known) = Measure(types[k], Known)
             /\ prog[i].body[k].name \notin Builtins /\ symbols[prog[i].body[k].name] # 0
                  => types[k].ref = symbols[prog[i].body[k].name]
             /\ prog[i].body[k].ctor = types[k].ctor
             /\ prog[i].body[k].ctor \in {"name", "ptr", "array"}
             /\ NotItself(types[k], i)
  <2> DEFINE e == prog[i].body[k]
             t == types[k]
  <2>1. /\ e \in TypeExpr /\ GoodType(t) /\ FinalSnap(t, Known)
        /\ Measure(t, Known).alignment # 0 /\ NotItself(t, i)
        /\ t.ctor = e.ctor /\ t.len = e.len
        /\ t.ref = IF Found(e.name, symbols) THEN Lookup(e.name, symbols) ELSE CInt
        /\ c \/ Found(e.name, symbols)
    BY <1>1 DEF CachedC
  <2> HIDE DEF e, t
  <2>2. /\ ValueIn(e, c, symbols, Known) = Measure(t, Known)
        /\ e.name \notin Builtins /\ symbols[e.name] # 0 => t.ref = symbols[e.name]
    BY <2>1, ElemMeasure
  <2>3. e.ctor \in {"name", "ptr", "array"}  BY <2>1 DEF TypeExpr
  <2> QED  BY <2>1, <2>2, <2>3 DEF e, t
<1>3. i # 0
  <2>1. Decls = 1 .. Len(prog) /\ Len(prog) \in Nat  BY ProgFacts DEF TypeInv
  <2> QED  BY <2>1
<1>4. Apart(i, prog[i], symbols)
  <2> SUFFICES ASSUME NEW k \in DOMAIN prog[i].body, prog[i].body[k].ctor # "ptr",
                      prog[i].body[k].name \notin Builtins,
                      symbols[prog[i].body[k].name] = i
               PROVE  FALSE
    BY DEF Apart
  <2>1. types[k].ref = i  BY <1>2, <1>3
  <2> QED  BY <1>2, <2>1 DEF NotItself
<1>5. \A k \in DOMAIN prog[i].body :
        Values(prog[i], symbols, Known)[k] = Measure(types[k], Known)
  BY <1>2 DEF Values
<1> QED  BY <1>4, <1>5

LEMMA CachedBoth ==
  ASSUME NEW t, NEW e, NEW syms, CachedAs(t, e, syms)
  PROVE  CachedC(t, e, syms) /\ Found(e.name, syms)
BY DEF CachedAs, CachedC

LEMMA Settles ==
  ASSUME TypeInv, SizesInv, SelfInv, ArraysWhole
  PROVE  SettlesInv
<1> SUFFICES ASSUME NEW i \in Decls, Known[i].alignment # 0,
                    \A j \in Decls \ {i} : WholeKnown(j)
             PROVE  WholeSize(Known[i]) /\ SettledNow(i)
  BY DEF SettlesInv
<1>1. SizedInv /\ Blank(Known)  BY BlankKnown DEF SizesInv
<1>2. prog[i].kind # "use" /\ symbols[prog[i].name] = i  BY SizedIsDeclared
<1>3. ASSUME NEW t, GoodType(t), NotItself(t, i), t.ctor # "ptr", t.ref \in Decls,
             t.ctor \in {"name", "ptr", "array"}
      PROVE  WholeKnown(t.ref)
  BY <1>3 DEF NotItself
<1>4. CASE prog[i].kind = "named"
  <2> DEFINE t == node[i].tid
             types == [k \in {1} |-> t]
  <2>1. /\ GoodType(t) /\ FinalSnap(t, Known) /\ NotItself(t, i)
        /\ CachedAs(t, prog[i].body[1], symbols)
        /\ Known[i] = Measure(t, Known)
        /\ DOMAIN prog[i].body = {1}
        /\ WholeArray(t)
    BY <1>1, <1>4, NamedFacts DEF ArraysWhole
  <2>2. t.ctor \in {"name", "ptr", "array"}
    <3>1. prog[i].body[1] \in TypeExpr
      <4>1. prog[i].body \in Seq(TypeExpr)  BY ProgFacts DEF TypeInv
      <4> QED  BY <2>1, <4>1
    <3> QED  BY <2>1, <3>1 DEF CachedAs, TypeExpr
  <2> HIDE DEF t
  <2>3. WholeSize(Known[i])  BY <1>1, <1>3, <2>1, <2>2, MeasureWhole
  <2>4. Apart(i, prog[i], symbols) /\ Values(prog[i], symbols, Known)[1] = Measure(t, Known)
    <3>1. CachedC(t, prog[i].body[1], symbols) /\ Found(prog[i].body[1].name, symbols)
      BY <2>1, CachedBoth
    <3>2. \A k \in DOMAIN prog[i].body :
            /\ GoodType(types[k]) /\ FinalSnap(types[k], Known)
            /\ Measure(types[k], Known).alignment # 0
            /\ NotItself(types[k], i)
            /\ CachedC(types[k], prog[i].body[k], symbols)
            /\ FALSE \/ Found(prog[i].body[k].name, symbols)
      BY <2>1, <3>1
    <3>3. types[1] = t /\ 1 \in DOMAIN prog[i].body  BY <2>1
    <3> HIDE DEF types
    <3> QED  BY <1>1, <1>4, <3>2, <3>3, ElementFacts
  <2>5. SettledAs(prog[i], Known[i], symbols, Known)
    BY <1>4, <2>1, <2>4 DEF SettledAs
  <2> QED  BY <1>2, <2>3, <2>4, <2>5 DEF SettledNow
<1>5. CASE prog[i].kind \in StructKinds
  <2> DEFINE types == fieldType[i]
             c == prog[i].kind = "cstruct"
  <2>1. /\ structure[i].alignment # 0 /\ LaidOutAs(structure[i])
        /\ structure[i].fields = Measures(types, Known)
        /\ structure[i].c = c /\ structure[i] \in LayoutType
        /\ Known[i] = SizeIn(structure[i])
        /\ DOMAIN types = DOMAIN prog[i].body
    BY <1>1, <1>5, LaidFacts, KnownFacts DEF KnownAs, TypeInv, StructureInv, FieldInv
  <2>2. \A k \in DOMAIN prog[i].body :
          /\ types[k] # NoType /\ GoodType(types[k])
          /\ FinalSnap(types[k], Known)
          /\ Measure(types[k], Known).alignment # 0
          /\ NotItself(types[k], i)
          /\ prog[i].kind = "struct" => CachedAs(types[k], prog[i].body[k], symbols)
          /\ types[k].ctor \in {"name", "ptr", "array"}
          /\ WholeArray(types[k])
    BY <1>1, <1>5, LaidFacts DEF ArraysWhole, SizedInv, Sized, GoodFields
  <2> HIDE DEF types
  <2>3. \A k \in DOMAIN prog[i].body : WholeSize(Measure(types[k], Known))
    BY <1>1, <1>3, <2>2, MeasureWhole
  <2>4. \A k \in DOMAIN structure[i].fields : WholeSize(structure[i].fields[k])
    BY <2>1, <2>3 DEF Measures
  <2>5. /\ Known[i] = Namespace!Textbook(Measures(types, Known), c)
        /\ WholeSize(Known[i])
    BY <2>1, <2>4, LayoutTextbook
  <2>6. ASSUME c => \A k \in DOMAIN prog[i].body : CachedC(types[k], prog[i].body[k], symbols)
        PROVE  Apart(i, prog[i], symbols) /\ SettledAs(prog[i], Known[i], symbols, Known)
    <3>1. \A k \in DOMAIN prog[i].body :
            /\ GoodType(types[k]) /\ FinalSnap(types[k], Known)
            /\ Measure(types[k], Known).alignment # 0
            /\ NotItself(types[k], i)
            /\ CachedC(types[k], prog[i].body[k], symbols)
            /\ c \/ Found(prog[i].body[k].name, symbols)
      BY <1>5, <2>2, <2>6, CachedBoth DEF StructKinds
    <3>2. c \in BOOLEAN /\ c = (prog[i].kind = "cstruct")  OBVIOUS
    <3> HIDE DEF c
    <3>3. /\ Apart(i, prog[i], symbols)
          /\ \A k \in DOMAIN prog[i].body :
               Values(prog[i], symbols, Known)[k] = Measure(types[k], Known)
      BY <1>1, <3>1, <3>2, ElementFacts
    <3>4. Values(prog[i], symbols, Known) = Measures(types, Known)
      BY <2>1, <3>3 DEF Values, Measures
    <3>5. prog[i].kind # "named"  BY <1>5 DEF StructKinds
    <3> QED  BY <2>2, <2>5, <3>2, <3>3, <3>4, <3>5 DEF SettledAs
  <2> QED  BY <1>2, <2>5, <2>6 DEF SettledNow, types
<1> QED
  <2>1. prog[i].kind \in {"struct", "named", "cstruct", "use"}  BY ProgFacts DEF TypeInv
  <2> QED  BY <1>2, <1>4, <1>5, <2>1 DEF StructKinds

-----------------------------------------------------------------------------
(* A C structure is laid out at its first visit, from the types its fields *)
(* are looked up to then.                                                  *)
CFieldInv ==
  \A i \in Decls : prog[i].kind = "cstruct" /\ structure[i].alignment = 0 =>
    \A k \in DOMAIN prog[i].body :
      IF Busy /\ i = at THEN CachedC(fieldType[i][k], prog[i].body[k], symbols)
      ELSE fieldType[i][k] = NoType

(* A step is about one declaration.                                        *)
LEMMA StepFrame ==
  ASSUME TypeInv, Next
  PROVE  /\ prog' = prog
         /\ \A i \in Decls : i # at => /\ (node')[i] = node[i]
                                       /\ (structure')[i] = structure[i]
                                       /\ (fieldType')[i] = fieldType[i]
         /\ \/ symbols' = symbols
            \/ symbols' = Symbols /\ Registers /\ Declares(at)
<1>1. /\ at \in Decls /\ node \in [Decls -> NodeType]
      /\ structure \in [Decls -> LayoutType] /\ DOMAIN fieldType = Decls
  BY VisitFacts DEF TypeInv, NodeInv, StructureInv, FieldInv
<1>2. \A i \in Decls : i # at => Opened[i] = node[i] /\ Nodes[i] = node[i]
  BY <1>1 DEF Opened, Nodes
<1>3. \A i \in Decls : DOMAIN Nodes = Decls  BY <1>1 DEF Opened, Nodes
<1>4. CASE Redeclare  BY <1>2, <1>4 DEF Redeclare
<1>5. CASE VisitNamed
  BY <1>2, <1>5 DEF VisitNamed, Visiting, Declares, d
<1>6. CASE VisitKnownStruct
  <2>1. /\ prog' = prog /\ symbols' = symbols /\ structure' = structure
        /\ node' = [Nodes EXCEPT ![at] = Copied(node[at].tid, Get(node[at].tid, Nodes))]
        /\ fieldType' = fieldType \/ fieldType' = [fieldType EXCEPT ![at] = FieldTypes]
    BY <1>6 DEF VisitKnownStruct
  <2> QED  BY <1>1, <1>2, <2>1
<1>7. CASE VisitIncompleteStruct
  BY <1>1, <1>2, <1>7 DEF VisitIncompleteStruct, Visiting, Declares, d
<1>8. CASE OpenStruct
  BY <1>1, <1>2, <1>8 DEF OpenStruct, Visiting, Declares, d
<1>9. CASE OpenCStruct
  BY <1>1, <1>2, <1>9 DEF OpenCStruct, Visiting, Declares, d
<1>10. CASE PlaceStructField  BY <1>10 DEF PlaceStructField
<1>11. CASE DieInLayout  BY <1>11 DEF DieInLayout
<1>12. CASE CloseStruct  BY <1>1, <1>12 DEF CloseStruct
<1>13. CASE VisitUse  BY <1>13 DEF VisitUse
<1> QED
  BY <1>4, <1>5, <1>6, <1>7, <1>8, <1>9, <1>10, <1>11, <1>12, <1>13 DEF Next

LEMMA CFieldStep ==
  ASSUME TypeInv, TypeInv', SizesInv, CFieldInv, Next
  PROVE  CFieldInv'
<1>1. /\ prog' = prog /\ Decls' = Decls
      /\ at \in Decls /\ d = prog[at] /\ SizedInv /\ CopiesInv /\ BusyInv
      /\ LayInv /\ LayInv'
      /\ \A i \in Decls : i # at => /\ (structure')[i] = structure[i]
                                    /\ (fieldType')[i] = fieldType[i]
  BY VisitFacts, StepFrame DEF SizesInv, Decls, TypeInv
<1> DEFINE Unlaid(i) == prog[i].kind = "cstruct" /\ (structure')[i].alignment = 0
           Kept1(i) == \A k \in DOMAIN prog[i].body : (fieldType')[i][k] = NoType
           Kept2(i) == \A k \in DOMAIN prog[i].body :
                         CachedC((fieldType')[i][k], prog[i].body[k], symbols')
<1>2. SUFFICES ASSUME NEW i \in Decls, Unlaid(i)
               PROVE  IF Busy' /\ i = at' THEN Kept2(i) ELSE Kept1(i)
  BY <1>1 DEF CFieldInv
(* Between two visits nothing of a structure without a layout is cached.   *)
<1>3. ASSUME ~ Busy, ~ Busy', (fieldType')[i] = fieldType[i],
             (structure')[i] = structure[i]
      PROVE  IF Busy' /\ i = at' THEN Kept2(i) ELSE Kept1(i)
  BY <1>2, <1>3 DEF CFieldInv
<1>4. ASSUME i # at, at' = at \/ ~ Busy'
      PROVE  Kept1(i) /\ ~ (Busy' /\ i = at')
  BY <1>1, <1>2, <1>4 DEF CFieldInv
<1>5. CASE Redeclare
  BY <1>3, <1>5 DEF Redeclare, Visiting, Busy
<1>6. CASE VisitNamed
  BY <1>3, <1>6 DEF VisitNamed, Visiting, Busy
<1>7. CASE VisitUse
  BY <1>3, <1>7 DEF VisitUse, Visiting, Busy
<1>8. CASE VisitKnownStruct
  <2>1. i # at /\ ~ Busy'
    BY <1>1, <1>2, <1>8 DEF VisitKnownStruct, Visiting, Busy
  <2> QED  BY <1>4, <2>1
<1>9. CASE VisitIncompleteStruct
  <2>1. i # at /\ ~ Busy'
    BY <1>1, <1>2, <1>9 DEF VisitIncompleteStruct, Visiting, Busy
  <2> QED  BY <1>4, <2>1
<1>10. CASE OpenStruct
  <2>1. i # at /\ at' = at
    BY <1>1, <1>2, <1>10 DEF OpenStruct, Visiting, position
  <2> QED  BY <1>4, <2>1
<1>11. CASE OpenCStruct
  <2>1. /\ at' = at /\ ~ Busy /\ symbols' = Symbols /\ structure' = structure
        /\ (fieldType')[at] = CFieldTypes
        /\ BeginLayout(Sizes(CFieldTypes), TRUE)
    BY <1>1, <1>11 DEF OpenCStruct, Visiting, position, TypeInv, FieldInv
  <2>2. CASE i # at  BY <1>4, <2>1, <2>2
  <2>3. CASE i = at
    <3>1. Busy'
      <4>1. (lay').status = "placing"  BY <2>1 DEF BeginLayout, NoLayout
      <4> QED  BY <4>1 DEF Busy
    <3>2. \A k \in DOMAIN d.body : fieldType[at][k] = NoType
      BY <1>1, <1>2, <2>1, <2>3 DEF CFieldInv
    <3>3. ASSUME NEW k \in DOMAIN d.body
          PROVE  CachedC(CFieldTypes[k], d.body[k], Symbols)
      <4>1. CFieldTypes[k] = ResolveC(d.body[k], Symbols, Nodes)
        BY <3>2 DEF CFieldTypes
      <4> QED  BY <4>1 DEF ResolveC, MakeType, CachedC
    <3> QED  BY <1>1, <2>1, <2>3, <3>1, <3>3
  <2> QED  BY <2>2, <2>3
<1>12. ASSUME PlaceStructField \/ DieInLayout
       PROVE  IF Busy' /\ i = at' THEN Kept2(i) ELSE Kept1(i)
  <2>1. /\ at' = at /\ Busy /\ symbols' = symbols /\ structure' = structure
        /\ fieldType' = fieldType
    BY <1>12 DEF PlaceStructField, DieInLayout, position, PlaceField, DivideByZero,
       Pending, Busy
  <2>2. Busy'
    BY <1>1, <1>12 DEF PlaceStructField, DieInLayout, PlaceField, DivideByZero,
       Pending, Busy, LayInv, LayoutType
  <2> QED  BY <1>2, <2>1, <2>2 DEF CFieldInv
<1>13. CASE CloseStruct
  <2>1. /\ CloseLayout /\ (structure')[at] = lay'
    BY <1>1, <1>13 DEF CloseStruct, TypeInv, StructureInv
  <2>2. Busy  BY <2>1 DEF CloseLayout, Busy
  <2>3. (lay').alignment # 0 /\ (lay').status = "idle"
    BY <1>1, <2>1, <2>2, ClosedLaid DEF BusyInv
  <2>4. i # at /\ ~ Busy'  BY <1>2, <2>1, <2>3 DEF Busy
  <2> QED  BY <1>4, <2>4
<1> QED
  BY <1>5, <1>6, <1>7, <1>8, <1>9, <1>10, <1>11, <1>12, <1>13 DEF Next

LEMMA CFieldInit ==
  ASSUME Init
  PROVE  CFieldInv
<1>1. \A i \in Decls : \A k \in DOMAIN prog[i].body : fieldType[i][k] = NoType
  BY DEF Init, Decls
<1>2. ~ Busy  BY DEF Init, Busy, NoLayout
<1> QED  BY <1>1, <1>2 DEF CFieldInv

-----------------------------------------------------------------------------
(* From SettlesInv to a step of the abstract specification, which looks    *)
(* names up in the new table and takes the sizes that were known.          *)

LEMMA AbstractValue ==
  ASSUME NEW e \in TypeExpr, NEW c \in BOOLEAN
  PROVE  Namespace!Value(e, c) = ValueIn(e, c, symbols', Known)
<1>1. e.ctor \in {"name", "ptr", "array"} /\ e.name \in Names \cup Builtins
  BY DEF TypeExpr
<1>2. Namespace!Elem(e.name, c) = ElemIn(e.name, c, symbols', Known)
  <2>1. CASE e.name \in Builtins
    <3>1. e.name \notin Names  BY <2>1, ConstantsAssumption
    <3> QED  BY <2>1, <3>1 DEF Namespace!Elem, ElemIn
  <2>2. CASE e.name \notin Builtins
    <3>1. e.name \in Names  BY <1>1, <2>2
    <3> QED  BY <2>2, <3>1 DEF Namespace!Elem, ElemIn, Namespace!Unknown, Unsized
  <2> QED  BY <2>1, <2>2
<1>3. CASE e.ctor = "ptr"  BY <1>3 DEF Namespace!Value, ValueIn
<1>4. CASE e.ctor = "name"  BY <1>2, <1>4 DEF Namespace!Value, ValueIn
<1>5. CASE e.ctor = "array"  BY <1>2, <1>5 DEF Namespace!Value, ValueIn, ArrayDef
<1> QED  BY <1>1, <1>3, <1>4, <1>5

LEMMA AbstractSettle ==
  ASSUME TypeInv, NEW i \in Decls, Known[i] = Unsized, (symbols')[prog[i].name] = i,
         NEW def, SettledAs(prog[i], def, symbols', Known),
         Known' = [Known EXCEPT ![i] = def]
  PROVE  Namespace!Settle(i)
<1> DEFINE c == prog[i].kind = "cstruct"
           values == [k \in DOMAIN prog[i].body |-> Namespace!Value(prog[i].body[k], c)]
<1>1. \A k \in DOMAIN prog[i].body : prog[i].body[k] \in TypeExpr
  <2>1. prog[i].body \in Seq(TypeExpr)  BY ProgFacts DEF TypeInv
  <2> QED  BY <2>1
<1>2. values = Values(prog[i], symbols', Known)
  <2>1. c \in BOOLEAN  OBVIOUS
  <2>2. \A k \in DOMAIN prog[i].body :
          Namespace!Value(prog[i].body[k], c) =
            ValueIn(prog[i].body[k], c, symbols', Known)
    <3> HIDE DEF c
    <3> QED  BY <1>1, <2>1, AbstractValue
  <2> QED  BY <2>2 DEF Values
<1>3. DOMAIN values = DOMAIN prog[i].body  OBVIOUS
<1>4. /\ \A k \in DOMAIN values : values[k].alignment # 0
      /\ def = IF prog[i].kind = "named" THEN values[1] ELSE Namespace!Textbook(values, c)
  <2> HIDE DEF values
  <2> QED  BY <1>2, <1>3 DEF SettledAs
<1>5. Known[i] = Namespace!Unknown  BY DEF Unsized, Namespace!Unknown
<1> QED  BY <1>4, <1>5 DEF Namespace!Settle

LEMMA AbstractDeclare ==
  ASSUME TypeInv, SelfInv, symbols' = Symbols, Registers, Declares(at)
  PROVE  Namespace!Declare(at)
<1>1. d = prog[at] /\ at \in Decls  BY VisitFacts
<1>2. at # 0
  <2>1. Decls = 1 .. Len(prog) /\ Len(prog) \in Nat  BY ProgFacts DEF TypeInv
  <2> QED  BY <1>1, <2>1
<1>3. CASE node[at].self
  <2>1. symbols' = symbols /\ symbols[prog[at].name] = at
    BY <1>1, <1>3 DEF Symbols, SelfInv
  <2> QED  BY <1>2, <2>1 DEF Namespace!Declare
<1>4. CASE ~ node[at].self
  BY <1>1, <1>4 DEF Symbols, Registers, Namespace!Declare
<1> QED  BY <1>3, <1>4

(* The values of a declaration that is no element of itself.               *)
LEMMA ApartValues ==
  ASSUME TypeInv, NEW i \in Decls, NEW syms \in [Names -> {0} \cup Decls],
         Apart(i, prog[i], syms), NEW sizes, NEW now,
         \A j \in Decls : j # i => now[j] = sizes[j]
  PROVE  Values(prog[i], syms, now) = Values(prog[i], syms, sizes)
<1>1. ASSUME NEW k \in DOMAIN prog[i].body, NEW c
      PROVE  ValueIn(prog[i].body[k], c, syms, now) =
               ValueIn(prog[i].body[k], c, syms, sizes)
  <2> DEFINE e == prog[i].body[k]
  <2>1. e.ctor \in {"name", "ptr", "array"} /\ e.name \in Names \cup Builtins
    <3>1. prog[i].body \in Seq(TypeExpr)  BY ProgFacts DEF TypeInv
    <3>2. e \in TypeExpr  BY <3>1
    <3> QED  BY <3>2 DEF TypeExpr
  <2>2. e.ctor # "ptr" /\ e.name \notin Builtins => syms[e.name] # i  BY DEF Apart
  <2> HIDE DEF e
  <2>3. CASE e.ctor = "ptr"  BY <2>3 DEF ValueIn, e
  <2>4. CASE e.ctor # "ptr"
    <3>1. ElemIn(e.name, c, syms, now) = ElemIn(e.name, c, syms, sizes)
      <4>1. CASE e.name \in Builtins  BY <4>1 DEF ElemIn
      <4>2. CASE e.name \notin Builtins /\ syms[e.name] # 0
        <5>1. syms[e.name] \in Decls /\ syms[e.name] # i  BY <2>1, <2>2, <2>4, <4>2
        <5> QED  BY <4>2, <5>1 DEF ElemIn
      <4>3. CASE e.name \notin Builtins /\ syms[e.name] = 0  BY <4>3 DEF ElemIn
      <4> QED  BY <4>1, <4>2, <4>3
    <3> QED  BY <2>4, <3>1 DEF ValueIn, e
  <2> QED  BY <2>3, <2>4
<1> QED  BY <1>1 DEF Values

(* Only the end of a layout changes what is laid out.                      *)
LEMMA LayoutCloses ==
  ASSUME Next, structure' # structure
  PROVE  CloseStruct
BY DEF Next, Redeclare, VisitNamed, VisitKnownStruct, VisitIncompleteStruct,
   OpenStruct, OpenCStruct, PlaceStructField, DieInLayout, VisitUse

BlankInv == \A i \in Decls : Known[i].alignment = 0 => Known[i] = Unsized

(* The fields of a C structure that gets its size were looked up with the  *)
(* names the module has now.                                               *)
LEMMA CFieldsCached ==
  ASSUME TypeInv, CFieldInv, Next, Known[at].alignment = 0,
         (Known')[at] # Known[at], prog[at].kind = "cstruct"
  PROVE  \A k \in DOMAIN prog[at].body :
           CachedC((fieldType')[at][k], prog[at].body[k], symbols')
<1>1. at \in Decls /\ prog' = prog  BY VisitFacts, StepFrame
<1>2. /\ Known[at] = SizeIn(structure[at])
      /\ (Known')[at] = SizeIn((structure')[at])
  BY <1>1, KnownFacts, KnownNext DEF KnownAs, StructKinds
<1>3. CloseStruct  BY <1>2, LayoutCloses
<1>4. Busy /\ fieldType' = fieldType /\ symbols' = symbols
  BY <1>3 DEF CloseStruct, CloseLayout, Busy
<1>5. structure[at].alignment = 0  BY <1>2 DEF SizeIn
<1> QED  BY <1>1, <1>4, <1>5 DEF CFieldInv

(* A step of the walk is a step of the abstract specification, or none.    *)
LEMMA NamespaceStep ==
  ASSUME TypeInv, SizesInv, Kept, SelfInv, CFieldInv, WholeInv, SymbolsInv',
         SettlesInv', BlankInv', Next
  PROVE  [Namespace!Next]_<<prog, symbols, Known>> /\ WholeInv'
<1>1. /\ prog' = prog /\ Decls' = Decls /\ at \in Decls
      /\ symbols' = symbols \/ (symbols' = Symbols /\ Registers /\ Declares(at))
  BY VisitFacts, StepFrame DEF Decls
<1>2. \A i \in Decls : i # at => (Known')[i] = Known[i]
  <2>1. Known[at].alignment # 0 => (Known')[at] = Known[at]  BY <1>1 DEF Kept
  <2>2. \A i \in Decls : i # at => /\ (node')[i] = node[i]
                                   /\ (structure')[i] = structure[i]
    BY StepFrame
  <2> QED  BY <1>1, <2>1, <2>2, OneChanges DEF SizesInv
<1>3. Known' = [Known EXCEPT ![at] = (Known')[at]]
  <2>1. Known = [i \in Decls |-> Known[i]]
    <3>1. Known \in [Decls -> FieldType]  BY KnownFacts
    <3> QED  BY <3>1
  <2>2. Known' = [i \in Decls |-> (Known')[i]]  BY <1>1 DEF Known, Decls
  <2> QED  BY <1>1, <1>2, <2>1, <2>2
<1>4. \A i \in Decls : i # at => (WholeKnown(i)' <=> WholeKnown(i))
  BY <1>1, <1>2 DEF WholeKnown
<1>5. CASE (Known')[at] = Known[at]
  <2>1. Known' = Known
    <3>1. DOMAIN Known = Decls  BY KnownFacts
    <3>2. Known = [Known EXCEPT ![at] = Known[at]]
      <4>1. Known \in [Decls -> FieldType]  BY KnownFacts
      <4> QED  BY <1>1, <4>1
    <3> QED  BY <1>3, <1>5, <3>2
  <2>2. WholeInv'  BY <1>1, <2>1 DEF WholeInv, WholeKnown
  <2>3. CASE symbols' = symbols  BY <1>1, <2>1, <2>2, <2>3
  <2>4. CASE symbols' = Symbols /\ Registers /\ Declares(at)
    <3>1. Namespace!Declare(at)  BY <2>4, AbstractDeclare
    <3>2. Namespace!Next
      BY <1>1, <2>1, <2>4, <3>1 DEF Namespace!Next, Declares, Decls
    <3> QED  BY <2>2, <3>2
  <2> QED  BY <1>1, <2>3, <2>4
<1>6. CASE (Known')[at] # Known[at]
  <2>1. Known[at].alignment = 0 /\ Known[at] = Unsized
    BY <1>1, <1>6, BlankKnown DEF Kept, SizesInv
  <2>2. (Known')[at].alignment # 0  BY <1>1, <1>6, <2>1 DEF BlankInv
  <2>3. PICK i \in Decls : i = at  BY <1>1
  <2>4. WholeSize((Known')[i]) /\ SettledNow(i)'
    <3>1. \A j \in Decls \ {i} : WholeKnown(j)'  BY <1>4, <2>3 DEF WholeInv
    <3> QED  BY <1>1, <2>2, <2>3, <3>1 DEF SettlesInv
  <2>5. /\ prog[at].kind # "use" /\ (symbols')[prog[at].name] = at
        /\ Apart(at, prog[at], symbols')
        /\ SettledAs(prog[at], (Known')[at], symbols', Known')
    <3>1. prog[at].kind = "cstruct" =>
            \A k \in DOMAIN prog[at].body :
              CachedC((fieldType')[at][k], prog[at].body[k], symbols')
      BY <1>6, <2>1, CFieldsCached
    <3> QED  BY <1>1, <2>3, <2>4, <3>1 DEF SettledNow
  <2>6. SettledAs(prog[at], (Known')[at], symbols', Known)
    <3>1. symbols' \in [Names -> {0} \cup Decls]  BY <1>1 DEF SymbolsInv
    <3>2. Values(prog[at], symbols', Known') = Values(prog[at], symbols', Known)
      BY <1>1, <1>2, <2>5, <3>1, ApartValues
    <3> QED  BY <2>5, <3>2 DEF SettledAs
  <2>7. Namespace!Settle(at)
    BY <1>1, <1>3, <2>1, <2>5, <2>6, AbstractSettle
  <2>8. Namespace!Declare(at)
    <3>1. CASE symbols' = symbols
      <4>1. at # 0
        <5>1. Decls = 1 .. Len(prog) /\ Len(prog) \in Nat  BY ProgFacts DEF TypeInv
        <5> QED  BY <1>1, <5>1
      <4> QED  BY <2>5, <3>1, <4>1 DEF Namespace!Declare
    <3>2. CASE symbols' = Symbols /\ Registers /\ Declares(at)
      BY <3>2, AbstractDeclare
    <3> QED  BY <1>1, <3>1, <3>2
  <2>9. Namespace!Next
    BY <1>1, <2>5, <2>7, <2>8 DEF Namespace!Next, Decls
  <2>10. WholeInv'
    BY <1>1, <1>4, <2>3, <2>4 DEF WholeInv, WholeKnown
  <2> QED  BY <2>9, <2>10
<1> QED  BY <1>5, <1>6

LEMMA NamespaceInit ==
  ASSUME Init
  PROVE  WholeInv /\ Namespace!Init
<1>1. TypeInv /\ SizesInv  BY InitTypeInv, InitSizes
<1>2. ASSUME NEW i \in Decls  PROVE Known[i].alignment = 0
  <2>1. Known[i] = KnownAs(prog[i], node[i], structure[i])  BY <1>1, KnownFacts
  <2>2. node[i] = NewNode /\ structure[i] = NoLayout  BY DEF Init, Decls
  <2>3. SizeIn(NewNode).alignment = 0 /\ SizeIn(NoLayout).alignment = 0
    BY DEF SizeIn, NewNode, NoLayout
  <2> QED  BY <2>1, <2>2, <2>3 DEF KnownAs
<1>3. \A i \in Decls : Known[i] = Unsized
  BY <1>1, <1>2, BlankKnown DEF SizesInv
<1>4. Known = [i \in Decls |-> Unsized]
  <2>1. Known \in [Decls -> FieldType]  BY <1>1, KnownFacts
  <2> QED  BY <1>3, <2>1
<1>5. symbols = [n \in Names |-> 0]  BY DEF Init
<1>6. WholeInv  BY <1>2 DEF WholeInv, WholeKnown
<1>7. Namespace!Unknown = Unsized  BY DEF Namespace!Unknown, Unsized
<1>8. Namespace!Init  BY <1>4, <1>5, <1>7 DEF Namespace!Init, Decls
<1> QED  BY <1>6, <1>8

LEMMA CFieldNext ==
  ASSUME TypeInv, TypeInv', SizesInv, CFieldInv, [Next]_vars
  PROVE  CFieldInv'
<1>1. CASE UNCHANGED vars
  BY <1>1 DEF vars, position, CFieldInv, Busy, Decls
<1>2. CASE Next  BY <1>2, CFieldStep
<1> QED  BY <1>1, <1>2

LEMMA NamespaceNext ==
  ASSUME TypeInv, SizesInv, Kept, SelfInv, CFieldInv, WholeInv, SymbolsInv',
         SettlesInv', BlankInv', [Next]_vars
  PROVE  [Namespace!Next]_<<prog, symbols, Known>> /\ WholeInv'
<1>1. CASE UNCHANGED vars
  BY <1>1 DEF vars, position, WholeInv, WholeKnown, Known, IsStruct, SizeOf, Decls
<1>2. CASE Next  BY <1>2, NamespaceStep
<1> QED  BY <1>1, <1>2

(* The walks implement TypeNamespace: a name is declared once, and a       *)
(* declaration gets its size and alignment once, from known sizes of all   *)
(* it contains by value, as the textbook computes them.  The program must  *)
(* make only arrays whose size is a multiple of their alignment: the array *)
(* constructor does not round the size up to the alignment of 16 it gives  *)
(* to more than 8 bytes, and behind such an array the loop, which aligns   *)
(* the end of a field, and the textbook, which aligns its start, differ.   *)
THEOREM NamespaceIsImplemented == Spec /\ []ArraysWhole => ImplementsNamespace
<1> DEFINE Inv == TypeInv /\ SizesInv /\ ErrorsInv /\ CFieldInv
<1>1. Init => Inv /\ WholeInv /\ Namespace!Init
  BY InitTypeInv, InitSizes, InitErrors, CFieldInit, NamespaceInit
<1>2. Inv /\ [Next]_vars => Inv' /\ Kept
  <2> SUFFICES ASSUME Inv, [Next]_vars  PROVE Inv' /\ Kept  OBVIOUS
  <2>1. TypeInv' /\ SizesInv' /\ Kept  BY NextTypeInv, NextSizes DEF StepSizes
  <2>2. ErrorsInv'  BY <2>1, NextErrors
  <2>3. CFieldInv'  BY <2>1, CFieldNext
  <2> QED  BY <2>1, <2>2, <2>3
<1>3. Inv => SymbolsInv /\ BlankInv
  BY BlankKnown DEF TypeInv, SizesInv, BlankInv
<1>4. Inv /\ ArraysWhole => SettlesInv  BY Settles DEF ErrorsInv
<1>5. Inv /\ WholeInv /\ [Next]_vars /\ Kept /\ SymbolsInv' /\ BlankInv' /\ SettlesInv' =>
        [Namespace!Next]_<<prog, symbols, Known>> /\ WholeInv'
  BY NamespaceNext DEF ErrorsInv
<1> HIDE DEF Inv
<1> QED
  BY <1>1, <1>2, <1>3, <1>4, <1>5, PTL DEF Spec, ImplementsNamespace, Namespace!Spec

-----------------------------------------------------------------------------
(* Programs that declare every type before they mention it.  Then every    *)
(* declaration gets its size at its first visit.                           *)

InOrder == Right /\ DefinedBeforeUse

(* What the program mentions by value of the builtin scope has a size:     *)
(* opaque types and void have none, they stand behind pointers.            *)
ValuesSized ==
  \A i \in DOMAIN prog : \A k \in DOMAIN prog[i].body :
    prog[i].body[k].ctor # "ptr" /\ prog[i].body[k].name \in Builtins =>
      BuiltinType[prog[i].body[k].name].alignment # 0

(* A declaration that has no size was not visited yet.                     *)
FreshAt(i) ==
  Known[i].alignment = 0 =>
    /\ node[i].tid = NoType
    /\ (Busy /\ i = at) \/ \A k \in DOMAIN prog[i].body : fieldType[i][k] = NoType

PassedAt(i) ==
  IF Declares(i) THEN Known[i].alignment # 0 ELSE folded[i] # NotFolded

CFoundAt(i) ==
  prog[i].kind = "cstruct" =>
    \A k \in DOMAIN prog[i].body :
      fieldType[i][k] # NoType => CachedAs(fieldType[i][k], prog[i].body[k], symbols)

FoldedAt(i) ==
  folded[i] # NotFolded =>
    /\ ValueIn(prog[i].body[1], FALSE, symbols, Known).alignment # 0
    /\ folded[i] = ValueIn(prog[i].body[1], FALSE, symbols, Known).size

AlignedInv ==
  Busy => /\ lay.status # "crashed"
          /\ \A k \in DOMAIN lay.fields : lay.fields[k].alignment # 0

OrderInv ==
  /\ \A i \in Decls : FreshAt(i)
  /\ \A i \in Decls : Visited(i) => PassedAt(i)
  /\ \A i \in Decls : CFoundAt(i)
  /\ \A i \in Decls : FoldedAt(i)
  /\ AlignedInv

(* The one declaration of a name that stands before its mention.           *)
LEMMA BeforeFacts ==
  ASSUME TypeInv, ErrorsInv, Right, OrderInv, NEW j \in Decls, Visited(j), Declares(j)
  PROVE  /\ symbols[prog[j].name] = j /\ Known[j].alignment # 0
         /\ prog[j].name \notin Builtins /\ DeclOf(prog[j].name) = j
<1> DEFINE n == prog[j].name
           o == symbols[n]
<1>1. /\ n \in Names /\ n \notin Builtins /\ Decls = 1 .. Len(prog) /\ Len(prog) \in Nat
  BY ProgFacts, ConstantsAssumption DEF TypeInv
<1>2. o # 0  BY DEF ErrorsInv, VisitedInv
<1>3. o \in Decls /\ Declares(o) /\ prog[o].name = n
  BY <1>1, <1>2 DEF ErrorsInv, OwnerInv, SelfInv, TypeInv, SymbolsInv
<1>4. ASSUME NEW i \in Decls, Declares(i), prog[i].name = n
      PROVE  i = j
  <2>1. ~ (i < j) /\ ~ (j < i)
    BY <1>1, <1>4 DEF Right, Duplicate, Decls
  <2> QED  BY <1>1, <2>1
<1>5. o = j  BY <1>3, <1>4
<1>6. DeclOf(n) = j
  <2>1. DeclOf(n) = CHOOSE i \in Decls : Declares(i) /\ prog[i].name = n
    BY DEF DeclOf, Decls
  <2>2. \E i \in Decls : Declares(i) /\ prog[i].name = n  OBVIOUS
  <2>3. DeclOf(n) \in Decls /\ Declares(DeclOf(n)) /\ prog[DeclOf(n)].name = n
    BY <2>1, <2>2
  <2> QED  BY <1>4, <2>3
<1>7. Known[j].alignment # 0  BY DEF OrderInv, PassedAt
<1> QED  BY <1>1, <1>5, <1>6, <1>7

(* What a declaration mentions, when all before it were visited.           *)
LEMMA MentionOrder ==
  ASSUME TypeInv, ErrorsInv, InOrder, OrderInv, ValuesSized, NEW i \in Decls,
         \A j \in 1 .. i - 1 : Visited(j), NEW k \in DOMAIN prog[i].body
  PROVE  LET e == prog[i].body[k]
         IN  \/ /\ e.name \in Builtins
                /\ e.ctor # "ptr" => BuiltinType[e.name].alignment # 0
             \/ /\ e.name \in Names \ Builtins /\ symbols[e.name] \in 1 .. i - 1
                /\ symbols[e.name] \in Decls
                /\ Declares(symbols[e.name]) /\ Known[symbols[e.name]].alignment # 0
                /\ DeclOf(e.name) = symbols[e.name]
             \/ e.ctor = "ptr" /\ Declares(i) /\ e.name = prog[i].name
<1> DEFINE e == prog[i].body[k]
<1>1. /\ Decls = 1 .. Len(prog) /\ Len(prog) \in Nat
  BY ProgFacts DEF TypeInv
<1>2. \/ DeclaredBefore(i, e.name)
      \/ e.ctor = "ptr" /\ Declares(i) /\ e.name = prog[i].name
  BY DEF InOrder, DefinedBeforeUse, Decls
<1>3. e.ctor # "ptr" /\ e.name \in Builtins => BuiltinType[e.name].alignment # 0
  BY <1>1 DEF ValuesSized, Decls
<1> HIDE DEF e
<1>4. ASSUME e.name \notin Builtins, DeclaredBefore(i, e.name)
      PROVE  /\ e.name \in Names \ Builtins /\ symbols[e.name] \in 1 .. i - 1
             /\ symbols[e.name] \in Decls
             /\ Declares(symbols[e.name]) /\ Known[symbols[e.name]].alignment # 0
             /\ DeclOf(e.name) = symbols[e.name]
  <2>1. PICK j \in 1 .. i - 1 : Declares(j) /\ prog[j].name = e.name
    BY <1>4 DEF DeclaredBefore
  <2>2. j \in Decls  BY <1>1
  <2>3. /\ symbols[prog[j].name] = j /\ Known[j].alignment # 0
        /\ prog[j].name \notin Builtins /\ DeclOf(prog[j].name) = j
    BY <2>1, <2>2, BeforeFacts DEF InOrder
  <2>4. prog[j].name \in Names  BY <2>2, ProgFacts DEF TypeInv
  <2> QED  BY <2>1, <2>2, <2>3, <2>4
<1> QED  BY <1>2, <1>3, <1>4 DEF e

(* A type made of something that has its size has an alignment.            *)
LEMMA MadeAligned ==
  ASSUME NEW e \in TypeExpr, NEW ref, NEW nodes,
         e.ctor # "ptr" => DefOf(ref, nodes).alignment # 0
  PROVE  /\ MakeType(e, ref, nodes) # NoType
         /\ MakeType(e, ref, nodes).ctor # "struct"
         /\ Measure(MakeType(e, ref, nodes), nodes).alignment # 0
<1>1. e.ctor \in {"name", "ptr", "array"}  BY DEF TypeExpr
<1> DEFINE t == MakeType(e, ref, nodes)
<1>2. /\ t.ctor = e.ctor /\ t.ref = ref /\ t.len = e.len
      /\ t.ctor = "array" => t.snap = DefOf(ref, nodes)
  BY DEF MakeType
<1> HIDE DEF t
<1>3. t # NoType
  <2>1. NoType.ctor = "none"  BY DEF NoType
  <2> QED  BY <1>1, <1>2, <2>1
<1>4. CASE e.ctor = "ptr"
  <2>1. Measure(t, nodes) = [size |-> 8, alignment |-> 8]  BY <1>2, <1>4 DEF Measure
  <2> QED  BY <1>1, <1>2, <1>3, <1>4, <2>1 DEF t
<1>5. CASE e.ctor = "name"
  <2>1. Measure(t, nodes) = DefOf(ref, nodes)  BY <1>2, <1>5 DEF Measure
  <2> QED  BY <1>1, <1>2, <1>3, <1>5, <2>1 DEF t
<1>6. CASE e.ctor = "array"
  <2>1. Measure(t, nodes) = ArrayDef(t.len, t.snap)  BY <1>2, <1>6 DEF Measure
  <2>2. ArrayDef(t.len, t.snap).alignment \in {16, t.snap.alignment}  BY DEF ArrayDef
  <2>3. t.snap.alignment # 0  BY <1>2, <1>6
  <2>4. Measure(t, nodes).alignment # 0  BY <2>1, <2>2, <2>3
  <2>5. t.ctor # "struct"  BY <1>1, <1>2
  <2> QED  BY <1>3, <2>4, <2>5 DEF t
<1> QED  BY <1>1, <1>4, <1>5, <1>6

(* No declaration of a right program is refused.                           *)
LEMMA RegistersInOrder ==
  ASSUME TypeInv, ErrorsInv, Right, Declares(at)
  PROVE  Registers
<1> SUFFICES ASSUME ~ node[at].self, symbols[d.name] # 0  PROVE FALSE
  BY DEF Registers
<1> DEFINE o == symbols[prog[at].name]
<1>1. /\ at \in Decls /\ d = prog[at] /\ prog[at].name \in Names
      /\ Decls = 1 .. Len(prog) /\ Len(prog) \in Nat
  BY VisitFacts, ProgFacts DEF TypeInv
<1>2. o \in Decls /\ o # 0  BY <1>1 DEF TypeInv, SymbolsInv
<1>3. node[o].self /\ prog[o].name = prog[at].name /\ Declares(o)
  BY <1>1, <1>2 DEF ErrorsInv, OwnerInv, SelfInv
<1> HIDE DEF o
<1>4. o # at  BY <1>3
<1>5. ~ (o < at) /\ ~ (at < o)
  BY <1>1, <1>2, <1>3 DEF Right, Duplicate, Decls
<1> QED  BY <1>1, <1>2, <1>4, <1>5

(* The scope in which a visit looks names up.                              *)
Scope(syms) ==
  \/ syms = Symbols /\ Declares(at) /\ Registers
  \/ syms = symbols /\ ~ Declares(at)

LEMMA LooksUp ==
  ASSUME TypeInv, ErrorsInv, InOrder, OrderInv, ValuesSized,
         NEW syms, Scope(syms), NEW k \in DOMAIN d.body
  PROVE  LET e == d.body[k]
         IN  /\ e \in TypeExpr /\ Found(e.name, syms)
             /\ Lookup(e.name, syms) \in Builtins \cup Decls
             /\ e.ctor # "ptr" => /\ Lookup(e.name, syms) # at
                                  /\ DefOf(Lookup(e.name, syms), Known).alignment # 0
<1> DEFINE e == d.body[k]
<1>1. /\ at \in Decls /\ d = prog[at] /\ e \in TypeExpr
      /\ Decls = 1 .. Len(prog) /\ Len(prog) \in Nat
  BY VisitFacts, ProgFacts DEF TypeInv
<1>2. \A j \in 1 .. at - 1 : Visited(j)  BY <1>1 DEF Visited
<1>3. SymsGrow(symbols, syms)  BY SymbolsGrow DEF Scope, SymsGrow
<1>4. \/ /\ e.name \in Builtins
         /\ e.ctor # "ptr" => BuiltinType[e.name].alignment # 0
      \/ /\ e.name \in Names \ Builtins /\ symbols[e.name] \in 1 .. at - 1
         /\ symbols[e.name] \in Decls
         /\ Declares(symbols[e.name]) /\ Known[symbols[e.name]].alignment # 0
         /\ DeclOf(e.name) = symbols[e.name]
      \/ e.ctor = "ptr" /\ Declares(at) /\ e.name = prog[at].name
  BY <1>1, <1>2, MentionOrder
<1> HIDE DEF e
<1>5. at \notin Builtins /\ at # 0  BY <1>1, RefFacts DEF TypeInv
<1>6. ASSUME e.name \in Builtins, e.ctor # "ptr" => BuiltinType[e.name].alignment # 0
      PROVE  /\ Found(e.name, syms)
             /\ Lookup(e.name, syms) \in Builtins \cup Decls
             /\ e.ctor # "ptr" => /\ Lookup(e.name, syms) # at
                                  /\ DefOf(Lookup(e.name, syms), Known).alignment # 0
  <2>1. Found(e.name, syms) /\ Lookup(e.name, syms) = e.name
    BY <1>6 DEF Found, Lookup
  <2>2. DefOf(e.name, Known) = BuiltinType[e.name]  BY <1>6, RefFacts DEF TypeInv
  <2> QED  BY <1>5, <1>6, <2>1, <2>2
<1>7. ASSUME e.name \in Names \ Builtins, symbols[e.name] \in 1 .. at - 1,
             symbols[e.name] \in Decls, Known[symbols[e.name]].alignment # 0
      PROVE  /\ Found(e.name, syms)
             /\ Lookup(e.name, syms) \in Builtins \cup Decls
             /\ Lookup(e.name, syms) # at
             /\ DefOf(Lookup(e.name, syms), Known).alignment # 0
  <2> DEFINE j == symbols[e.name]
  <2>1. j \in Decls /\ j # 0 /\ j # at  BY <1>1, <1>7
  <2>2. syms[e.name] = j  BY <1>3, <1>7, <2>1 DEF SymsGrow
  <2>3. Found(e.name, syms) /\ Lookup(e.name, syms) = j
    BY <1>7, <2>1, <2>2 DEF Found, Lookup
  <2>4. DefOf(j, Known) = Known[j]  BY <2>1, RefFacts, KnownFacts DEF TypeInv
  <2> QED  BY <1>7, <2>1, <2>3, <2>4
<1>8. ASSUME e.ctor = "ptr", Declares(at), e.name = prog[at].name
      PROVE  Found(e.name, syms) /\ Lookup(e.name, syms) \in Builtins \cup Decls
  <2>1. syms = Symbols /\ Registers  BY <1>8 DEF Scope
  <2>2. e.name \in Names /\ e.name \notin Builtins
    BY <1>1, <1>8, ProgFacts, ConstantsAssumption DEF TypeInv
  <2>3. Symbols[e.name] = at
    <3>1. CASE node[at].self
      <4>1. Symbols = symbols  BY <3>1 DEF Symbols
      <4>2. symbols[prog[at].name] = at  BY <1>1, <3>1 DEF ErrorsInv, SelfInv
      <4> QED  BY <1>8, <4>1, <4>2
    <3>2. CASE ~ node[at].self
      BY <1>1, <1>8, <2>2, <3>2 DEF Symbols, TypeInv, SymbolsInv
    <3> QED  BY <3>1, <3>2
  <2> QED  BY <1>1, <1>5, <2>1, <2>2, <2>3 DEF Found, Lookup
<1> QED  BY <1>1, <1>4, <1>6, <1>7, <1>8 DEF e

(* What the visit looks up has an alignment.                               *)
LEMMA LookedUpAligned ==
  ASSUME TypeInv, SizesInv, ErrorsInv, InOrder, OrderInv, ValuesSized, ~ Busy,
         Declares(at), Registers, NEW k \in DOMAIN d.body
  PROVE  LET t == Resolve(d.body[k], Symbols, Nodes)
         IN  /\ t # NoType /\ t.ctor # "struct" /\ CachedAs(t, d.body[k], Symbols)
             /\ Measure(t, Nodes).alignment # 0
             /\ ResolveC(d.body[k], Symbols, Nodes) = t
<1> DEFINE e == d.body[k]
           ref == Lookup(e.name, Symbols)
           t == MakeType(e, ref, Nodes)
<1>1. /\ e \in TypeExpr /\ Found(e.name, Symbols) /\ ref \in Builtins \cup Decls
      /\ e.ctor # "ptr" => ref # at /\ DefOf(ref, Known).alignment # 0
  <2>1. Scope(Symbols)  BY DEF Scope
  <2> HIDE DEF Scope
  <2> QED  BY <2>1, LooksUp
<1>2. Resolve(e, Symbols, Nodes) = t /\ ResolveC(e, Symbols, Nodes) = t
  BY <1>1 DEF Resolve, ResolveC
<1>3. e.ctor # "ptr" => DefOf(ref, Nodes).alignment # 0
  BY <1>1, SeenFacts DEF SizesInv
<1>4. CachedAs(t, e, Symbols)  BY <1>1 DEF CachedAs, MakeType
<1> HIDE DEF e, ref
<1>5. t # NoType /\ t.ctor # "struct" /\ Measure(t, Nodes).alignment # 0
  BY <1>1, <1>3, MadeAligned
<1> QED  BY <1>2, <1>4, <1>5 DEF e

LEMMA ValueKept ==
  ASSUME TypeInv, SizedInv, Kept, SymsGrow(symbols, symbols'), NEW e \in TypeExpr,
         ValueIn(e, FALSE, symbols, Known).alignment # 0
  PROVE  ValueIn(e, FALSE, symbols', Known') = ValueIn(e, FALSE, symbols, Known)
<1>1. /\ e.ctor \in {"name", "ptr", "array"} /\ e.name \in Names \cup Builtins
      /\ e.len \in Nat
  BY DEF TypeExpr
<1>2. CASE e.ctor = "ptr"  BY <1>2 DEF ValueIn
<1>3. CASE e.ctor # "ptr"
  <2> DEFINE el == ElemIn(e.name, FALSE, symbols, Known)
  <2>1. el # Unsized
    <3> HIDE DEF el
    <3> SUFFICES ASSUME el = Unsized  PROVE FALSE  OBVIOUS
    <3>1. el.size = 0 /\ el.alignment = 0  BY DEF Unsized
    <3>2. ArrayDef(e.len, el).alignment = 0
      <4>1. e.len * el.size = 0  BY <1>1, <3>1
      <4> QED  BY <3>1, <4>1 DEF ArrayDef
    <3> QED  BY <1>3, <3>1, <3>2 DEF ValueIn, el
  <2>2. ElemIn(e.name, FALSE, symbols', Known') = el
    <3>1. CASE e.name \in Builtins  BY <3>1 DEF ElemIn
    <3>2. CASE e.name \notin Builtins /\ symbols[e.name] # 0
      <4>1. e.name \in Names /\ symbols[e.name] \in Decls /\ el = Known[symbols[e.name]]
        BY <1>1, <3>2 DEF TypeInv, SymbolsInv, ElemIn
      <4>2. Known[symbols[e.name]].alignment # 0
        BY <2>1, <4>1, BlankKnown
      <4>3. /\ (symbols')[e.name] = symbols[e.name]
            /\ (Known')[symbols[e.name]] = Known[symbols[e.name]]
        BY <3>2, <4>1, <4>2 DEF SymsGrow, Kept
      <4> QED  BY <3>2, <4>1, <4>3 DEF ElemIn
    <3>3. CASE e.name \notin Builtins /\ symbols[e.name] = 0
      BY <2>1, <3>3 DEF ElemIn
    <3> QED  BY <3>1, <3>2, <3>3
  <2> HIDE DEF el
  <2> QED  BY <1>3, <2>2 DEF ValueIn, el
<1> QED  BY <1>2, <1>3

LEMMA FoldedKept ==
  ASSUME TypeInv, SizedInv, Kept, prog' = prog, SymsGrow(symbols, symbols'),
         NEW i \in Decls, FoldedAt(i), (folded')[i] = folded[i]
  PROVE  FoldedAt(i)'
<1>1. prog[i].body[1] \in TypeExpr
  <2>1. 1 \in DOMAIN prog[i].body  BY ProgFacts DEF TypeInv
  <2> QED  BY <2>1, MentionFacts
<1> QED  BY <1>1, ValueKept DEF FoldedAt

LEMMA TableGrows ==
  ASSUME TypeInv, Next
  PROVE  SymsGrow(symbols, symbols')
<1>1. CASE symbols' = symbols  BY <1>1 DEF SymsGrow
<1>2. CASE symbols' = Symbols /\ Registers  BY <1>2, SymbolsGrow
<1> QED  BY <1>1, <1>2, StepFrame

(* What a visit has to show: that the declaration it is about is right.    *)
LEMMA OrderStep ==
  ASSUME TypeInv, SizesInv, ErrorsInv, Kept, OrderInv, Next, NEW j \in Decls, j = at,
         FreshAt(j)', CFoundAt(j)', FoldedAt(j)', AlignedInv',
         \A i \in Decls : i # j => (folded')[i] = folded[i],
         folded[j] # NotFolded => (folded')[j] # NotFolded,
         \/ phase' = phase /\ at' = at
         \/ ~ Busy' /\ (\E un : Leave(un)) /\ PassedAt(j)'
  PROVE  OrderInv'
<1>1. /\ prog' = prog /\ Decls' = Decls
      /\ \A i \in Decls : i # at => /\ (node')[i] = node[i]
                                    /\ (structure')[i] = structure[i]
                                    /\ (fieldType')[i] = fieldType[i]
  BY StepFrame DEF Decls
<1>2. SymsGrow(symbols, symbols')  BY TableGrows
<1>3. \A i \in Decls : i # j => (Known')[i] = Known[i]
  <2>1. Known[j].alignment # 0 => (Known')[j] = Known[j]  BY DEF Kept
  <2> QED  BY <1>1, <2>1, OneChanges DEF SizesInv
<1>4. ASSUME NEW i \in Decls  PROVE FreshAt(i)'
  <2>1. CASE i = j  BY <2>1
  <2>2. CASE i # j
    <3>1. FreshAt(i)  BY DEF OrderInv
    <3>2. Known[i].alignment = 0 =>
            \A k \in DOMAIN prog[i].body : fieldType[i][k] = NoType
      BY <2>2, <3>1 DEF FreshAt
    <3> QED  BY <1>1, <1>3, <2>2, <3>1, <3>2 DEF FreshAt
  <2> QED  BY <2>1, <2>2
<1>5. ASSUME NEW i \in Decls  PROVE CFoundAt(i)'
  <2>1. CASE i = j  BY <2>1
  <2>2. CASE i # j
    <3>1. CFoundAt(i)  BY DEF OrderInv
    <3>2. ASSUME NEW t, NEW k \in DOMAIN prog[i].body,
                 CachedAs(t, prog[i].body[k], symbols)
          PROVE  CachedAs(t, prog[i].body[k], symbols')
      <4>1. prog[i].body[k].name \in Names \cup Builtins  BY MentionFacts
      <4> QED  BY <1>2, <3>2, <4>1 DEF CachedAs, SymsGrow, Found, Lookup
    <3>3. ASSUME prog[i].kind = "cstruct", NEW k \in DOMAIN prog[i].body,
                 (fieldType')[i][k] # NoType
          PROVE  CachedAs((fieldType')[i][k], prog[i].body[k], symbols')
      <4>1. (fieldType')[i][k] = fieldType[i][k]  BY <1>1, <2>2
      <4>2. CachedAs(fieldType[i][k], prog[i].body[k], symbols)
        BY <3>1, <3>3, <4>1 DEF CFoundAt
      <4> QED  BY <3>2, <4>1, <4>2
    <3> QED  BY <1>1, <3>3 DEF CFoundAt
  <2> QED  BY <2>1, <2>2
<1>6. ASSUME NEW i \in Decls  PROVE FoldedAt(i)'
  <2>1. CASE i = j  BY <2>1
  <2>2. CASE i # j
    <3>1. FoldedAt(i)  BY DEF OrderInv
    <3> QED  BY <1>1, <1>2, <2>2, <3>1, FoldedKept DEF SizesInv
  <2> QED  BY <2>1, <2>2
<1>7. ASSUME NEW i \in Decls, Visited(i)'  PROVE PassedAt(i)'
  <2>1. ASSUME PassedAt(i)  PROVE PassedAt(i)'
    <3>1. folded[i] # NotFolded => (folded')[i] # NotFolded  OBVIOUS
    <3>2. Known[i].alignment # 0 => (Known')[i].alignment # 0  BY DEF Kept
    <3> QED  BY <1>1, <2>1, <3>1, <3>2 DEF PassedAt, Declares
  <2>2. CASE phase' = phase /\ at' = at
    <3>1. Visited(i)  BY <1>7, <2>2 DEF Visited
    <3> QED  BY <2>1, <3>1 DEF OrderInv
  <2>3. CASE (\E un : Leave(un)) /\ PassedAt(j)'
    <3>1. PICK un : Leave(un)  BY <2>3
    <3>2. start <= at  BY DEF ErrorsInv, VisitedInv
    <3>3. phase' # "register" \/ i < at'  BY <1>7 DEF Visited
    <3>4. Visited(i) \/ i = at  BY <3>1, <3>2, <3>3, VisitedNext
    <3>5. CASE i = at
      <4>1. i = j  BY <3>5
      <4> QED  BY <2>3, <4>1
    <3> QED  BY <2>1, <3>4, <3>5 DEF OrderInv
  <2> QED  BY <2>2, <2>3
<1> QED  BY <1>1, <1>4, <1>5, <1>6, <1>7 DEF OrderInv

(* A visit that leaves its declaration sized.                              *)
LEMMA SizedVisit ==
  ASSUME TypeInv, SizesInv, ErrorsInv, Kept, OrderInv, Next,
         NEW un, Leave(un), ~ Busy', Declares(at), (Known')[at].alignment # 0,
         folded' = folded, prog[at].kind # "cstruct" \/ fieldType' = fieldType
  PROVE  OrderInv'
<1>1. /\ prog' = prog /\ at \in Decls /\ SymsGrow(symbols, symbols')
  BY VisitFacts, StepFrame, TableGrows
<1>2. PICK j \in Decls : j = at  BY <1>1
<1>3. FreshAt(j)'  BY <1>2 DEF FreshAt
<1>4. CFoundAt(j)'
  <2>1. CASE prog[j].kind # "cstruct"  BY <1>1, <2>1 DEF CFoundAt
  <2>2. CASE fieldType' = fieldType
    <3>1. CFoundAt(j)  BY DEF OrderInv
    <3>2. ASSUME NEW k \in DOMAIN prog[j].body,
                 CachedAs(fieldType[j][k], prog[j].body[k], symbols)
          PROVE  CachedAs(fieldType[j][k], prog[j].body[k], symbols')
      <4>1. prog[j].body[k].name \in Names \cup Builtins  BY MentionFacts
      <4> QED  BY <1>1, <3>2, <4>1 DEF CachedAs, SymsGrow, Found, Lookup
    <3> QED  BY <1>1, <2>2, <3>1, <3>2 DEF CFoundAt
  <2> QED  BY <1>2, <2>1, <2>2
<1>5. FoldedAt(j)'
  <2>1. FoldedAt(j)  BY DEF OrderInv
  <2> QED  BY <1>1, <2>1, FoldedKept DEF SizesInv
<1>6. PassedAt(j)'  BY <1>1, <1>2 DEF PassedAt, Declares
<1>7. AlignedInv'  BY DEF AlignedInv
<1> QED  BY <1>2, <1>3, <1>4, <1>5, <1>6, <1>7, OrderStep

LEMMA RedeclareOrder ==
  ASSUME TypeInv, ErrorsInv, Right, Redeclare
  PROVE  FALSE
<1>1. Declares(at) /\ ~ Registers  BY DEF Redeclare, Visiting, Declares, d
<1> QED  BY <1>1, RegistersInOrder

LEMMA VisitNamedOrder ==
  ASSUME TypeInv, SizesInv, ErrorsInv, Kept, InOrder, ValuesSized, OrderInv, VisitNamed
  PROVE  OrderInv'
<1> DEFINE t == IF node[at].tid # NoType /\ ~Checking THEN node[at].tid
                ELSE Resolve(d.body[1], Symbols, Nodes)
           def == Get(t, Nodes)
           n == IF t = NoType THEN [Nodes[at] EXCEPT !.tid = NoType] ELSE Copied(t, def)
<1>1. /\ at \in Decls /\ d = prog[at] /\ 1 \in DOMAIN d.body /\ d.body[1] \in TypeExpr
      /\ Nodes \in [Decls -> NodeType] /\ Symbols \in [Names -> {0} \cup Decls]
  BY VisitFacts, NodesType, SymbolsType
<1>2. /\ ~ Busy /\ d.kind = "named" /\ Registers /\ prog' = prog /\ folded' = folded
      /\ fieldType' = fieldType /\ lay' = lay /\ Leave(t = NoType)
      /\ node' = [Nodes EXCEPT ![at] = n]
  BY DEF VisitNamed, Visiting
<1>3. Declares(at)  BY <1>1, <1>2 DEF Declares
<1>4. Next  BY DEF Next
<1>5. (Known')[at].alignment # 0
  <2>1. CASE Known[at].alignment # 0  BY <1>1, <2>1 DEF Kept
  <2>2. CASE Known[at].alignment = 0
    <3>1. t = Resolve(d.body[1], Symbols, Nodes)
      BY <1>1, <2>2 DEF OrderInv, FreshAt
    <3>2. t # NoType /\ t.ctor # "struct" /\ Measure(t, Nodes).alignment # 0
      <4>1. LET u == Resolve(d.body[1], Symbols, Nodes)
            IN  u # NoType /\ u.ctor # "struct" /\ Measure(u, Nodes).alignment # 0
        BY <1>1, <1>2, <1>3, LookedUpAligned
      <4> QED  BY <3>1, <4>1
    <3>3. GoodType(t)  BY <1>1, <3>1, ResolveGood DEF TypeInv
    <3> HIDE DEF t
    <3>4. def.alignment # 0  BY <3>2, <3>3, GetMeasure
    <3> HIDE DEF def
    <3>5. (node')[at] = Copied(t, def)  BY <1>1, <1>2, <3>2
    <3>6. (node')[at].alignment = def.alignment  BY <3>5 DEF Copied
    <3>7. (Known')[at] = SizeIn((node')[at])
      BY <1>1, <1>2, KnownNext DEF KnownAs, StructKinds
    <3> QED  BY <3>4, <3>6, <3>7 DEF SizeIn
  <2> QED  BY <1>1, <2>1, <2>2, KnownFacts
<1>6. ~ Busy'  BY <1>2 DEF Busy
<1> HIDE DEF t
<1> QED  BY <1>1, <1>2, <1>3, <1>4, <1>5, <1>6, SizedVisit

LEMMA VisitKnownStructOrder ==
  ASSUME TypeInv, SizesInv, ErrorsInv, Kept, OrderInv, VisitKnownStruct
  PROVE  OrderInv'
<1>1. at \in Decls /\ d = prog[at] /\ SizedInv /\ CopiesInv  BY VisitFacts DEF SizesInv
<1>2. /\ ~ Busy /\ d.kind = "struct" /\ node[at].tid # NoType /\ folded' = folded
      /\ lay' = lay /\ Leave(Checking /\ Missing)
  BY DEF VisitKnownStruct, Visiting
<1>3. Declares(at) /\ prog[at].kind # "cstruct"  BY <1>1, <1>2 DEF Declares
<1>4. Next /\ ~ Busy'  BY <1>2 DEF Next, Busy
<1>5. (Known')[at].alignment # 0
  <2>1. d.kind \in StructKinds  BY <1>2 DEF StructKinds
  <2>2. Known[at].alignment # 0  BY <1>1, <1>2, <2>1, UnlaidFacts
  <2> QED  BY <1>1, <2>2 DEF Kept
<1> QED  BY <1>2, <1>3, <1>4, <1>5, SizedVisit

LEMMA VisitIncompleteStructOrder ==
  ASSUME TypeInv, SizesInv, ErrorsInv, InOrder, ValuesSized, OrderInv,
         VisitIncompleteStruct
  PROVE  FALSE
<1>1. /\ ~ Busy /\ d.kind = "struct" /\ Registers
      /\ \E k \in DOMAIN d.body : FieldTypes[k] = NoType
  BY DEF VisitIncompleteStruct, Visiting, Missing
<1>2. Declares(at)  BY <1>1, VisitFacts DEF Declares
<1>3. PICK k \in DOMAIN d.body : FieldTypes[k] = NoType  BY <1>1
<1>4. Resolve(d.body[k], Symbols, Nodes) = NoType  BY <1>3 DEF FieldTypes
<1> QED  BY <1>1, <1>2, <1>4, LookedUpAligned

(* A layout begins with fields that have an alignment.                     *)
LEMMA OpenedAligned ==
  ASSUME TypeInv, NEW types \in [DOMAIN d.body -> TypeId],
         \A k \in DOMAIN d.body : /\ GoodType(types[k]) /\ types[k].ctor # "struct"
                                  /\ Measure(types[k], Nodes).alignment # 0,
         NEW c, BeginLayout(Sizes(types), c)
  PROVE  AlignedInv' /\ Busy'
<1>1. (lay').fields = Sizes(types) /\ (lay').status = "placing"
  BY DEF BeginLayout, NoLayout
<1>2. \A k \in DOMAIN d.body : Get(types[k], Nodes).alignment # 0
  BY GetMeasure
<1>3. \A k \in DOMAIN Sizes(types) : Sizes(types)[k].alignment # 0
  BY <1>2 DEF Sizes
<1> QED  BY <1>1, <1>3 DEF AlignedInv, Busy

LEMMA OpenStructOrder ==
  ASSUME TypeInv, SizesInv, ErrorsInv, Kept, InOrder, ValuesSized, OrderInv, OpenStruct
  PROVE  OrderInv'
<1>1. /\ at \in Decls /\ d = prog[at] /\ SizedInv /\ CopiesInv
      /\ \A k \in DOMAIN d.body : GoodType(FieldTypes[k])
      /\ FieldTypes \in [DOMAIN d.body -> TypeId]
  BY VisitFacts, FieldTypesGood DEF SizesInv
<1>2. /\ ~ Busy /\ d.kind = "struct" /\ Registers /\ node[at].tid = NoType
      /\ prog' = prog /\ folded' = folded /\ node' = Nodes /\ phase' = phase /\ at' = at
      /\ BeginLayout(Sizes(FieldTypes), FALSE)
  BY DEF OpenStruct, Visiting, position
<1>3. Next /\ Declares(at)  BY <1>1, <1>2 DEF Next, Declares
<1>4. Known[at].alignment = 0  BY <1>1, <1>2, UnlaidFacts DEF StructKinds
<1>5. \A k \in DOMAIN d.body : fieldType[at][k] = NoType
  BY <1>1, <1>2, <1>4 DEF OrderInv, FreshAt
<1>6. \A k \in DOMAIN d.body : /\ FieldTypes[k].ctor # "struct"
                               /\ Measure(FieldTypes[k], Nodes).alignment # 0
  BY <1>2, <1>3, <1>5, LookedUpAligned DEF FieldTypes
<1>7. AlignedInv' /\ Busy'  BY <1>1, <1>2, <1>6, OpenedAligned
<1>8. PICK j \in Decls : j = at  BY <1>1
<1>9. FreshAt(j)'
  <2>1. Nodes[at].tid = NoType  BY <1>1, <1>2, OpenedFacts
  <2> QED  BY <1>2, <1>7, <1>8, <2>1 DEF FreshAt
<1>10. CFoundAt(j)'  BY <1>1, <1>2, <1>8 DEF CFoundAt
<1>11. FoldedAt(j)'
  <2>1. FoldedAt(j)  BY DEF OrderInv
  <2> QED  BY <1>1, <1>2, <1>3, <2>1, FoldedKept, TableGrows
<1> QED  BY <1>2, <1>3, <1>7, <1>8, <1>9, <1>10, <1>11, OrderStep

LEMMA OpenCStructOrder ==
  ASSUME TypeInv, SizesInv, ErrorsInv, Kept, InOrder, ValuesSized, OrderInv, OpenCStruct
  PROVE  OrderInv'
<1>1. /\ at \in Decls /\ d = prog[at] /\ SizedInv /\ CopiesInv
      /\ \A k \in DOMAIN d.body : GoodType(CFieldTypes[k])
      /\ CFieldTypes \in [DOMAIN d.body -> TypeId]
  BY VisitFacts, FieldTypesGood DEF SizesInv
<1>2. /\ ~ Busy /\ d.kind = "cstruct" /\ Registers /\ symbols' = Symbols
      /\ prog' = prog /\ folded' = folded /\ node' = Nodes /\ phase' = phase /\ at' = at
      /\ fieldType' = [fieldType EXCEPT ![at] = CFieldTypes]
      /\ BeginLayout(Sizes(CFieldTypes), TRUE)
  BY DEF OpenCStruct, Visiting, position
<1>3. Next /\ Declares(at)  BY <1>1, <1>2 DEF Next, Declares
<1>4. SymsGrow(symbols, Symbols)  BY <1>2, SymbolsGrow
<1>5. d.kind \in StructKinds  BY <1>2 DEF StructKinds
<1>6. ASSUME NEW k \in DOMAIN d.body
      PROVE  /\ CFieldTypes[k].ctor # "struct"
             /\ Measure(CFieldTypes[k], Nodes).alignment # 0
             /\ CachedAs(CFieldTypes[k], d.body[k], Symbols)
  <2>1. CASE fieldType[at][k] = NoType
    <3>1. CFieldTypes[k] = ResolveC(d.body[k], Symbols, Nodes)
      BY <2>1 DEF CFieldTypes
    <3> QED  BY <1>2, <1>3, <3>1, LookedUpAligned
  <2>2. CASE fieldType[at][k] # NoType
    <3> DEFINE t == fieldType[at][k]
    <3>1. CFieldTypes[k] = t  BY <2>2 DEF CFieldTypes
    <3>2. Known[at].alignment # 0
      BY <1>1, <1>2, <2>2 DEF OrderInv, FreshAt
    <3>3. /\ GoodType(t) /\ Measure(t, Known).alignment # 0 /\ NotItself(t, at)
      BY <1>1, <1>5, <3>2, LaidFacts
    <3>4. t.ctor # "struct"
      BY <1>1, <1>5, <2>2 DEF SizedInv, Sized, GoodFields
    <3>5. CachedAs(t, d.body[k], symbols)
      BY <1>1, <1>2, <2>2 DEF OrderInv, CFoundAt
    <3> HIDE DEF t
    <3>6. Measure(t, Nodes) = Measure(t, Known)  BY <1>1, <1>2, <3>3, SeenMeasure
    <3>7. CachedAs(t, d.body[k], Symbols)
      <4>1. d.body[k].name \in Names \cup Builtins  BY <1>1, MentionFacts
      <4> QED  BY <1>4, <3>5, <4>1 DEF CachedAs, SymsGrow, Found, Lookup
    <3> QED  BY <3>1, <3>3, <3>4, <3>6, <3>7
  <2> QED  BY <2>1, <2>2
<1>7. AlignedInv' /\ Busy'
  BY <1>1, <1>2, <1>6, OpenedAligned
<1>8. PICK j \in Decls : j = at  BY <1>1
<1>9. FreshAt(j)'
  <2>1. Nodes[at].tid = node[at].tid  BY <1>1, <1>2, OpenedFacts
  <2>2. node[at].tid = NoType
    <3>1. Sized(at, d, node[at], fieldType[at], structure[at], Known, symbols)
      BY <1>1 DEF SizedInv
    <3> QED  BY <1>2, <3>1 DEF Sized, GoodStruct
  <2> QED  BY <1>2, <1>7, <1>8, <2>1, <2>2 DEF FreshAt
<1>10. CFoundAt(j)'
  <2>1. (fieldType')[at] = CFieldTypes  BY <1>1, <1>2 DEF TypeInv, FieldInv
  <2> QED  BY <1>1, <1>2, <1>6, <1>8, <2>1 DEF CFoundAt
<1>11. FoldedAt(j)'
  <2>1. FoldedAt(j)  BY DEF OrderInv
  <2> QED  BY <1>1, <1>2, <1>3, <2>1, FoldedKept, TableGrows
<1> QED  BY <1>2, <1>3, <1>7, <1>8, <1>9, <1>10, <1>11, OrderStep

LEMMA PlaceStructFieldOrder ==
  ASSUME TypeInv, SizesInv, ErrorsInv, Kept, OrderInv, PlaceStructField
  PROVE  OrderInv'
<1>1. /\ PlaceField /\ prog' = prog /\ phase' = phase /\ at' = at
      /\ node' = node /\ symbols' = symbols /\ fieldType' = fieldType
      /\ folded' = folded /\ structure' = structure
  BY DEF PlaceStructField, position
<1>2. lay \in LayoutType /\ at \in Decls  BY VisitFacts DEF TypeInv, LayInv
<1>3. (lay').status = lay.status /\ (lay').fields = lay.fields
  BY <1>1, <1>2 DEF PlaceField, LayoutType
<1>4. (Busy' <=> Busy) /\ AlignedInv'
  BY <1>3 DEF OrderInv, AlignedInv, Busy
<1>5. PICK j \in Decls : j = at  BY <1>2
<1>6. Known' = Known  BY <1>1 DEF Known, IsStruct, SizeOf
<1>7. FreshAt(j)' /\ CFoundAt(j)' /\ FoldedAt(j)'
  BY <1>1, <1>4, <1>6 DEF OrderInv, FreshAt, CFoundAt, FoldedAt
<1>8. Next  BY DEF Next
<1> QED  BY <1>1, <1>4, <1>5, <1>7, <1>8, OrderStep

LEMMA DieInLayoutOrder ==
  ASSUME TypeInv, OrderInv, DieInLayout
  PROVE  FALSE
<1>1. DivideByZero /\ lay \in LayoutType  BY DEF DieInLayout, TypeInv, LayInv
<1>2. /\ Placed + 1 \in DOMAIN lay.fields /\ Current.alignment = 0 /\ Busy
  BY <1>1 DEF DivideByZero, Pending, Placed, Busy, LayoutType
<1> QED  BY <1>2 DEF OrderInv, AlignedInv, Current

LEMMA CloseStructOrder ==
  ASSUME TypeInv, TypeInv', SizesInv, ErrorsInv, Kept, OrderInv, CloseStruct
  PROVE  OrderInv'
<1>1. /\ CloseLayout /\ prog' = prog /\ fieldType' = fieldType /\ folded' = folded
      /\ structure' = [structure EXCEPT ![at] = lay'] /\ Leave(FALSE)
  BY DEF CloseStruct
<1>2. Busy /\ Next  BY <1>1 DEF CloseLayout, Busy, Next
<1>3. IsStruct(at) /\ Looped(lay) /\ LayInv /\ LayInv' /\ at \in Decls
  BY <1>2, VisitFacts DEF SizesInv, BusyInv, TypeInv
<1>4. (lay').alignment # 0 /\ (lay').status = "idle"
  BY <1>1, <1>3, ClosedLaid
<1>5. ~ Busy'  BY <1>4 DEF Busy
<1>6. (structure')[at] = lay'  BY <1>1, <1>3 DEF TypeInv, StructureInv
<1>7. (Known')[at] = SizeIn((structure')[at])
  BY <1>1, <1>3, KnownNext DEF KnownAs, StructKinds, IsStruct
<1>8. (Known')[at].alignment # 0  BY <1>4, <1>6, <1>7 DEF SizeIn
<1>9. Declares(at)  BY <1>3 DEF IsStruct, Declares
<1> QED  BY <1>1, <1>2, <1>5, <1>8, <1>9, SizedVisit

(* A literal is folded from a type that has its size.                      *)
LEMMA VisitUseOrder ==
  ASSUME TypeInv, SizesInv, ErrorsInv, Kept, InOrder, ValuesSized, OrderInv, VisitUse
  PROVE  OrderInv'
<1> DEFINE e == d.body[1]
           ref == Lookup(e.name, symbols)
           t == MakeType(e, ref, node)
           value == Get(t, node)
<1>1. /\ at \in Decls /\ d = prog[at] /\ 1 \in DOMAIN d.body /\ e \in TypeExpr
      /\ e = prog[at].body[1]
      /\ folded \in [Decls -> Nat \cup {NotFolded}] /\ CopiesInv
      /\ node \in [Decls -> NodeType]
  BY VisitFacts DEF TypeInv, FoldedInv, NodeInv, SizesInv
<1>2. /\ ~ Busy /\ d.kind = "use" /\ prog' = prog /\ symbols' = symbols
      /\ node' = node /\ fieldType' = fieldType /\ structure' = structure /\ lay' = lay
  BY DEF VisitUse, Visiting
<1>3. Next /\ ~ Declares(at)  BY <1>1, <1>2 DEF Next, Declares
<1>4. /\ Found(e.name, symbols) /\ ref \in Builtins \cup Decls
      /\ e.ctor # "ptr" => DefOf(ref, Known).alignment # 0
  <2>1. Scope(symbols)  BY <1>3 DEF Scope
  <2> HIDE DEF Scope
  <2> QED  BY <1>1, <2>1, LooksUp
<1>5. DefOf(ref, node) = DefOf(ref, Known)
  <2>1. CASE ref \in Builtins  BY <2>1, RefFacts DEF TypeInv
  <2>2. CASE ref \in Decls
    <3>1. SizeIn(node[ref]) = Known[ref] /\ Known[ref] = SizeIn(Known[ref])
      BY <1>1, <1>2, <2>2, KnownFacts DEF CopiesInv
    <3> QED  BY <2>2, <3>1, RefFacts DEF TypeInv
  <2> QED  BY <1>4, <2>1, <2>2
<1>6. Resolve(e, symbols, node) = t  BY <1>4 DEF Resolve
<1>7. GoodType(t)
  <2>1. ProgInv /\ symbols \in [Names -> {0} \cup Decls]  BY DEF TypeInv, SymbolsInv
  <2>2. GoodType(Resolve(e, symbols, node))  BY <1>1, <2>1, ResolveGood
  <2> QED  BY <1>6, <2>2
<1>8. t # NoType /\ t.ctor # "struct" /\ Measure(t, node).alignment # 0
  <2> HIDE DEF e, ref
  <2> QED  BY <1>1, <1>4, <1>5, MadeAligned
<1>9. value = ValueIn(e, FALSE, symbols, Known)
  <2>1. ElemIn(e.name, FALSE, symbols, Known) = DefOf(ref, Known)
    <3>1. CASE e.name \in Builtins
      BY <3>1, RefFacts DEF ElemIn, Lookup, TypeInv
    <3>2. CASE e.name \notin Builtins
      <4>1. e.name \in Names  BY <1>1, <3>2 DEF TypeExpr
      <4>2. symbols[e.name] # 0 /\ ref = symbols[e.name]
        BY <1>4, <3>2 DEF Found, Lookup
      <4>3. ref \in Decls  BY <4>1, <4>2 DEF TypeInv, SymbolsInv
      <4>4. DefOf(ref, Known) = Known[ref]  BY <4>3, RefFacts, KnownFacts DEF TypeInv
      <4> QED  BY <3>2, <4>2, <4>4 DEF ElemIn
    <3> QED  BY <3>1, <3>2
  <2>2. /\ t.ctor = e.ctor /\ t.ref = ref /\ t.len = e.len
        /\ t.ctor = "array" => t.snap = DefOf(ref, node)
    BY DEF MakeType
  <2>3. e.ctor \in {"name", "ptr", "array"}  BY <1>1 DEF TypeExpr
  <2> HIDE DEF e, ref, t
  <2>4. Measure(t, node) = ValueIn(e, FALSE, symbols, Known)
    BY <1>5, <2>1, <2>2, <2>3 DEF Measure, ValueIn
  <2> QED  BY <1>7, <1>8, <2>4, GetMeasure
<1>10. value.alignment # 0  BY <1>7, <1>8, GetMeasure
<1>11. value.size # NotFolded
  <2>1. value \in FieldType  BY <1>1, <1>7, GetType DEF TypeInv
  <2> QED  BY <2>1 DEF FieldType, NotFolded
<1>12. /\ folded' = IF folded[at] = NotFolded THEN [folded EXCEPT ![at] = value.size]
                    ELSE folded
       /\ Leave(folded[at] = NotFolded /\ t = NoType)
  <2>1. LET u == Resolve(e, symbols, node)
        IN  /\ folded' = IF folded[at] = NotFolded /\ u # NoType
                         THEN [folded EXCEPT ![at] = Get(u, node).size] ELSE folded
            /\ Leave(folded[at] = NotFolded /\ u = NoType)
    BY DEF VisitUse
  <2> HIDE DEF t, e
  <2> QED  BY <1>6, <1>8, <2>1
<1> HIDE DEF value, t, ref
<1>13. PICK j \in Decls : j = at  BY <1>1
<1>14. /\ \A i \in Decls : i # j => (folded')[i] = folded[i]
       /\ (folded')[j] = IF folded[j] = NotFolded THEN value.size ELSE folded[j]
  BY <1>1, <1>12, <1>13
<1>15. FreshAt(j)' /\ CFoundAt(j)' /\ AlignedInv'
  <2>1. Known' = Known  BY <1>2 DEF Known, IsStruct, SizeOf
  <2>2. Busy' <=> Busy  BY <1>2 DEF Busy
  <2>3. FreshAt(j) /\ CFoundAt(j) /\ AlignedInv  BY DEF OrderInv
  <2>4. FreshAt(j)'  BY <1>2, <2>1, <2>2, <2>3 DEF FreshAt
  <2>5. CFoundAt(j)'  BY <1>2, <2>3 DEF CFoundAt
  <2>6. AlignedInv'  BY <1>2, <2>2 DEF AlignedInv
  <2> QED  BY <2>4, <2>5, <2>6
<1>16. FoldedAt(j)'
  <2>1. CASE folded[j] = NotFolded
    <3>1. (folded')[j] = value.size  BY <1>14, <2>1
    <3>2. Known' = Known  BY <1>2 DEF Known, IsStruct, SizeOf
    <3>3. ValueIn((prog')[j].body[1], FALSE, symbols', Known') = value
      BY <1>1, <1>2, <1>9, <1>13, <3>2
    <3> QED  BY <1>10, <3>1, <3>3 DEF FoldedAt
  <2>2. CASE folded[j] # NotFolded
    <3>1. FoldedAt(j) /\ (folded')[j] = folded[j]  BY <1>14, <2>2 DEF OrderInv
    <3> QED  BY <1>2, <1>3, <3>1, FoldedKept, TableGrows DEF SizesInv
  <2> QED  BY <2>1, <2>2
<1>17. PassedAt(j)'
  <2>1. (folded')[j] # NotFolded  BY <1>11, <1>14
  <2>2. ~ Declares(j)'  BY <1>1, <1>2, <1>13 DEF Declares
  <2> QED  BY <2>1, <2>2 DEF PassedAt
<1>18. ~ Busy'  BY <1>2 DEF Busy
<1>19. folded[j] # NotFolded => (folded')[j] # NotFolded  BY <1>14
<1> QED
  BY <1>3, <1>12, <1>13, <1>14, <1>15, <1>16, <1>17, <1>18, <1>19, OrderStep

LEMMA OrderInit ==
  ASSUME Init
  PROVE  OrderInv
<1>1. TypeInv  BY InitTypeInv
<1>2. Decls = 1 .. Len(prog) /\ Len(prog) \in Nat  BY <1>1, ProgFacts DEF TypeInv
<1>3. phase = "register" /\ at = 1 /\ ~ Busy  BY DEF Init, Busy, NoLayout
<1>4. \A i \in Decls : /\ node[i] = NewNode /\ folded[i] = NotFolded
                       /\ \A k \in DOMAIN prog[i].body : fieldType[i][k] = NoType
  BY DEF Init, Decls
<1>5. \A i \in Decls : node[i].tid = NoType  BY <1>4 DEF NewNode
<1>6. \A i \in Decls : ~ Visited(i)  BY <1>2, <1>3 DEF Visited
<1> QED
  BY <1>3, <1>4, <1>5, <1>6 DEF OrderInv, FreshAt, CFoundAt, FoldedAt, AlignedInv

LEMMA OrderNext ==
  ASSUME TypeInv, TypeInv', SizesInv, ErrorsInv, Kept, InOrder, ValuesSized, OrderInv,
         [Next]_vars
  PROVE  OrderInv'
<1>1. CASE UNCHANGED vars
  BY <1>1 DEF vars, position, OrderInv, FreshAt, PassedAt, CFoundAt, FoldedAt,
     AlignedInv, Visited, Declares, Decls, Busy, Known, IsStruct, SizeOf
<1>2. CASE Next
  BY <1>2, RedeclareOrder, VisitNamedOrder, VisitKnownStructOrder,
     VisitIncompleteStructOrder, OpenStructOrder, OpenCStructOrder,
     PlaceStructFieldOrder, DieInLayoutOrder, CloseStructOrder, VisitUseOrder
     DEF Next, InOrder
<1> QED  BY <1>1, <1>2

LEMMA OrderAlways ==
  Spec => [](TypeInv /\ ErrorsInv /\ (InOrder /\ ValuesSized => OrderInv))
<1> DEFINE Inv == TypeInv /\ SizesInv /\ ErrorsInv
           Order == InOrder /\ ValuesSized => OrderInv
<1>1. Init => Inv /\ Order
  BY InitTypeInv, InitSizes, InitErrors, OrderInit
<1>2. Inv /\ [Next]_vars => Inv' /\ Kept
  BY NextTypeInv, NextSizes, NextErrors DEF StepSizes
<1>3. Inv /\ Order /\ [Next]_vars /\ Kept /\ Inv' => Order'
  <2> SUFFICES ASSUME Inv, Order, [Next]_vars, Kept, Inv', InOrder', ValuesSized'
               PROVE  OrderInv'
    OBVIOUS
  <2>1. prog' = prog  BY KeptProg
  <2>2. InOrder /\ ValuesSized
    BY <2>1 DEF ValuesSized, InOrder, Right, DefinedBeforeUse, Duplicate, Declares,
       Declared, Mentions, DeclaredBefore
  <2> QED  BY <2>2, OrderNext
<1>4. Inv /\ Order => TypeInv /\ ErrorsInv /\ Order  OBVIOUS
<1> HIDE DEF Inv
<1> QED  BY <1>1, <1>2, <1>3, <1>4, PTL DEF Spec

(* If every type is declared before it is mentioned, one visit is enough,  *)
(* the first one, of the register pass: after it a declaration has its     *)
(* size and a sizeof its literal.  No layout divides by zero and nothing   *)
(* is ever reported.                                                       *)
THEOREM SizedAtOnce ==
  Spec => [](InOrder /\ ValuesSized =>
               /\ ~ Crashed /\ errors = {}
               /\ \A i \in Decls : Visited(i) =>
                    IF Declares(i) THEN Known[i].alignment # 0
                    ELSE folded[i] # NotFolded)
<1>1. ASSUME TypeInv, ErrorsInv, InOrder, OrderInv
      PROVE  /\ ~ Crashed /\ errors = {}
             /\ \A i \in Decls : Visited(i) =>
                  IF Declares(i) THEN Known[i].alignment # 0
                  ELSE folded[i] # NotFolded
  <2>1. ~ Crashed  BY <1>1 DEF OrderInv, AlignedInv, Crashed, Busy
  <2>2. \A i \in Decls : ~ Wrong(i)  BY <1>1 DEF InOrder, Right, Wrong, Decls
  <2>3. phase \in {"register", "resolve", "checks", "done"}
    BY <1>1 DEF TypeInv, PositionInv
  <2>4. errors = {}  BY <1>1, <2>2, <2>3 DEF ErrorsInv, ReportInv
  <2> QED  BY <1>1, <2>1, <2>4 DEF OrderInv, PassedAt
<1> QED  BY <1>1, OrderAlways, PTL

(* The rounds of Meaning, one by one.                                      *)
MeasureOf(e, sizes) ==
  LET elem == IF e.name \in Builtins THEN BuiltinType[e.name]
              ELSE sizes[DeclOf(e.name)]
  IN  CASE e.ctor = "ptr"  -> [size |-> 8, alignment |-> 8]
        [] e.ctor = "name" -> elem
        [] OTHER           -> ArrayDef(e.len, elem)

SettleOf(i, sizes) ==
  LET fields == [k \in DOMAIN prog[i].body |-> MeasureOf(prog[i].body[k], sizes)]
  IN  IF \E k \in DOMAIN fields : fields[k].alignment = 0 THEN Unsized
      ELSE IF IsStruct(i) THEN Namespace!Textbook(fields, prog[i].kind = "cstruct")
      ELSE fields[1]

RoundRule(f, n) ==
  [i \in DOMAIN prog |-> IF n = 0 THEN Unsized ELSE SettleOf(i, f[n - 1])]

LEMMA RoundsExist ==
  ASSUME NEW N \in Nat
  PROVE  \E f : f = [n \in 0 .. N |-> RoundRule(f, n)]
<1> DEFINE Is(f, m) == f = [n \in 0 .. m |-> RoundRule(f, n)]
           Bad == {m \in 0 .. N : ~ \E f : Is(f, m)}
<1>1. SUFFICES ASSUME Bad # {}  PROVE FALSE
  <2>1. N \in 0 .. N  OBVIOUS
  <2> QED  BY <2>1
<1>2. PICK m \in Bad : \A y \in Bad : ~ (y < m)
  <2>1. Bad \subseteq Nat  OBVIOUS
  <2> HIDE DEF Bad
  <2> QED  BY <1>1, <2>1, LeastFacts
<1>3. m \in 0 .. N /\ ~ \E f : Is(f, m)  OBVIOUS
<1>4. m # 0
  <2> DEFINE blank == [i \in DOMAIN prog |-> Unsized]
             f == [n \in 0 .. 0 |-> blank]
  <2>1. \A n \in 0 .. 0 : RoundRule(f, n) = blank  BY DEF RoundRule
  <2> HIDE DEF blank
  <2>2. Is(f, 0)  BY <2>1
  <2> HIDE DEF f, Is
  <2> QED  BY <1>3, <2>2
<1>5. PICK g : Is(g, m - 1)
  <2>1. m - 1 \in 0 .. N /\ m - 1 < m  BY <1>3, <1>4
  <2>2. m - 1 \notin Bad  BY <1>2, <2>1
  <2> QED  BY <2>1, <2>2
<1> DEFINE h == [n \in 0 .. m |-> IF n = m THEN RoundRule(g, m) ELSE g[n]]
<1>6. ASSUME NEW n \in 0 .. m  PROVE h[n] = RoundRule(h, n)
  <2>1. n # m => n \in 0 .. m - 1  BY <1>3
  <2>2. n # m => g[n] = RoundRule(g, n)  BY <1>5, <2>1
  <2>3. h[n] = RoundRule(g, n)  BY <2>2
  <2>4. n # 0 => n - 1 \in 0 .. m /\ n - 1 # m  BY <1>3
  <2>5. n # 0 => h[n - 1] = g[n - 1]  BY <2>4
  <2> HIDE DEF h
  <2> QED  BY <2>3, <2>5 DEF RoundRule
<1>7. Is(h, m)
  <2>1. h = [n \in 0 .. m |-> h[n]]  OBVIOUS
  <2> HIDE DEF h
  <2> QED  BY <1>6, <2>1
<1> HIDE DEF h, Is
<1> QED  BY <1>3, <1>7

LEMMA RoundsFacts ==
  ASSUME TypeInv
  PROVE  \E f : /\ \A n \in 0 .. Len(prog) : f[n] = RoundRule(f, n)
                /\ Meaning = f[Len(prog)]
<1> DEFINE Is(f) == f = [n \in 0 .. Len(prog) |-> RoundRule(f, n)]
           all == CHOOSE f : Is(f)
<1>1. Len(prog) \in Nat  BY ProgFacts DEF TypeInv
<1>2. Meaning = all[Len(prog)]
  BY DEF Meaning, RoundRule, SettleOf, MeasureOf
<1>3. Is(all)
  <2>1. \E f : Is(f)  BY <1>1, RoundsExist
  <2> HIDE DEF Is
  <2> QED  BY <2>1, Zenon
<1>4. \A n \in 0 .. Len(prog) : all[n] = RoundRule(all, n)
  <2> HIDE DEF all
  <2> QED  BY <1>3
<1> HIDE DEF all
<1> QED  BY <1>2, <1>4

(* What the rounds end with: a declaration has the size the compiler has   *)
(* for it, a use that of its expression.                                   *)
FinalSize(i) ==
  IF Declares(i) THEN Known[i]
  ELSE ValueIn(prog[i].body[1], FALSE, symbols, Known)

LEMMA SettlesFinal ==
  ASSUME TypeInv, SizesInv, ErrorsInv, WholeInv, SettlesInv, InOrder, ValuesSized,
         OrderInv, Done, NEW i \in Decls, NEW sizes,
         \A j \in 1 .. i - 1 : sizes[j] = FinalSize(j)
  PROVE  SettleOf(i, sizes) = FinalSize(i)
<1> DEFINE p == prog[i]
           values == Values(p, symbols, Known)
           fields == [k \in DOMAIN p.body |-> MeasureOf(p.body[k], sizes)]
<1>1. \A j \in Decls : Visited(j) /\ PassedAt(j)
  BY DEF Visited, Done, OrderInv
<1>2. Decls = 1 .. Len(prog) /\ Len(prog) \in Nat /\ 1 \in DOMAIN p.body
  BY ProgFacts DEF TypeInv
<1>3. ASSUME NEW k \in DOMAIN p.body
      PROVE  MeasureOf(p.body[k], sizes) = ValueIn(p.body[k], p.kind = "cstruct", symbols, Known)
  <2> DEFINE e == p.body[k]
             c == p.kind = "cstruct"
  <2>1. e.ctor \in {"name", "ptr", "array"}
    <3>1. e \in TypeExpr  BY MentionFacts
    <3> QED  BY <3>1 DEF TypeExpr
  <2>2. \/ e.name \in Builtins
        \/ /\ e.name \in Names \ Builtins /\ symbols[e.name] \in 1 .. i - 1
           /\ symbols[e.name] \in Decls
           /\ Declares(symbols[e.name]) /\ DeclOf(e.name) = symbols[e.name]
        \/ e.ctor = "ptr"
    <3>1. \A j \in 1 .. i - 1 : Visited(j)  BY <1>1, <1>2
    <3> QED  BY <3>1, MentionOrder
  <2> HIDE DEF e, c
  <2>3. CASE e.ctor = "ptr"  BY <2>3 DEF MeasureOf, ValueIn, e
  <2>4. CASE e.ctor # "ptr"
    <3>1. (IF e.name \in Builtins THEN BuiltinType[e.name] ELSE sizes[DeclOf(e.name)])
            = ElemIn(e.name, c, symbols, Known)
      <4>1. CASE e.name \in Builtins  BY <4>1 DEF ElemIn
      <4>2. CASE e.name \notin Builtins
        <5>1. /\ symbols[e.name] \in 1 .. i - 1 /\ symbols[e.name] # 0
              /\ Declares(symbols[e.name]) /\ DeclOf(e.name) = symbols[e.name]
          BY <1>2, <2>2, <2>4, <4>2
        <5>2. sizes[DeclOf(e.name)] = Known[symbols[e.name]]  BY <5>1 DEF FinalSize
        <5> QED  BY <4>2, <5>1, <5>2 DEF ElemIn
      <4> QED  BY <4>1, <4>2
    <3>2. CASE e.ctor = "name"  BY <3>1, <3>2 DEF MeasureOf, ValueIn, e, c
    <3>3. CASE e.ctor = "array"  BY <3>1, <3>3 DEF MeasureOf, ValueIn, e, c
    <3> QED  BY <2>1, <2>4, <3>2, <3>3
  <2> QED  BY <2>3, <2>4 DEF e, c
<1>4. fields = values  BY <1>3 DEF Values
<1>5. SettleOf(i, sizes) =
        IF \E k \in DOMAIN values : values[k].alignment = 0 THEN Unsized
        ELSE IF IsStruct(i) THEN Namespace!Textbook(values, p.kind = "cstruct")
        ELSE values[1]
  BY <1>4 DEF SettleOf
<1>6. DOMAIN values = DOMAIN p.body  BY DEF Values
<1>7. CASE Declares(i)
  <2>1. Known[i].alignment # 0  BY <1>1, <1>7 DEF PassedAt
  <2>2. SettledNow(i)  BY <2>1 DEF SettlesInv, WholeInv
  <2>3. p.kind # "use" /\ symbols[p.name] = i
    BY <2>1, SizedIsDeclared DEF ErrorsInv
  <2>4. ASSUME p.kind = "cstruct", NEW k \in DOMAIN p.body
        PROVE  CachedC(fieldType[i][k], p.body[k], symbols)
    <3>1. fieldType[i][k] # NoType
      BY <2>1, <2>4, LaidFacts DEF SizesInv, StructKinds
    <3>2. CachedAs(fieldType[i][k], p.body[k], symbols)
      BY <2>4, <3>1 DEF OrderInv, CFoundAt
    <3> QED  BY <3>2, CachedBoth
  <2>5. SettledAs(p, Known[i], symbols, Known)  BY <2>2, <2>3, <2>4 DEF SettledNow
  <2>6. IsStruct(i) <=> p.kind # "named"
    <3>1. p.kind \in {"struct", "named", "cstruct", "use"}  BY ProgFacts DEF TypeInv
    <3> QED  BY <2>3, <3>1 DEF IsStruct
  <2>7. /\ \A k \in DOMAIN p.body : values[k].alignment # 0
        /\ Known[i] = IF p.kind = "named" THEN values[1]
                      ELSE Namespace!Textbook(values, p.kind = "cstruct")
    BY <2>5 DEF SettledAs
  <2>8. FinalSize(i) = Known[i]  BY <1>7 DEF FinalSize
  <2> HIDE DEF values
  <2> QED  BY <1>5, <1>6, <2>6, <2>7, <2>8
<1>8. CASE ~ Declares(i)
  <2>1. p.kind = "use" /\ ~ IsStruct(i)  BY <1>8 DEF Declares, IsStruct
  <2>2. values[1] = FinalSize(i)  BY <1>2, <1>8, <2>1 DEF Values, FinalSize
  <2>3. values[1].alignment # 0
    <3>1. folded[i] # NotFolded  BY <1>1, <1>8 DEF PassedAt
    <3>2. ValueIn(p.body[1], FALSE, symbols, Known).alignment # 0
      BY <3>1 DEF OrderInv, FoldedAt
    <3> QED  BY <1>8, <2>2, <3>2 DEF FinalSize
  <2>4. DOMAIN p.body = {1}
    <3>1. p.body \in Seq(TypeExpr)  BY ProgFacts DEF TypeInv
    <3>2. Len(p.body) = 1  BY <2>1, ConstantsAssumption DEF TypeInv, ProgInv, Decls
    <3> QED  BY <3>1, <3>2
  <2> HIDE DEF values
  <2> QED  BY <1>5, <1>6, <2>1, <2>2, <2>3, <2>4
<1> QED  BY <1>7, <1>8

(* After n rounds the first n declarations have their size.                *)
LEMMA MeansFinal ==
  ASSUME TypeInv, SizesInv, ErrorsInv, WholeInv, SettlesInv, InOrder, ValuesSized,
         OrderInv, Done, NEW i \in Decls
  PROVE  Meaning[i] = FinalSize(i)
<1> DEFINE N == Len(prog)
<1>1. N \in Nat /\ Decls = 1 .. N /\ Decls = DOMAIN prog
  BY ProgFacts DEF TypeInv, Decls
<1>2. PICK f : (\A n \in 0 .. N : f[n] = RoundRule(f, n)) /\ Meaning = f[N]
  BY RoundsFacts
<1> HIDE DEF N
<1> DEFINE Bad == {n \in 0 .. N : ~ \A j \in 1 .. n : f[n][j] = FinalSize(j)}
<1>3. Bad = {}
  <2> SUFFICES ASSUME Bad # {}  PROVE FALSE  OBVIOUS
  <2>1. PICK m \in Bad : \A y \in Bad : ~ (y < m)
    <3>1. Bad \subseteq Nat  BY <1>1
    <3> HIDE DEF Bad
    <3> QED  BY <3>1, LeastFacts
  <2>2. m \in 0 .. N  OBVIOUS
  <2>3. PICK j \in 1 .. m : f[m][j] # FinalSize(j)  BY <2>1
  <2>4. m # 0 /\ j \in Decls  BY <1>1, <2>2, <2>3
  <2>5. f[m] = RoundRule(f, m)  BY <1>2, <2>2
  <2>6. f[m][j] = SettleOf(j, f[m - 1])  BY <1>1, <2>4, <2>5 DEF RoundRule
  <2>7. m - 1 \in 0 .. N /\ m - 1 < m  BY <1>1, <2>2, <2>4
  <2>8. m - 1 \notin Bad  BY <2>1, <2>7
  <2>9. \A y \in 1 .. m - 1 : f[m - 1][y] = FinalSize(y)  BY <2>7, <2>8
  <2>10. \A y \in 1 .. j - 1 : f[m - 1][y] = FinalSize(y)
    BY <1>1, <2>2, <2>3, <2>9
  <2>11. SettleOf(j, f[m - 1]) = FinalSize(j)  BY <2>4, <2>10, SettlesFinal
  <2> QED  BY <2>3, <2>6, <2>11
<1>4. N \in 0 .. N /\ N \notin Bad  BY <1>1, <1>3
<1> QED  BY <1>1, <1>2, <1>4

LEMMA CompiledInOrder ==
  ASSUME TypeInv, SizesInv, ErrorsInv, WholeInv, SettlesInv, InOrder, ValuesSized,
         OrderInv, Done
  PROVE  Compiled
<1>1. ~ Busy /\ errors = {i \in Decls : Wrong(i)}
  BY DEF ErrorsInv, ReportInv, Done
<1>2. \A i \in Decls : ~ Wrong(i)  BY DEF InOrder, Right, Wrong, Decls
<1>3. errors = {}  BY <1>1, <1>2
<1>4. ASSUME NEW i \in Decls
      PROVE  IF Declares(i) THEN SizeOf(i) = Meaning[i] ELSE folded[i] = Meaning[i].size
  <2>1. Meaning[i] = FinalSize(i)  BY MeansFinal
  <2>2. CASE Declares(i)
    <3>1. SizeIn(node[i]) = Known[i]  BY <1>1 DEF SizesInv, CopiesInv
    <3> QED  BY <2>1, <2>2, <3>1 DEF FinalSize, SizeOf, SizeIn
  <2>3. CASE ~ Declares(i)
    <3>1. PassedAt(i) /\ FoldedAt(i)  BY DEF OrderInv, Visited, Done
    <3> QED  BY <2>1, <2>3, <3>1 DEF FinalSize, PassedAt, FoldedAt
  <2> QED  BY <2>2, <2>3
<1> QED  BY <1>3, <1>4 DEF Compiled, Decls

LEMMA WholeAlways ==
  Spec /\ []ArraysWhole => [](TypeInv /\ SizesInv /\ ErrorsInv /\ WholeInv /\ SettlesInv)
<1> DEFINE Inv == TypeInv /\ SizesInv /\ ErrorsInv /\ CFieldInv
<1>1. Init => Inv /\ WholeInv
  BY InitTypeInv, InitSizes, InitErrors, CFieldInit, NamespaceInit
<1>2. Inv /\ [Next]_vars => Inv' /\ Kept
  <2> SUFFICES ASSUME Inv, [Next]_vars  PROVE Inv' /\ Kept  OBVIOUS
  <2>1. TypeInv' /\ SizesInv' /\ Kept  BY NextTypeInv, NextSizes DEF StepSizes
  <2> QED  BY <2>1, NextErrors, CFieldNext
<1>3. Inv => SymbolsInv /\ BlankInv
  BY BlankKnown DEF TypeInv, SizesInv, BlankInv
<1>4. Inv /\ ArraysWhole => SettlesInv  BY Settles DEF ErrorsInv
<1>5. Inv /\ WholeInv /\ [Next]_vars /\ Kept /\ SymbolsInv' /\ BlankInv' /\ SettlesInv'
        => WholeInv'
  BY NamespaceNext DEF ErrorsInv
<1>6. Inv => TypeInv /\ SizesInv /\ ErrorsInv  OBVIOUS
<1> HIDE DEF Inv
<1> QED  BY <1>1, <1>2, <1>3, <1>4, <1>5, <1>6, PTL DEF Spec

(* A program that declares every type before it mentions it is compiled:   *)
(* no layout divides by zero, no error is reported, and every size and     *)
(* every literal a sizeof was replaced by is the one the program means.    *)
(* What it mentions by value of the builtin scope must have a size, and    *)
(* its arrays must be whole numbers of their alignments: the meaning is    *)
(* the textbook's, as in NamespaceIsImplemented.                           *)
THEOREM CompilesInOrder ==
  Spec /\ []ArraysWhole => [](ValuesSized => DefineBeforeUse)
<1>1. ASSUME TypeInv, SizesInv, ErrorsInv, WholeInv, SettlesInv,
             InOrder /\ ValuesSized => OrderInv
      PROVE  ValuesSized => DefineBeforeUse
  <2> SUFFICES ASSUME InOrder, ValuesSized
               PROVE  ~ Crashed /\ (Done => Compiled)
    BY DEF DefineBeforeUse, InOrder
  <2>1. ~ Crashed  BY <1>1 DEF OrderInv, AlignedInv, Crashed, Busy
  <2>2. Done => Compiled  BY <1>1, CompiledInOrder
  <2> QED  BY <2>1, <2>2
<1> QED  BY <1>1, OrderAlways, WholeAlways, PTL
=============================================================================
