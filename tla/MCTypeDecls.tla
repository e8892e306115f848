----------------------------- MODULE MCTypeDecls -----------------------------
(***************************************************************************)
(* Every program of three declarations of A, B and C (or of A, B and A     *)
(* again, which leaves C undeclared), in one file or with the last one in  *)
(* a second file; any declaration may be a use of sizeof instead.          *)
(***************************************************************************)
EXTENDS TypeDeclsSpec

CONSTANTS A, B, C, uint8, int32

MCNames == {A, B, C}
MCBuiltins == {uint8, int32}
MCBuiltinType == [ b \in MCBuiltins |-> IF b = uint8 THEN [size |-> 1, alignment |-> 1]
                                        ELSE [size |-> 4, alignment |-> 4] ]

Expr(ctor, n) == [ctor |-> ctor, name |-> n, len |-> IF ctor = "array" THEN 2 ELSE 0]

Of(n) == Expr("name", n)

(* What a declaration can be, but for its name and unit.                   *)
Shapes ==
     { [kind |-> "struct", body |-> <<Of(uint8), Of(int32)>>] }
\cup { [kind |-> "struct", body |-> <<Of(uint8), Of(n)>>] : n \in MCNames }
\cup { [kind |-> "struct", body |-> <<Expr("array", n)>>] : n \in {A, B} }
\cup { [kind |-> "struct", body |-> <<Expr("ptr", n)>>] : n \in MCNames }
\cup { [kind |-> "named", body |-> <<e>>] :
         e \in {Of(A), Of(B), Of(C), Expr("array", B)} }
\cup { [kind |-> "cstruct", body |-> <<Of(int32), Of(n)>>] : n \in {A, C} }
\cup { [kind |-> "use", body |-> <<Of(n)>>] : n \in {A, C} }

Place(s, name, unit) == [kind |-> s.kind, name |-> name, unit |-> unit, body |-> s.body]

MCPrograms ==
  { <<Place(s[1], A, 1), Place(s[2], B, 1), Place(s[3], third, unit)>> :
      s \in [1 .. 3 -> Shapes], third \in {A, C}, unit \in {1, 2} }
=============================================================================
