---------------------------- MODULE Conversions ----------------------------
(***************************************************************************)
(* When a value of one type may stand where another type is wanted:        *)
(* assignable as it is, convertible with or without a cast, or a literal   *)
(* that may simply take the other type.                                    *)
(*                                                                         *)
(* A type is a name with a definition.  Pointers, slices and pure types    *)
(* name their element type, tuples and structures the types of their       *)
(* fields, an alias the type it renames (whose definition it copies).      *)
(***************************************************************************)
EXTENDS Integers, Sequences

CONSTANTS Types,        \* the types of the program
          TypeDef,      \* their definitions
          NoType,       \* invalid_type
          OpaquePtrs    \* &opaque and &pure opaque, to which any pointer goes

(* The fields of type_def that the conversions read.                       *)
Definitions ==
  [kind : {"integral", "real", "enumflags", "ptr", "slice", "func_pointer", "nil", "void",
           "tuple", "structure", "c_structure", "static_array"},
   size : Nat, max : Nat, pure : BOOLEAN,
   elem : Types \cup {NoType}, alias : Types \cup {NoType}, fields : Seq(Types)]

ASSUME TypesAssumption ==
  /\ NoType \notin Types
  /\ TypeDef \in [Types -> Definitions]
  /\ OpaquePtrs \subseteq Types
  /\ "bool" \in Types /\ "void" \in Types /\ "int" \in Types /\ "noflags" \in Types

Kind(t) == TypeDef[t].kind

(* get_alias_root; the aliases of the language name types that are none.   *)
AliasRoot(t) == IF TypeDef[t].alias # NoType THEN TypeDef[t].alias ELSE t

(* get_ptr_type_to                                                         *)
IsPtrTo(p, t) ==
  Kind(p) = "ptr" /\ TypeDef[p].elem = t /\ ~ TypeDef[p].pure /\ TypeDef[p].alias = NoType

PtrTo(t) == CHOOSE p \in Types : IsPtrTo(p, t)

Aggregates == {"structure", "c_structure", "tuple", "static_array", "slice"}

(* is_assignable_to: a goes to b as it is, when the elements and fields    *)
(* that have to are pairs known to.                                        *)
Goes(a, b, pairs) ==
  LET src == TypeDef[a]
      target == TypeDef[b]
      elements == <<src.elem, target.elem>> \in pairs
  IN \/ a = b
     \/ src.alias = b \/ target.alias = a
     \/ src.kind = "nil" /\ target.kind \in Aggregates \cup {"ptr"}
     \/ src.kind = "ptr" /\ target.kind = "nil"
     \/ src.kind = "ptr" /\ target.kind = "ptr" /\ (AliasRoot(b) \in OpaquePtrs \/ elements)
     \/ src.kind = "slice" /\ target.kind = "slice" /\ elements
     \/ src.kind = "func_pointer" /\ target.kind = "func_pointer"
     \/ /\ src.kind = "tuple" /\ target.kind \in {"tuple", "structure"}
        /\ Len(src.fields) = Len(target.fields)
        /\ \A i \in DOMAIN src.fields : <<src.fields[i], target.fields[i]>> \in pairs
     \/ /\ target.pure /\ target.elem = a
        /\ ~ (src.kind = target.kind /\ src.kind \in {"ptr", "slice", "tuple"})

AssignableBy(pairs) == {p \in Types \X Types : Goes(p[1], p[2], pairs)}

(* A type is built from types made before it, so the recursion ends:       *)
(* rounds for types nested three deep.                                     *)
Assignments == AssignableBy(AssignableBy(AssignableBy(AssignableBy({}))))

Assignable(a, b) == <<a, b>> \in Assignments

(* The rest of is_convertible_to: by size, between roots of aliases.       *)
ConvertsBySize(a, b) ==
  LET ta == TypeDef[AliasRoot(a)]
      tb == TypeDef[AliasRoot(b)]
  IN \/ ta.kind = "enumflags" /\ AliasRoot(b) = "bool"
     \/ /\ a # "bool" /\ b # "bool"
        /\ \/ ta.kind = "integral" /\ tb.kind = "integral" /\ tb.size >= ta.size
           \/ ta.kind = "integral" /\ tb.kind = "ptr" /\ tb.size = ta.size
           \/ AliasRoot(a) = "noflags" /\ tb.kind = "enumflags" /\ tb.size >= ta.size

(* is_convertible_to(a, b).first                                           *)
ImplicitConversions == {p \in Types \X Types : Assignable(p[1], p[2]) \/ ConvertsBySize(p[1], p[2])}

Convertible(a, b) == <<a, b>> \in ImplicitConversions

(* is_convertible_to(a, b).second, of convertible types                    *)
NeedsCast(a, b) ==
  /\ ~ Assignable(a, b)
  /\ ~ (Kind(AliasRoot(a)) = "integral" /\ Kind(AliasRoot(b)) = "ptr")

(* try_coerce_to: the literal v of type t takes the type to.               *)
Coercible(v, t, to) ==
  /\ Kind(t) = "integral"
  /\ \/ Kind(to) = "integral" /\ (TypeDef[to].size < TypeDef[t].size => v < TypeDef[to].max)
     \/ Kind(to) = "ptr"
=============================================================================
