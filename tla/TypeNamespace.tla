---------------------------- MODULE TypeNamespace ----------------------------
(***************************************************************************)
(* What the resolution of type declarations promises, whatever the order   *)
(* of its visits: a name is declared once, by one declaration, and the     *)
(* size and alignment of a declaration become known once, after those of   *)
(* every type it contains by value, and are the ones the textbook layout   *)
(* gives it.  Nothing is promised about WHEN, nor that it happens.         *)
(***************************************************************************)
EXTENDS Integers, Sequences

CONSTANTS Builtins, BuiltinType, CInt, Names

VARIABLES decls,    \* the program: a sequence of declarations
          owner,    \* name |-> the declaration it names, 0 if none
          known     \* declaration |-> its size and alignment, or Unknown

Unknown == [size |-> 0, alignment |-> 0]

Up(n, a) == ((n + a - 1) \div a) * a

Largest(S) == CHOOSE x \in S : \A y \in S : y <= x

(* End of the k-th field when every field is put at the first multiple of  *)
(* its alignment after the field before it.                                *)
EndOf(fields) ==
  LET end[k \in 0 .. Len(fields)] ==
        IF k = 0 THEN 0
        ELSE Up(end[k - 1], fields[k].alignment) + fields[k].size
  IN  end[Len(fields)]

(* Size and alignment of a structure; only C structures larger than 8      *)
(* bytes keep the alignment of their fields.                               *)
Textbook(fields, c) ==
  LET widest == Largest({1} \cup {fields[k].alignment : k \in DOMAIN fields})
      size   == Up(EndOf(fields), widest)
  IN  IF c \/ size <= 8 THEN [size |-> size, alignment |-> widest]
      ELSE [size |-> Up(size, 16), alignment |-> 16]

-----------------------------------------------------------------------------
Elem(name, c) ==
  CASE name \in Builtins               -> BuiltinType[name]
    [] name \in Names /\ owner'[name] # 0 -> known[owner'[name]]
    [] OTHER                           -> IF c THEN BuiltinType[CInt] ELSE Unknown

Value(e, c) ==
  CASE e.ctor = "ptr"  -> [size |-> 8, alignment |-> 8]
    [] e.ctor = "name" -> Elem(e.name, c)
    [] OTHER           ->
         LET size == e.len * Elem(e.name, c).size
         IN  [ size      |-> size,
               alignment |-> IF size > 8 THEN 16 ELSE Elem(e.name, c).alignment ]

Declare(i) ==
  owner' = IF owner[decls[i].name] = 0 THEN [owner EXCEPT ![decls[i].name] = i]
           ELSE owner

Settle(i) ==
  LET c      == decls[i].kind = "cstruct"
      values == [k \in DOMAIN decls[i].body |-> Value(decls[i].body[k], c)]
  IN  /\ known[i] = Unknown
      /\ owner'[decls[i].name] = i
      /\ \A k \in DOMAIN values : values[k].alignment # 0
      /\ known' = [known EXCEPT ![i] = IF decls[i].kind = "named" THEN values[1]
                                       ELSE Textbook(values, c)]

Init ==
  /\ owner = [n \in Names |-> 0]
  /\ known = [i \in DOMAIN decls |-> Unknown]

Next ==
  \E i \in DOMAIN decls :
    /\ decls[i].kind # "use"
    /\ Declare(i)
    /\ Settle(i) \/ UNCHANGED known
    /\ UNCHANGED decls

Spec == Init /\ [][Next]_<<decls, owner, known>>
=============================================================================
