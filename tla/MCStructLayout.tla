--------------------------- MODULE MCStructLayout ---------------------------
(***************************************************************************)
(* Every structure of up to MaxFields fields over the field types the      *)
(* language produces: the integers, a 16-byte aggregate, a C structure of  *)
(* 24 bytes, a [3]uint8, a [3]uint32 (not Whole) and a type not laid out.  *)
(***************************************************************************)
EXTENDS StructLayoutSpec

CONSTANT MaxFields

FieldTypes ==
  { [size |-> 1,  alignment |-> 1],  [size |-> 2,  alignment |-> 2],
    [size |-> 4,  alignment |-> 4],  [size |-> 8,  alignment |-> 8],
    [size |-> 16, alignment |-> 16], [size |-> 24, alignment |-> 8],
    [size |-> 3,  alignment |-> 1],  [size |-> 12, alignment |-> 16],
    [size |-> 0,  alignment |-> 0] }

MCStructures ==
  [ fields : UNION { [1 .. n -> FieldTypes] : n \in 1 .. MaxFields },
    c      : BOOLEAN ]
=============================================================================
