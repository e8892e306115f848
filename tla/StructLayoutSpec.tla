-------------------------- MODULE StructLayoutSpec --------------------------
(***************************************************************************)
(* The layout computation run by itself on any structure, and what a       *)
(* layout must satisfy for loads, stores and array indexing to be right.   *)
(***************************************************************************)
EXTENDS StructLayout

CONSTANT Structures    \* the structures to lay out: [fields, c]

ASSUME StructuresAssumption ==
  Structures \subseteq [fields : Seq(FieldType), c : BOOLEAN]

LayoutInit ==
  \E s \in Structures :
    lay = [ NoLayout EXCEPT !.status = "placing", !.fields = s.fields, !.c = s.c ]

LayoutNext == PlaceField \/ DivideByZero \/ CloseLayout

LayoutSpec == LayoutInit /\ [][LayoutNext]_lay /\ WF_lay(LayoutNext)

-----------------------------------------------------------------------------

LayoutTypeOK == lay \in LayoutType

Placements == DOMAIN lay.offsets

LaidOut == lay.status = "idle"

(* Every type but some static arrays is a whole number of alignments: the  *)
(* array constructor aligns an array larger than 8 bytes to 16 and leaves  *)
(* its size as it is, so that [3]uint32 has size 12 and alignment 16.      *)
Whole == \A k \in DOMAIN lay.fields :
           /\ lay.fields[k].alignment # 0
           /\ lay.fields[k].size % lay.fields[k].alignment = 0

(* A field is placed at a multiple of its alignment: what the moves of     *)
(* 16-byte aggregates rely on.  The offset comes from offs aligned to this *)
(* field, while offs itself was aligned to the previous one.               *)
FieldsAligned ==
  \A k \in Placements : lay.offsets[k] % lay.fields[k].alignment = 0

(* Two fields never share a byte, though offs accumulates sizes from the   *)
(* unaligned offset: the padding in front of a field comes back when offs  *)
(* is aligned after it, but only if the field's size is Whole.             *)
FieldsDisjoint ==
  Whole => \A j, k \in Placements :
             j < k => lay.offsets[j] + lay.fields[j].size <= lay.offsets[k]

(* The structure's size covers its last byte, so that a copy of the value  *)
(* or the next local of the frame does not cut a field off.                *)
FieldsCovered ==
  Whole /\ LaidOut => \A k \in Placements :
                        lay.offsets[k] + lay.fields[k].size <= lay.size

(* The alignments of the language's types.                                 *)
NaturalAlignments ==
  \A k \in DOMAIN lay.fields : lay.fields[k].alignment \in {1, 2, 4, 8, 16}

(* In an array of this structure (stride td.size) and in a structure that  *)
(* has it as a field (offset a multiple of td.alignment) every field stays *)
(* aligned, and the structure is itself Whole.                             *)
ElementsAligned ==
  NaturalAlignments /\ LaidOut =>
    /\ lay.size % lay.alignment = 0
    /\ \A k \in DOMAIN lay.fields : lay.alignment % lay.fields[k].alignment = 0
=============================================================================
