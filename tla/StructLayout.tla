---------------------------- MODULE StructLayout ----------------------------
(***************************************************************************)
(* The layout of a structure: compute_struct_size_alignment_offsets of     *)
(* carbonc/type_system.cc.  Its loop over the fields is kept as a loop:    *)
(* one step places one field, a last step rounds the size up.              *)
(*                                                                         *)
(* A field is the pair of its type's size and alignment, which is all the  *)
(* computation reads of it.  A type that has not been laid out yet has     *)
(* alignment 0, and then align() divides by zero: that is DivideByZero.    *)
(***************************************************************************)
EXTENDS Alignment, Sequences

VARIABLE lay    \* the computation in progress, a record (see LayoutType)

FieldType == [size : Nat, alignment : Nat]

LayoutStatus == {"idle", "placing", "crashed"}

LayoutType ==
  [ status    : LayoutStatus,
    c         : BOOLEAN,        \* td.kind = c_structure
    fields    : Seq(FieldType), \* sizes and alignments read from the fields
    offsets   : Seq(Nat),       \* f.offset of the fields placed so far
    offs      : Nat,
    maxAlign  : Nat,
    size      : Nat,            \* the result: td.size, td.alignment
    alignment : Nat ]

NoLayout ==
  [ status |-> "idle", c |-> FALSE, fields |-> <<>>, offsets |-> <<>>,
    offs |-> 0, maxAlign |-> 1, size |-> 0, alignment |-> 0 ]

(* Entering the function for a structure with these fields.                *)
BeginLayout(fields, c) ==
  lay' = [ NoLayout EXCEPT !.status = "placing", !.fields = fields, !.c = c ]

Placed == Len(lay.offsets)

Pending == lay.status = "placing" /\ Placed < Len(lay.fields)

(* The field the loop is at.                                               *)
Current == lay.fields[Placed + 1]

(* Mutants: a field is put where the one before it ended; offs is left     *)
(* where the field ends, without its alignment.                            *)
UnalignedOffset == lay.offs
UnalignedEnd == lay.offs + Current.size

(* The offset of the current field, and offs after it.  The size is added  *)
(* to offs as it was BEFORE the field was aligned.                         *)
CurrentOffset == IF lay.offs > 0 THEN Align(lay.offs, Current.alignment) ELSE 0

OffsAfter == Align(lay.offs + Current.size, Current.alignment)

(* Mutant: a type without a size is placed instead of dividing by zero.    *)
PlaceUnsized ==
  /\ Pending
  /\ lay' = [ lay EXCEPT
                !.offsets  = Append(@, IF Current.alignment = 0 THEN lay.offs
                                       ELSE CurrentOffset),
                !.offs     = IF Current.alignment = 0 THEN @ ELSE OffsAfter,
                !.maxAlign = IF Current.alignment > @ THEN Current.alignment
                                                       ELSE @ ]

PlaceField ==
  /\ Pending
  /\ Current.alignment # 0
  /\ lay' = [ lay EXCEPT
                !.offsets  = Append(@, CurrentOffset),
                !.offs     = OffsAfter,
                !.maxAlign = IF Current.alignment > @ THEN Current.alignment
                                                       ELSE @ ]

(* number % 0: the process ends with SIGFPE.                               *)
DivideByZero ==
  /\ Pending
  /\ Current.alignment = 0
  /\ lay' = [ lay EXCEPT !.status = "crashed" ]

(* Mutant: the size is not rounded up to the alignment.                    *)
UnroundedSize == lay.offs

(* The size once every field is placed.                                    *)
PackedSize == Align(lay.offs, lay.maxAlign)

(* Mutant: C structures are rounded to 16 too.                             *)
WidenedAlways == PackedSize > 8

(* Aggregates larger than 8 bytes are rounded to 16, but for C structures. *)
Widened == ~lay.c /\ PackedSize > 8

CloseLayout ==
  /\ lay.status = "placing"
  /\ Placed = Len(lay.fields)
  /\ lay' = [ lay EXCEPT
                !.status    = "idle",
                !.size      = IF Widened THEN Align(lay.offs, 16) ELSE PackedSize,
                !.alignment = IF Widened THEN 16 ELSE lay.maxAlign ]
=============================================================================
