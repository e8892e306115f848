---------------------------- MODULE Layout_proofs ----------------------------
(***************************************************************************)
(* Where data goes: the fields of a structure, of any length and with any  *)
(* sizes and alignments, and what a stack frame of any size holds, under a *)
(* body that does anything it may.  Both are built from align(), so the    *)
(* facts about it stand first.                                             *)
(***************************************************************************)
EXTENDS StructLayoutSpec, StackFrame, TLAPS

-----------------------------------------------------------------------------
(* Facts about align() that do not depend on what is laid out.             *)

(* Division with remainder, in the form the lemmas below use it.           *)
LEMMA DivMod ==
  ASSUME NEW n \in Nat, NEW a \in Nat \ {0}
  PROVE  /\ n % a \in 0 .. a - 1
         /\ n \div a \in Nat
         /\ n = a * (n \div a) + (n % a)
OBVIOUS

LEMMA MultMod ==
  ASSUME NEW q \in Nat, NEW a \in Nat \ {0}
  PROVE  (a * q) % a = 0
OBVIOUS

(* Adding a multiple of a keeps the remainder.                             *)
LEMMA AddMod ==
  ASSUME NEW n \in Nat, NEW s \in Nat, NEW a \in Nat \ {0}, s % a = 0
  PROVE  (n + s) % a = n % a
<1> DEFINE q == n \div a
           r == n % a
           p == s \div a
<1>1. n = a * q + r /\ q \in Nat /\ r \in 0 .. a - 1  BY DivMod
<1>2. s = a * p /\ p \in Nat  BY DivMod
<1>3. n + s = a * (q + p) + r  BY <1>1, <1>2
<1> HIDE DEF q, r, p
<1>4. (a * (q + p) + r) % a = r  BY <1>1, <1>2
<1> QED  BY <1>3, <1>4 DEF r

(* align() rounds up, by less than one alignment.                          *)
LEMMA AlignUp ==
  ASSUME NEW n \in Nat, NEW a \in Nat \ {0}
  PROVE  /\ Align(n, a) \in Nat
         /\ Align(n, a) >= n
         /\ Align(n, a) < n + a
BY DivMod DEF Align

(* align() returns a multiple of the alignment.                            *)
LEMMA AlignMod ==
  ASSUME NEW n \in Nat, NEW a \in Nat \ {0}
  PROVE  Align(n, a) % a = 0
<1> DEFINE q == n \div a
<1>1. n = a * q + (n % a) /\ q \in Nat /\ n % a \in 0 .. a - 1  BY DivMod
<1>2. CASE n % a = 0  BY <1>2 DEF Align
<1>3. CASE n % a # 0
  <2>1. n - (n % a) + a = a * (q + 1)  BY <1>1
  <2>2. (a * (q + 1)) % a = 0  BY <1>1, MultMod
  <2> QED  BY <1>3, <2>1, <2>2 DEF Align
<1> QED  BY <1>2, <1>3

(* Aligning commutes with adding a Whole size: why the padding in front of *)
(* a field is not lost although offs leaves it out.                        *)
LEMMA AlignShift ==
  ASSUME NEW n \in Nat, NEW s \in Nat, NEW a \in Nat \ {0}, s % a = 0
  PROVE  Align(n + s, a) = Align(n, a) + s
<1>1. (n + s) % a = n % a  BY AddMod
<1>2. n % a \in 0 .. a - 1  BY DivMod
<1>3. CASE n % a = 0  BY <1>1, <1>3 DEF Align
<1>4. CASE n % a # 0
  <2>1. Align(n + s, a) = (n + s) - (n % a) + a  BY <1>1, <1>4 DEF Align
  <2>2. Align(n, a) = n - (n % a) + a  BY <1>4 DEF Align
  <2> QED  BY <1>2, <2>1, <2>2
<1> QED  BY <1>3, <1>4

-----------------------------------------------------------------------------
(* The layout of a structure.  FieldsDisjoint is not inductive: that the   *)
(* next field starts after all the earlier ones needs FieldsBehind, that   *)
(* they all end at or before offs.                                         *)
LayoutInBounds ==
  /\ Len(lay.offsets) <= Len(lay.fields)
  /\ \A i \in Placements : lay.fields[i].alignment \in 1 .. lay.maxAlign
  /\ \/ lay.maxAlign = 1
     \/ \E i \in Placements : lay.fields[i].alignment = lay.maxAlign

LayoutClosed ==
  LaidOut => /\ Len(lay.offsets) = Len(lay.fields)
             /\ lay.size >= lay.offs
             /\ lay.size % lay.alignment = 0
             /\ lay.alignment \in {lay.maxAlign, 16}

FieldsBehind ==
  Whole => \A i \in Placements :
             lay.offsets[i] + lay.fields[i].size <= lay.offs

LayoutInv ==
  LayoutTypeOK /\ LayoutInBounds /\ LayoutClosed /\ FieldsAligned /\ FieldsBehind /\ FieldsDisjoint

-----------------------------------------------------------------------------
LEMMA LayoutInitInv == LayoutInit => LayoutInv
<1> SUFFICES ASSUME LayoutInit PROVE LayoutInv  OBVIOUS
<1>0. PICK s \in Structures :
      lay = [ NoLayout EXCEPT !.status = "placing", !.fields = s.fields, !.c = s.c ]
    BY DEF LayoutInit
<1>1. s.fields \in Seq(FieldType) /\ s.c \in BOOLEAN
  BY StructuresAssumption
<1>2. LayoutTypeOK
  <2>1. lay = [ status |-> "placing", c |-> s.c, fields |-> s.fields,
                offsets |-> <<>>, offs |-> 0, maxAlign |-> 1,
                size |-> 0, alignment |-> 0 ]
    BY <1>0 DEF NoLayout
  <2>2. <<>> \in Seq(Nat)  OBVIOUS
  <2> QED  BY <1>1, <2>1, <2>2 DEF LayoutTypeOK, LayoutType, LayoutStatus
<1>3. lay.offsets = <<>> /\ lay.maxAlign = 1 /\ lay.status = "placing"
      /\ lay.fields = s.fields
  BY <1>0, <1>1 DEF NoLayout
<1>4. Placements = {}
  BY <1>3 DEF Placements
<1> QED
  BY <1>1, <1>2, <1>3, <1>4
     DEF LayoutInv, LayoutInBounds, LayoutClosed, LaidOut, FieldsAligned, FieldsBehind, FieldsDisjoint

(* The type invariant, in the form the steps use it.                       *)
LEMMA LayoutTypeFacts ==
  ASSUME LayoutInv
  PROVE  /\ lay \in LayoutType
         /\ lay.offsets \in Seq(Nat)
         /\ lay.fields \in Seq(FieldType)
         /\ lay.offs \in Nat /\ lay.maxAlign \in Nat /\ lay.size \in Nat
         /\ Placements = 1 .. Len(lay.offsets)
         /\ DOMAIN lay.fields = 1 .. Len(lay.fields)
         /\ Len(lay.offsets) \in Nat /\ Len(lay.fields) \in Nat
         /\ \A i \in 1 .. Len(lay.offsets) : lay.offsets[i] \in Nat
         /\ \A i \in 1 .. Len(lay.fields) : /\ lay.fields[i].size \in Nat
                                            /\ lay.fields[i].alignment \in Nat
         /\ Placements \subseteq 1 .. Len(lay.fields)
<1>1. lay \in LayoutType  BY DEF LayoutInv, LayoutTypeOK
<1>2. lay.offsets \in Seq(Nat) /\ lay.fields \in Seq(FieldType)
  BY <1>1 DEF LayoutType
<1>3. \A i \in 1 .. Len(lay.offsets) : lay.offsets[i] \in Nat
  BY <1>2
<1>4. \A i \in 1 .. Len(lay.fields) : lay.fields[i] \in FieldType
  BY <1>2
<1>5. Len(lay.offsets) \in Nat /\ Len(lay.fields) \in Nat
      /\ Placements = 1 .. Len(lay.offsets)
      /\ DOMAIN lay.fields = 1 .. Len(lay.fields)
  BY <1>2 DEF Placements
<1>6. Len(lay.offsets) <= Len(lay.fields)  BY DEF LayoutInv, LayoutInBounds
<1> QED  BY <1>1, <1>2, <1>3, <1>4, <1>5, <1>6 DEF LayoutType, FieldType

(* What one step of the loop appends, and where it leaves offs.            *)
LEMMA PlaceFieldFacts ==
  ASSUME LayoutInv, PlaceField
  PROVE  LET n == Len(lay.offsets) + 1 IN
         /\ n \in 1 .. Len(lay.fields)
         /\ Current = lay.fields[n]
         /\ Current.size \in Nat /\ Current.alignment \in Nat \ {0}
         /\ CurrentOffset \in Nat /\ CurrentOffset >= lay.offs
         /\ CurrentOffset % Current.alignment = 0
         /\ OffsAfter \in Nat /\ OffsAfter >= lay.offs
         /\ Current.size % Current.alignment = 0
              => OffsAfter >= CurrentOffset + Current.size
<1> DEFINE n == Len(lay.offsets) + 1
           a == Current.alignment
           z == Current.size
<1>1. lay \in LayoutType  BY DEF LayoutInv, LayoutTypeOK
<1>2. n \in 1 .. Len(lay.fields) /\ Current = lay.fields[n]
  BY <1>1 DEF PlaceField, Pending, Placed, Current, LayoutType
<1>3. z \in Nat /\ a \in Nat \ {0}
  BY <1>2, LayoutTypeFacts DEF PlaceField
<1>4. lay.offs \in Nat  BY <1>1 DEF LayoutType
<1>5. CurrentOffset \in Nat /\ CurrentOffset >= lay.offs /\ CurrentOffset % a = 0
  <2>1. CASE lay.offs > 0
    BY <1>3, <1>4, <2>1, AlignUp, AlignMod DEF CurrentOffset
  <2>2. CASE lay.offs = 0
    <3>1. CurrentOffset = 0  BY <2>2 DEF CurrentOffset
    <3>2. (a * 0) % a = 0  BY <1>3, MultMod
    <3> QED  BY <1>3, <2>2, <3>1, <3>2
  <2> QED  BY <1>4, <2>1, <2>2
<1>6. OffsAfter \in Nat /\ OffsAfter >= lay.offs + z
  <2>1. lay.offs + z \in Nat  BY <1>3, <1>4
  <2>2. Align(lay.offs + z, a) \in Nat /\ Align(lay.offs + z, a) >= lay.offs + z
    BY <1>3, <2>1, AlignUp
  <2> QED  BY <2>2 DEF OffsAfter
<1>7. ASSUME z % a = 0  PROVE OffsAfter >= CurrentOffset + z
  <2>1. OffsAfter = Align(lay.offs, a) + z
    BY <1>3, <1>4, <1>7, AlignShift DEF OffsAfter
  <2>2. Align(lay.offs, a) \in Nat  BY <1>3, <1>4, AlignUp
  <2>3. CASE lay.offs > 0  BY <1>3, <2>1, <2>2, <2>3 DEF CurrentOffset
  <2>4. CASE lay.offs = 0
    BY <1>3, <2>1, <2>2, <2>4 DEF CurrentOffset
  <2> QED  BY <1>4, <2>3, <2>4
<1> QED  BY <1>2, <1>3, <1>4, <1>5, <1>6, <1>7

LEMMA PlaceFieldInv ==
  ASSUME LayoutInv, PlaceField
  PROVE  LayoutInv'
<1> DEFINE n == Len(lay.offsets) + 1
<1>1. lay \in LayoutType  BY DEF LayoutInv, LayoutTypeOK
<1>2. /\ n \in 1 .. Len(lay.fields)
      /\ Current = lay.fields[n]
      /\ Current.size \in Nat /\ Current.alignment \in Nat \ {0}
      /\ CurrentOffset \in Nat /\ CurrentOffset >= lay.offs
      /\ CurrentOffset % Current.alignment = 0
      /\ OffsAfter \in Nat /\ OffsAfter >= lay.offs
      /\ Current.size % Current.alignment = 0
           => OffsAfter >= CurrentOffset + Current.size
  BY PlaceFieldFacts
<1>3. /\ lay'.offsets = Append(lay.offsets, CurrentOffset)
      /\ lay'.offs = OffsAfter
      /\ lay'.maxAlign = IF Current.alignment > lay.maxAlign
                           THEN Current.alignment ELSE lay.maxAlign
      /\ lay'.fields = lay.fields
      /\ lay'.status = "placing"
  BY <1>1 DEF PlaceField, Pending, LayoutType
<1>4. lay' \in LayoutType
  <2>1. Append(lay.offsets, CurrentOffset) \in Seq(Nat)
    BY <1>2, LayoutTypeFacts
  <2>2. lay'.maxAlign \in Nat
    BY <1>2, <1>3, LayoutTypeFacts
  <2>3. lay' = [ lay EXCEPT !.offsets  = Append(lay.offsets, CurrentOffset),
                            !.offs     = OffsAfter,
                            !.maxAlign = lay'.maxAlign ]
    BY <1>1, <1>3 DEF PlaceField, LayoutType
  <2> HIDE DEF n
  <2> QED  BY <1>1, <1>2, <2>1, <2>2, <2>3 DEF LayoutType
<1>5. /\ Placements = 1 .. n - 1
      /\ Placements' = 1 .. n
      /\ Len(lay'.offsets) = n
      /\ \A i \in Placements : lay'.offsets[i] = lay.offsets[i]
      /\ lay'.offsets[n] = CurrentOffset
  <2> DEFINE os == lay.offsets
  <2>1. os \in Seq(Nat) /\ Len(os) \in Nat /\ Placements = 1 .. Len(os)
    BY LayoutTypeFacts
  <2> HIDE DEF os
  <2>2. /\ Append(os, CurrentOffset) \in Seq(Nat)
        /\ Len(Append(os, CurrentOffset)) = Len(os) + 1
        /\ \A i \in 1 .. Len(os) : Append(os, CurrentOffset)[i] = os[i]
        /\ Append(os, CurrentOffset)[Len(os) + 1] = CurrentOffset
    BY <1>2, <2>1
  <2>3. lay'.offsets = Append(os, CurrentOffset)  BY <1>3 DEF os
  <2>4. DOMAIN lay'.offsets = 1 .. Len(os) + 1  BY <2>1, <2>2, <2>3
  <2> QED  BY <2>1, <2>2, <2>3, <2>4 DEF os, Placements
<1>6. LayoutTypeOK'  BY <1>4 DEF LayoutTypeOK
<1>7. LayoutInBounds'
  <2>1. Len(lay.offsets)' = n  BY <1>5
  <2>2. lay.maxAlign \in Nat /\ lay'.maxAlign \in Nat
        /\ lay'.maxAlign >= lay.maxAlign /\ lay'.maxAlign >= Current.alignment
    BY <1>2, <1>3, LayoutTypeFacts
  <2>3. ASSUME NEW i \in Placements'
        PROVE  lay'.fields[i].alignment \in 1 .. lay'.maxAlign
    <3>1. CASE i = n  BY <1>2, <1>3, <2>2, <3>1
    <3>2. CASE i # n
      <4>1. i \in Placements  BY <1>2, <1>5, <3>2
      <4>2. lay.fields[i].alignment \in 1 .. lay.maxAlign
        BY <4>1 DEF LayoutInv, LayoutInBounds
      <4> QED  BY <1>3, <2>2, <4>2
    <3> QED  BY <3>1, <3>2
  <2>4. \/ lay'.maxAlign = 1
        \/ \E i \in Placements' : lay'.fields[i].alignment = lay'.maxAlign
    BY <1>2, <1>3, <1>5, <2>2, SMTT(30) DEF LayoutInv, LayoutInBounds
  <2> QED  BY <1>2, <1>3, <2>1, <2>3, <2>4 DEF LayoutInBounds
<1>8. LayoutClosed'  BY <1>3 DEF LayoutClosed, LaidOut
<1>9. FieldsAligned'
  BY <1>2, <1>3, <1>5 DEF LayoutInv, FieldsAligned
<1>10. Whole' => Whole  BY <1>3 DEF Whole
<1>11. Whole => Current.size % Current.alignment = 0
  BY <1>1, <1>2 DEF Whole, LayoutType
<1>12. /\ \A i \in Placements : lay.offsets[i] \in Nat /\ lay.fields[i].size \in Nat
       /\ lay.offs \in Nat
  BY LayoutTypeFacts
<1>13. FieldsBehind'
  <2> SUFFICES ASSUME Whole', NEW i \in Placements'
               PROVE  lay'.offsets[i] + lay'.fields[i].size <= lay'.offs
    BY DEF FieldsBehind
  <2>1. CASE i = n  BY <1>2, <1>3, <1>5, <1>10, <1>11, <2>1
  <2>2. CASE i # n
    <3>1. i \in Placements  BY <1>2, <1>5, <2>2
    <3>2. lay.offsets[i] + lay.fields[i].size <= lay.offs
      BY <1>10, <3>1 DEF LayoutInv, FieldsBehind
    <3> QED  BY <1>2, <1>3, <1>5, <1>12, <3>1, <3>2, SMTT(30)
  <2> QED  BY <2>1, <2>2
<1>14. FieldsDisjoint'
  <2> SUFFICES ASSUME Whole', NEW j \in Placements', NEW i \in Placements', j < i
               PROVE  lay'.offsets[j] + lay'.fields[j].size <= lay'.offsets[i]
    BY DEF FieldsDisjoint
  <2>1. j \in Placements /\ j \in Nat /\ i \in Nat  BY <1>2, <1>5
  <2>2. CASE i = n
    <3>1. lay.offsets[j] + lay.fields[j].size <= lay.offs
      BY <1>10, <2>1 DEF LayoutInv, FieldsBehind
    <3> QED  BY <1>2, <1>3, <1>5, <1>12, <2>1, <2>2, <3>1, SMTT(30)
  <2>3. CASE i # n
    <3>1. i \in Placements  BY <1>2, <1>5, <2>3
    <3>2. lay.offsets[j] + lay.fields[j].size <= lay.offsets[i]
      BY <1>10, <2>1, <3>1 DEF LayoutInv, FieldsDisjoint
    <3> QED  BY <1>3, <1>5, <2>1, <3>1, <3>2
  <2> QED  BY <2>2, <2>3
<1> QED  BY <1>6, <1>7, <1>8, <1>9, <1>13, <1>14 DEF LayoutInv

(* Rounding the final size up: to the largest alignment, or to 16.         *)
LEMMA CloseLayoutInv ==
  ASSUME LayoutInv, CloseLayout
  PROVE  LayoutInv'
<1>1. lay \in LayoutType  BY DEF LayoutInv, LayoutTypeOK
<1>2. lay.offs \in Nat /\ lay.maxAlign \in Nat \ {0}
  BY <1>1 DEF LayoutInv, LayoutInBounds, LayoutType
<1>3. /\ lay'.fields = lay.fields /\ lay'.offsets = lay.offsets
      /\ lay'.offs = lay.offs /\ lay'.maxAlign = lay.maxAlign
      /\ lay'.status = "idle"
      /\ lay'.size = IF Widened THEN Align(lay.offs, 16) ELSE PackedSize
      /\ lay'.alignment = IF Widened THEN 16 ELSE lay.maxAlign
  BY <1>1 DEF CloseLayout, LayoutType
<1>4. PackedSize \in Nat /\ PackedSize >= lay.offs /\ PackedSize % lay.maxAlign = 0
  BY <1>2, AlignUp, AlignMod DEF PackedSize
<1>5. LET w == Align(lay.offs, 16) IN w \in Nat /\ w >= lay.offs /\ w % 16 = 0
  BY <1>2, AlignUp, AlignMod
<1>6. LayoutTypeOK'
  BY <1>1, <1>2, <1>4, <1>5 DEF CloseLayout, LayoutTypeOK, LayoutType, LayoutStatus
<1>7. Len(lay.offsets) = Len(lay.fields)  BY DEF CloseLayout, Placed
<1>8. LayoutClosed'
  BY <1>3, <1>4, <1>5, <1>7 DEF LayoutClosed, LaidOut
<1>9. LayoutInBounds' /\ FieldsAligned' /\ FieldsBehind' /\ FieldsDisjoint'
  BY <1>3 DEF LayoutInv, LayoutInBounds, FieldsAligned, FieldsBehind, FieldsDisjoint, Whole, Placements
<1> QED  BY <1>6, <1>8, <1>9 DEF LayoutInv

LEMMA DivideByZeroInv ==
  ASSUME LayoutInv, DivideByZero
  PROVE  LayoutInv'
<1>1. lay \in LayoutType  BY DEF LayoutInv, LayoutTypeOK
<1>2. LayoutTypeOK'
  BY <1>1 DEF DivideByZero, LayoutTypeOK, LayoutType, LayoutStatus
<1>3. /\ lay'.fields = lay.fields /\ lay'.offsets = lay.offsets
      /\ lay'.offs = lay.offs /\ lay'.maxAlign = lay.maxAlign
      /\ lay'.status = "crashed"
  BY <1>1 DEF DivideByZero, LayoutType
<1> QED
  BY <1>2, <1>3 DEF LayoutInv, LayoutInBounds, LayoutClosed, LaidOut, FieldsAligned, FieldsBehind,
                    FieldsDisjoint, Whole, Placements

LEMMA LayoutNextInv == LayoutInv /\ [LayoutNext]_lay => LayoutInv'
<1> SUFFICES ASSUME LayoutInv, [LayoutNext]_lay PROVE LayoutInv'  OBVIOUS
<1>1. CASE PlaceField  BY <1>1, PlaceFieldInv
<1>2. CASE DivideByZero  BY <1>2, DivideByZeroInv
<1>3. CASE CloseLayout  BY <1>3, CloseLayoutInv
<1>4. CASE UNCHANGED lay
  BY <1>4 DEF LayoutInv, LayoutTypeOK, LayoutInBounds, LayoutClosed, LaidOut, FieldsAligned, FieldsBehind,
              FieldsDisjoint, Whole, Placements
<1> QED  BY <1>1, <1>2, <1>3, <1>4 DEF LayoutNext

(* The inductive invariant holds throughout the computation.               *)
THEOREM LayoutInvariant == LayoutSpec => []LayoutInv
BY LayoutInitInv, LayoutNextInv, PTL DEF LayoutSpec

(* The record of the computation is well formed for every structure.       *)
THEOREM LayoutTypeCorrect == LayoutSpec => []LayoutTypeOK
<1>1. LayoutInv => LayoutTypeOK  BY DEF LayoutInv
<1> QED  BY <1>1, LayoutInvariant, PTL

(* compute_struct_size_alignment_offsets aligns every field it places.     *)
THEOREM LayoutAligned == LayoutSpec => []FieldsAligned
<1>1. LayoutInv => FieldsAligned  BY DEF LayoutInv
<1> QED  BY <1>1, LayoutInvariant, PTL

(* Fields of Whole types never overlap.                                    *)
THEOREM LayoutDisjoint == LayoutSpec => []FieldsDisjoint
<1>1. LayoutInv => FieldsDisjoint  BY DEF LayoutInv
<1> QED  BY <1>1, LayoutInvariant, PTL

(* Fields of Whole types lie within td.size.                               *)
THEOREM LayoutCovered == LayoutSpec => []FieldsCovered
<1>1. ASSUME LayoutInv PROVE FieldsCovered
  <2>1. lay \in LayoutType  BY <1>1 DEF LayoutInv, LayoutTypeOK
  <2>2. SUFFICES ASSUME Whole, LaidOut, NEW i \in Placements
                 PROVE  lay.offsets[i] + lay.fields[i].size <= lay.size
    BY DEF FieldsCovered
  <2>3. lay.size >= lay.offs  BY <1>1, <2>2 DEF LayoutInv, LayoutClosed
  <2>4. lay.offsets[i] + lay.fields[i].size <= lay.offs
    BY <1>1, <2>2 DEF LayoutInv, FieldsBehind
  <2>5. lay.offsets[i] \in Nat /\ lay.fields[i].size \in Nat
    BY <1>1, LayoutTypeFacts
  <2> QED  BY <2>1, <2>3, <2>4, <2>5 DEF LayoutType
<1> QED  BY <1>1, LayoutInvariant, PTL

(* Arrays and enclosing structures keep every field aligned.               *)
THEOREM LayoutElementsAligned == LayoutSpec => []ElementsAligned
<1>1. ASSUME LayoutInv PROVE ElementsAligned
  <2>1. lay \in LayoutType  BY <1>1 DEF LayoutInv, LayoutTypeOK
  <2>2. SUFFICES ASSUME NaturalAlignments, LaidOut
                 PROVE  /\ lay.size % lay.alignment = 0
                        /\ \A i \in DOMAIN lay.fields :
                             lay.alignment % lay.fields[i].alignment = 0
    BY DEF ElementsAligned
  <2>3. lay.size % lay.alignment = 0 /\ lay.alignment \in {lay.maxAlign, 16}
    BY <1>1, <2>2 DEF LayoutInv, LayoutClosed
  <2>4. Placements = DOMAIN lay.fields
    BY <1>1, <2>1, <2>2 DEF LayoutInv, LayoutClosed, Placements, LayoutType
  <2>5. lay.maxAlign \in {1, 2, 4, 8, 16}
    BY <1>1, <2>2, <2>4 DEF LayoutInv, LayoutInBounds, NaturalAlignments
  <2>6. ASSUME NEW i \in DOMAIN lay.fields
        PROVE  lay.alignment % lay.fields[i].alignment = 0
    <3> DEFINE b == lay.fields[i].alignment
    <3>1. b \in {1, 2, 4, 8, 16} /\ b <= lay.maxAlign
      BY <1>1, <2>2, <2>4, <2>6 DEF LayoutInv, LayoutInBounds, NaturalAlignments
    <3>2. \A m \in {1, 2, 4, 8, 16}, j \in {1, 2, 4, 8, 16} : j <= m => m % j = 0
      OBVIOUS
    <3>3. b <= 16  BY <3>1
    <3> QED  BY <2>3, <2>5, <3>1, <3>2, <3>3
  <2> QED  BY <2>3, <2>6
<1> QED  BY <1>1, LayoutInvariant, PTL

-----------------------------------------------------------------------------
(* The stack frame.  The invariant says where rsp and rbp are at each      *)
(* step, that the saved registers are in the cells the epilogue will read, *)
(* and that the locals lie below those cells in the order they were        *)
(* placed: what the body may write and what the epilogue reads never meet. *)
CalleeSaved == {"saves", "body", "restores"}

RbpPush == IF NeedsRbp THEN 1 ELSE 0
Base == EntryRsp - 8 * NumPushes - Pad
SavedRbp == EntryRsp - 8
SavedTemp(i) == EntryRsp - 8 * RbpPush - 8 * i
Cell(v) == [size |-> 8, val |-> v]
Holds(a, v) == a \in DOMAIN mem /\ mem[a] = Cell(v)

---------------------------------------------------------------------------
(* The inductive invariant. *)

StackTypeOK ==
  /\ frame \in FrameType
  /\ step \in {"locals", "homes", "saves", "body", "restores", "leaving", "returned"}
  /\ placed \in Seq(Nat) /\ Len(placed) <= Len(frame.locals)
  /\ k \in Nat
  /\ rsp \in Int /\ rbp \in Int
  /\ regs = [r \in Registers |-> regs[r]]

\* Locals are placed one below the other.
PlacedInv ==
  \A j \in 1 .. Len(placed) :
    /\ placed[j] % SlotAlignment(frame.locals[j]) = 0
    /\ frame.locals[j].size <= placed[j]
    /\ \A i \in 1 .. j - 1 : placed[i] + frame.locals[j].size <= placed[j]

CounterInv ==
  /\ step = "saves" => k <= frame.temps
  /\ step = "body" => k = frame.temps
  /\ step = "restores" => k <= frame.temps

\* Where the stack and frame pointers are.
PointerInv ==
  /\ step \in {"locals", "homes", "leaving"} => rsp = EntryRsp
  /\ step \in {"saves", "restores"} => rsp = SavedTemp(k)
  /\ step = "body" => rsp = Base - StackSize
  /\ step = "returned" => rsp = EntryRsp + 8
  /\ rbp = IF step \in {"body", "restores"} /\ NeedsRbp THEN Base ELSE CallerRbp

\* The temporaries that do not have the caller's value, and those saved.
Changed == CASE step \in {"body", "restores"} -> 1 .. k
             [] OTHER -> {}
RegisterInv ==
  \A i \in 1 .. NumTemps : i \notin Changed => regs[Temp(i)] = CallerValue(Temp(i))

SavedInv ==
  /\ Holds(EntryRsp, ReturnAddress)
  /\ step \in CalleeSaved /\ NeedsRbp => Holds(SavedRbp, AddressTerm(CallerRbp))
  /\ step \in CalleeSaved =>
       \A i \in 1 .. k : Holds(SavedTemp(i), CallerValue(Temp(i)))

StackInv == /\ StackTypeOK /\ PlacedInv /\ CounterInv /\ PointerInv
            /\ RegisterInv /\ SavedInv

---------------------------------------------------------------------------
(* Lemmas about the layout. *)

LEMMA FrameFacts ==
  ASSUME frame \in FrameType
  PROVE  /\ frame.args \in Nat /\ frame.argSize \in 1 .. 8
         /\ frame.locals \in Seq(LocalType)
         /\ frame.outgoing \in Nat
         /\ frame.temps \in 0 .. NumTemps
         /\ frame.homed \in BOOLEAN
BY DEF FrameType

LEMMA LocalFacts ==
  ASSUME frame \in FrameType, NEW j \in 1 .. Len(frame.locals)
  PROVE  /\ frame.locals[j].size \in Nat
         /\ frame.locals[j].alignment \in {1, 2, 4, 8, 16}
         /\ SlotAlignment(frame.locals[j]) \in {1, 2, 4, 8, 16}
<1>1. frame.locals \in Seq(LocalType)
  BY FrameFacts
<1>2. frame.locals[j] \in LocalType
  BY <1>1
<1> QED
  BY <1>2 DEF SlotAlignment, LocalType

LEMMA SizeFacts ==
  ASSUME StackTypeOK
  PROVE  /\ LocalSize \in Nat
         /\ OutArea \in Nat /\ frame.outgoing <= OutArea /\ OutArea % 16 = 0
         /\ StackSize \in Nat /\ LocalSize + OutArea <= StackSize
         /\ StackSize % 16 = 0
         /\ RbpPush \in {0, 1} /\ NumPushes = frame.temps + RbpPush
         /\ NumPushes \in Nat /\ Pad \in {0, 8}
<1>1. LocalSize \in Nat
  BY DEF LocalSize, StackTypeOK
<1>2. /\ OutArea \in Nat /\ frame.outgoing <= OutArea
      /\ OutArea % 16 = 0
  <2>1. frame.outgoing \in Nat
    BY FrameFacts DEF StackTypeOK
  <2> QED
    BY <2>1, AlignUp, AlignMod DEF OutArea
<1>3. /\ Align(LocalSize, 16) \in Nat
      /\ LocalSize <= Align(LocalSize, 16)
      /\ Align(LocalSize, 16) % 16 = 0
  BY <1>1, AlignUp, AlignMod
<1>4. /\ StackSize \in Nat /\ LocalSize + OutArea <= StackSize
      /\ StackSize % 16 = 0
  BY <1>1, <1>2, <1>3 DEF StackSize
<1>5. RbpPush \in {0, 1} /\ NumPushes = frame.temps + RbpPush
  BY DEF RbpPush, NumPushes
<1>6. NumPushes \in Nat /\ Pad \in {0, 8}
  <2>1. frame \in FrameType
    BY DEF StackTypeOK
  <2>2. frame.temps \in 0 .. NumTemps
    BY <2>1, FrameFacts
  <2>3. Pad \in {0, 8}
    BY DEF Pad
  <2> QED
    BY <1>5, <2>2, <2>3, StackAssumption
<1> QED
  BY <1>1, <1>2, <1>4, <1>5, <1>6

(* The padding makes the pushes and the return address fill whole 16-byte  *)
(* blocks.                                                                 *)
LEMMA BaseAligned ==
  ASSUME StackTypeOK
  PROVE  Base \in Int /\ Base % 16 = 0
<1>1. NumPushes \in Nat
  BY SizeFacts
<1>2. EntryRsp \in Int /\ EntryRsp % 16 = 8
  BY StackAssumption
<1>3. CASE NumPushes % 2 = 0
  <2>1. Base = EntryRsp - 8 * NumPushes - 8
    BY <1>3 DEF Base, Pad
  <2> QED
    BY <1>1, <1>2, <1>3, <2>1
<1>4. CASE NumPushes % 2 # 0
  <2>1. Base = EntryRsp - 8 * NumPushes
    BY <1>1, <1>2, <1>4 DEF Base, Pad
  <2> QED
    BY <1>1, <1>2, <1>4, <2>1
<1> QED
  BY <1>3, <1>4

(* A multiple of an alignment, below a multiple of 16, is aligned.         *)
LEMMA AlignedBelow ==
  ASSUME NEW b \in Int, b % 16 = 0, NEW a \in {1, 2, 4, 8, 16},
         NEW p \in Nat, p % a = 0
  PROVE  (b - p) % a = 0
<1>1. CASE a = 1   BY <1>1
<1>2. CASE a = 2   BY <1>2
<1>3. CASE a = 4   BY <1>3
<1>4. CASE a = 8   BY <1>4
<1>5. CASE a = 16  BY <1>5
<1> QED
  BY <1>1, <1>2, <1>3, <1>4, <1>5

(* Every local lies above LocalSize, so no local has a size in a frame     *)
(* without rbp.                                                            *)
LEMMA PlacedWithin ==
  ASSUME StackTypeOK, PlacedInv, NEW j \in 1 .. Len(placed)
  PROVE  /\ placed[j] \in Nat /\ placed[j] <= LocalSize
         /\ j \in 1 .. Len(frame.locals)
         /\ frame.locals[j].size > 0 => NeedsRbp
<1>1. placed \in Seq(Nat) /\ placed # <<>> /\ Len(placed) \in Nat
  BY DEF StackTypeOK
<1>2. LocalSize = placed[Len(placed)]
  BY <1>1 DEF LocalSize
<1>3. j \in 1 .. Len(frame.locals)
  BY <1>1 DEF StackTypeOK
<1>4. placed[j] \in Nat /\ placed[Len(placed)] \in Nat
  BY <1>1
<1>5. placed[j] <= LocalSize
  <2>1. CASE j = Len(placed)
    BY <1>2, <1>4, <2>1
  <2>2. CASE j < Len(placed)
    <3>1. placed[j] + frame.locals[Len(placed)].size <= placed[Len(placed)]
      BY <1>1, <2>2 DEF PlacedInv
    <3>2. frame \in FrameType /\ Len(placed) \in 1 .. Len(frame.locals)
      BY <1>1 DEF StackTypeOK
    <3>3. frame.locals[Len(placed)].size \in Nat
      BY <3>2, LocalFacts
    <3> QED
      BY <1>2, <1>4, <3>1, <3>3
  <2> QED
    BY <1>1, <2>1, <2>2
<1>6. frame.locals[j].size <= placed[j] /\ frame.locals[j].size \in Nat
  BY <1>3, LocalFacts DEF PlacedInv, StackTypeOK
<1>7. frame.locals[j].size > 0 => StackSize # 0
  BY <1>4, <1>5, <1>6, SizeFacts
<1> QED
  BY <1>3, <1>4, <1>5, <1>7 DEF NeedsRbp

---------------------------------------------------------------------------
(* Lemmas about the state. *)

LEMMA WriteKeeps ==
  ASSUME NEW m, NEW a, NEW n, NEW v, NEW c \in DOMAIN m,
         c # a, Disjoint(c, m[c].size, a, n)
  PROVE  c \in DOMAIN Write(m, a, n, v) /\ Write(m, a, n, v)[c] = m[c]
BY DEF Write

LEMMA WriteNew ==
  ASSUME NEW m, NEW a, NEW n, NEW v
  PROVE  /\ a \in DOMAIN Write(m, a, n, v)
         /\ Write(m, a, n, v)[a] = [size |-> n, val |-> v]
BY DEF Write

(* A cell the invariant speaks of survives a store that does not touch its *)
(* eight bytes.                                                            *)
LEMMA HoldsKept ==
  ASSUME NEW c \in Int, NEW u, Holds(c, u), NEW a \in Int, NEW n, NEW v, n \in Nat \ {0},
         c + 8 <= a \/ a + n <= c, mem' = Write(mem, a, n, v)
  PROVE  Holds(c, u)'
<1>1. c \in DOMAIN mem /\ mem[c] = Cell(u) /\ mem[c].size = 8
  BY DEF Holds, Cell
<1>2. c # a /\ Disjoint(c, mem[c].size, a, n)
  BY <1>1 DEF Disjoint
<1>3. c \in DOMAIN mem' /\ mem'[c] = mem[c]
  BY <1>1, <1>2, WriteKeeps
<1> QED
  BY <1>1, <1>3 DEF Holds, Cell

LEMMA HoldsNew ==
  ASSUME NEW c, NEW u, mem' = Write(mem, c, 8, u)
  PROVE  Holds(c, u)'
BY WriteNew DEF Holds, Cell

LEMMA ReadHeld ==
  ASSUME NEW c, NEW u, Holds(c, u)
  PROVE  Read(mem, c, 8) = u
BY DEF Holds, Cell, Read

(* The layout depends on the frame and its placed locals only.             *)
LEMMA Steady ==
  ASSUME frame' = frame, placed' = placed
  PROVE  /\ NeedsRbp' = NeedsRbp /\ StackSize' = StackSize /\ RbpPush' = RbpPush
         /\ NumPushes' = NumPushes /\ Pad' = Pad /\ Base' = Base
         /\ \A i : SavedTemp(i)' = SavedTemp(i)
         /\ PlacedInv => PlacedInv'
BY DEF NeedsRbp, StackSize, OutArea, LocalSize, RbpPush, NumPushes, Pad, Base,
       SavedTemp, PlacedInv

LEMMA TempRegister ==
  ASSUME NEW i \in 1 .. NumTemps
  PROVE  Temp(i) \in Registers
BY DEF Registers

(* Where the addresses of the invariant are.                               *)
LEMMA AddressFacts ==
  ASSUME StackTypeOK
  PROVE  /\ EntryRsp \in Int /\ CallerRbp \in Int
         /\ SavedTemp(frame.temps) = EntryRsp - 8 * NumPushes
         /\ Base = SavedTemp(frame.temps) - Pad
         /\ \A i \in Nat : /\ SavedTemp(i) \in Int
                           /\ SavedTemp(i + 1) = SavedTemp(i) - 8
                           /\ SavedTemp(i) <= EntryRsp
                           /\ NeedsRbp => SavedTemp(i) <= SavedRbp
         /\ SavedTemp(0) = IF NeedsRbp THEN SavedRbp ELSE EntryRsp
         /\ \A i \in Nat : \A j \in 1 .. i : SavedTemp(i) <= SavedTemp(j)
<1>1. EntryRsp \in Int /\ CallerRbp \in Int
  BY StackAssumption
<1>2. frame.temps \in Nat
  BY FrameFacts, StackAssumption DEF StackTypeOK
<1>3. RbpPush \in {0, 1} /\ NumPushes = frame.temps + RbpPush /\ Pad \in {0, 8}
  BY SizeFacts
<1>4. RbpPush = IF NeedsRbp THEN 1 ELSE 0
  BY DEF RbpPush
<1> QED
  BY <1>1, <1>2, <1>3, <1>4 DEF SavedTemp, SavedRbp, Base

---------------------------------------------------------------------------
(* Every action keeps the invariant. *)

LEMMA InitInv == Init => StackInv
<1> SUFFICES ASSUME Init PROVE StackInv
  OBVIOUS
<1> USE DEF Init
<1>1. StackTypeOK
  <2>1. Len(frame.locals) \in Nat
    BY FrameFacts
  <2> QED
    BY <2>1, StackAssumption DEF StackTypeOK
<1>2. PlacedInv /\ CounterInv /\ PointerInv
  BY DEF PlacedInv, CounterInv, PointerInv
<1>3. RegisterInv
  BY TempRegister DEF RegisterInv, Changed
<1>4. SavedInv
  BY DEF SavedInv, CalleeSaved, Holds, Cell
<1> QED
  BY <1>1, <1>2, <1>3, <1>4 DEF StackInv

LEMMA PlaceLocalInv ==
  ASSUME StackInv, PlaceLocal
  PROVE  StackInv'
<1> USE DEF StackInv
<1> DEFINE n == Len(placed)
           l == frame.locals[n + 1]
<1>1. /\ step = "locals" /\ n < Len(frame.locals)
      /\ placed' = Append(placed, PlaceAt)
      /\ UNCHANGED <<frame, step, k, rsp, rbp, regs, mem>>
  BY DEF PlaceLocal
<1>2. placed \in Seq(Nat) /\ n \in Nat /\ n + 1 \in 1 .. Len(frame.locals)
  <2>1. Len(frame.locals) \in Nat
    BY FrameFacts DEF StackTypeOK
  <2> QED
    BY <1>1, <2>1 DEF StackTypeOK
<1>3. l.size \in Nat /\ SlotAlignment(l) \in {1, 2, 4, 8, 16}
  BY <1>2, LocalFacts DEF StackTypeOK
<1>4. LocalSize \in Nat
  BY SizeFacts
<1>5. PlaceAt = Align(LocalSize + l.size, SlotAlignment(l))
  BY DEF PlaceAt, NextLocal
<1>6. /\ PlaceAt \in Nat /\ LocalSize + l.size <= PlaceAt
      /\ PlaceAt % SlotAlignment(l) = 0
  <2>1. LocalSize + l.size \in Nat /\ SlotAlignment(l) \in Nat \ {0}
    BY <1>3, <1>4
  <2> QED
    BY <1>5, <2>1, AlignUp, AlignMod
<1>7. /\ placed' \in Seq(Nat) /\ Len(placed') = n + 1
      /\ placed'[n + 1] = PlaceAt
      /\ \A j \in 1 .. n : placed'[j] = placed[j]
  BY <1>1, <1>2, <1>6
<1>8. StackTypeOK'
  BY <1>1, <1>2, <1>7 DEF StackTypeOK
<1>9. PlacedInv'
  <2> SUFFICES ASSUME NEW j \in 1 .. n + 1
               PROVE  /\ placed'[j] % SlotAlignment(frame.locals[j]) = 0
                      /\ frame.locals[j].size <= placed'[j]
                      /\ \A i \in 1 .. j - 1 : placed'[i] + frame.locals[j].size <= placed'[j]
    BY <1>1, <1>7 DEF PlacedInv, SlotAlignment
  <2>1. CASE j \in 1 .. n
    <3>1. /\ placed[j] % SlotAlignment(frame.locals[j]) = 0
          /\ frame.locals[j].size <= placed[j]
          /\ \A i \in 1 .. j - 1 : placed[i] + frame.locals[j].size <= placed[j]
      BY <2>1 DEF PlacedInv
    <3>2. \A i \in 1 .. j - 1 : i \in 1 .. n
      BY <1>2, <2>1
    <3>3. placed'[j] = placed[j]
      BY <1>7, <2>1
    <3>4. \A i \in 1 .. j - 1 : placed'[i] = placed[i]
      BY <1>7, <3>2
    <3> QED
      BY <3>1, <3>3, <3>4
  <2>2. CASE j = n + 1
    <3>1. \A i \in 1 .. n : placed[i] \in Nat /\ placed[i] <= LocalSize
      BY PlacedWithin
    <3>2. placed'[j] = PlaceAt /\ frame.locals[j] = l
      BY <1>7, <2>2
    <3> HIDE DEF l
    <3>3. \A i \in 1 .. n : placed'[i] + l.size <= PlaceAt
      <4> SUFFICES ASSUME NEW i \in 1 .. n PROVE placed'[i] + l.size <= PlaceAt
        OBVIOUS
      <4>1. placed'[i] \in Nat /\ placed'[i] <= LocalSize
        BY <1>7, <3>1
      <4>2. PlaceAt \in Nat /\ LocalSize + l.size <= PlaceAt
        BY <1>6
      <4> QED
        BY <1>3, <1>4, <4>1, <4>2
    <3>4. l.size <= PlaceAt
      BY <1>3, <1>4, <1>6
    <3> QED
      BY <1>2, <1>6, <2>2, <3>2, <3>3, <3>4
  <2> QED
    BY <1>2, <2>1, <2>2
<1>10. CounterInv' /\ PointerInv' /\ RegisterInv' /\ SavedInv'
  BY <1>1 DEF CounterInv, PointerInv, RegisterInv, Changed, SavedInv, Holds, CalleeSaved
<1> QED
  BY <1>8, <1>9, <1>10

LEMMA BeginHomesInv ==
  ASSUME StackInv, BeginHomes
  PROVE  StackInv'
<1> USE DEF StackInv, BeginHomes
<1>1. Homes \in Nat
  BY FrameFacts, StackAssumption DEF Homes, Smaller, StackTypeOK
<1>2. StackTypeOK'
  BY <1>1 DEF StackTypeOK
<1>3. PlacedInv'
  BY Steady
<1>4. CounterInv' /\ PointerInv' /\ RegisterInv' /\ SavedInv'
  BY DEF CounterInv, PointerInv, RegisterInv, Changed, SavedInv, Holds, CalleeSaved
<1> QED
  BY <1>2, <1>3, <1>4

LEMMA HomeArgumentInv ==
  ASSUME StackInv, HomeArgument
  PROVE  StackInv'
<1> USE DEF StackInv, HomeArgument
<1>1. frame.argSize \in Nat \ {0} /\ EntryRsp \in Int /\ k \in Nat
  <2>1. frame \in FrameType /\ k \in Nat
    BY DEF StackTypeOK
  <2>2. frame.argSize \in 1 .. 8
    BY <2>1, FrameFacts
  <2> QED
    BY <2>1, <2>2, StackAssumption
<1>2. StackTypeOK'
  BY <1>1 DEF StackTypeOK
<1>3. PlacedInv'
  BY Steady
<1>4. Holds(EntryRsp, ReturnAddress)'
  <2>1. rsp = EntryRsp /\ rsp + HomeOffset(k) \in Int /\ EntryRsp + 8 <= rsp + HomeOffset(k)
    BY <1>1 DEF PointerInv, HomeOffset
  <2> QED
    BY <1>1, <2>1, HoldsKept DEF SavedInv
<1>5. CounterInv' /\ PointerInv' /\ RegisterInv' /\ SavedInv'
  BY <1>4 DEF CounterInv, PointerInv, RegisterInv, Changed, SavedInv, CalleeSaved
<1> QED
  BY <1>2, <1>3, <1>5

LEMMA PushRbpInv ==
  ASSUME StackInv, PushRbp
  PROVE  StackInv'
<1> USE DEF StackInv
<1>1. /\ step = "homes" /\ k = 0 /\ step' = "saves"
      /\ UNCHANGED <<frame, placed, k, rbp, regs>>
  BY DEF PushRbp
<1>2. EntryRsp \in Int /\ rsp = EntryRsp /\ rbp = CallerRbp
  BY <1>1, StackAssumption DEF PointerInv
<1>3. SavedTemp(0) = IF NeedsRbp THEN SavedRbp ELSE EntryRsp
  BY AddressFacts
<1>4. /\ rsp' = SavedTemp(0) /\ rsp' \in Int
      /\ Holds(EntryRsp, ReturnAddress)'
      /\ NeedsRbp => Holds(SavedRbp, AddressTerm(CallerRbp))'
  <2>1. CASE NeedsRbp
    <3>1. rsp' = SavedRbp /\ mem' = Write(mem, SavedRbp, 8, AddressTerm(CallerRbp))
      BY <1>2, <2>1 DEF PushRbp, SavedRbp
    <3>2. SavedRbp \in Int /\ SavedRbp + 8 <= EntryRsp
      BY <1>2 DEF SavedRbp
    <3>3. Holds(EntryRsp, ReturnAddress)'
      BY <1>2, <3>1, <3>2, HoldsKept DEF SavedInv
    <3>4. Holds(SavedRbp, AddressTerm(CallerRbp))'
      BY <3>1, HoldsNew
    <3> QED
      BY <1>3, <2>1, <3>1, <3>2, <3>3, <3>4
  <2>2. CASE ~NeedsRbp
    BY <1>2, <1>3, <2>2 DEF PushRbp, SavedInv, Holds
  <2> QED
    BY <2>1, <2>2
<1>5. PlacedInv' /\ NeedsRbp' = NeedsRbp /\ SavedTemp(0)' = SavedTemp(0)
  BY <1>1, Steady
<1>6. frame.temps \in Nat
  BY FrameFacts, StackAssumption DEF StackTypeOK
<1>7. StackTypeOK'
  BY <1>1, <1>4 DEF StackTypeOK
<1>8. CounterInv' /\ PointerInv'
  BY <1>1, <1>2, <1>4, <1>5, <1>6 DEF CounterInv, PointerInv
<1>9. RegisterInv'
  BY <1>1 DEF RegisterInv, Changed
<1>10. SavedInv'
  BY <1>1, <1>4, <1>5 DEF SavedInv, SavedRbp
<1> QED
  BY <1>5, <1>7, <1>8, <1>9, <1>10

LEMMA PushTempInv ==
  ASSUME StackInv, PushTemp
  PROVE  StackInv'
<1> USE DEF StackInv
<1>1. /\ step = "saves" /\ k < frame.temps /\ k' = k + 1
      /\ rsp' = rsp - 8 /\ mem' = Write(mem, rsp - 8, 8, regs[Temp(k + 1)])
      /\ UNCHANGED <<frame, step, placed, rbp, regs>>
  BY DEF PushTemp
<1>2. /\ k \in Nat /\ frame.temps \in Nat /\ k + 1 \in 1 .. NumTemps
      /\ NumTemps \in Nat
  <2>1. frame \in FrameType /\ k \in Nat
    BY DEF StackTypeOK
  <2>2. frame.temps \in 0 .. NumTemps
    BY <2>1, FrameFacts
  <2> QED
    BY <1>1, <2>1, <2>2, StackAssumption
<1>3. regs[Temp(k + 1)] = CallerValue(Temp(k + 1))
  BY <1>1, <1>2 DEF RegisterInv, Changed
<1>4. rsp = SavedTemp(k) /\ SavedTemp(k) \in Int /\ rsp - 8 = SavedTemp(k + 1)
  BY <1>1, <1>2, AddressFacts DEF PointerInv
<1>5. mem' = Write(mem, SavedTemp(k + 1), 8, CallerValue(Temp(k + 1)))
  BY <1>1, <1>3, <1>4
<1>6. SavedTemp(k + 1) \in Int /\ SavedTemp(k + 1) + 8 = SavedTemp(k)
  BY <1>4
<1>7. \A c \in Int : \A u : Holds(c, u) /\ SavedTemp(k) <= c => Holds(c, u)'
  <2> SUFFICES ASSUME NEW c \in Int, NEW u, Holds(c, u), SavedTemp(k) <= c
               PROVE  Holds(c, u)'
    OBVIOUS
  <2> QED
    BY <1>5, <1>6, HoldsKept
<1>8. EntryRsp \in Int /\ SavedTemp(k) <= EntryRsp /\ (NeedsRbp => SavedTemp(k) <= SavedRbp)
  BY <1>2, AddressFacts
<1>9. /\ PlacedInv' /\ NeedsRbp' = NeedsRbp
      /\ \A i : SavedTemp(i)' = SavedTemp(i)
  BY <1>1, Steady
<1>10. StackTypeOK'
  BY <1>1, <1>2, <1>4, <1>6 DEF StackTypeOK
<1>11. CounterInv' /\ PointerInv'
  BY <1>1, <1>2, <1>4, <1>9 DEF CounterInv, PointerInv
<1>12. RegisterInv'
  BY <1>1 DEF RegisterInv, Changed
<1>13. SavedInv'
  <2>1. Holds(EntryRsp, ReturnAddress)'
    BY <1>7, <1>8 DEF SavedInv
  <2>2. NeedsRbp => Holds(SavedRbp, AddressTerm(CallerRbp))'
    BY <1>1, <1>7, <1>8 DEF SavedInv, SavedRbp, CalleeSaved
  <2>3. ASSUME NEW i \in 1 .. k + 1
        PROVE  Holds(SavedTemp(i), CallerValue(Temp(i)))'
    <3>1. CASE i = k + 1
      BY <1>5, <3>1, <1>9, HoldsNew
    <3>2. CASE i \in 1 .. k
      <4>1. Holds(SavedTemp(i), CallerValue(Temp(i)))
        BY <1>1, <3>2 DEF SavedInv, CalleeSaved
      <4>2. SavedTemp(i) \in Int /\ SavedTemp(k) <= SavedTemp(i)
        BY <1>2, <3>2, AddressFacts
      <4> QED
        BY <1>7, <1>9, <4>1, <4>2 DEF Holds
    <3> QED
      BY <1>2, <3>1, <3>2
  <2> QED
    BY <1>1, <1>9, <2>1, <2>2, <2>3 DEF SavedInv, Holds, SavedRbp
<1> QED
  BY <1>9, <1>10, <1>11, <1>12, <1>13

LEMMA ReserveInv ==
  ASSUME StackInv, Reserve
  PROVE  StackInv'
<1> USE DEF StackInv
<1>1. /\ step = "saves" /\ k = frame.temps /\ step' = "body"
      /\ rbp' = (IF NeedsRbp THEN rsp - Pad ELSE rbp) /\ rsp' = rsp - Pad - StackSize
      /\ UNCHANGED <<frame, placed, k, regs, mem>>
  BY DEF Reserve
<1>2. rsp - Pad = Base /\ Base \in Int /\ StackSize \in Nat /\ rbp = CallerRbp
  BY <1>1, AddressFacts, BaseAligned, SizeFacts DEF PointerInv
<1>3. /\ PlacedInv' /\ NeedsRbp' = NeedsRbp /\ Base' = Base /\ StackSize' = StackSize
      /\ \A i : SavedTemp(i)' = SavedTemp(i)
  BY <1>1, Steady
<1>4. rsp' = Base - StackSize /\ rbp' = (IF NeedsRbp THEN Base ELSE CallerRbp)
  BY <1>1, <1>2
<1>5. StackTypeOK'
  <2>1. rsp' \in Int /\ rbp' \in Int
    BY <1>2, <1>4, StackAssumption
  <2> QED
    BY <1>1, <2>1 DEF StackTypeOK
<1>6. CounterInv' /\ PointerInv'
  BY <1>1, <1>3, <1>4 DEF CounterInv, PointerInv
<1>7. RegisterInv'
  BY <1>1 DEF RegisterInv, Changed
<1>8. SavedInv'
  BY <1>1, <1>3 DEF SavedInv, Holds, SavedRbp, CalleeSaved
<1> QED
  BY <1>3, <1>5, <1>6, <1>7, <1>8

(* The cells of the epilogue are not the body's to change.                 *)
LEMMA SavedKept ==
  ASSUME StackInv, step = "body", NEW a \in Int, SavedTemp(k) <= a, a <= EntryRsp
  PROVE  Keeps(a, 8)
<1> USE DEF StackInv
<1>1. /\ Base \in Int /\ StackSize \in Nat /\ frame.outgoing \in Nat
      /\ OutArea \in Nat /\ frame.outgoing <= OutArea
      /\ LocalSize \in Nat /\ LocalSize + OutArea <= StackSize
  BY BaseAligned, SizeFacts, FrameFacts DEF StackTypeOK
<1>2. Base <= a /\ rsp = Base - StackSize /\ (NeedsRbp => rbp = Base)
  <2>1. Base = SavedTemp(k) - Pad /\ SavedTemp(k) \in Int /\ Pad \in {0, 8}
    BY AddressFacts, SizeFacts DEF CounterInv, StackTypeOK
  <2> QED
    BY <2>1 DEF PointerInv
<1>3. rsp + frame.outgoing <= a
  BY <1>1, <1>2
<1>4. ASSUME NEW j \in DOMAIN placed
      PROVE  Disjoint(a, 8, LocalAddress(j), frame.locals[j].size)
  <2>1. j \in 1 .. Len(placed)
    BY DEF StackTypeOK
  <2>2. /\ placed[j] \in Nat /\ j \in 1 .. Len(frame.locals)
        /\ frame.locals[j].size > 0 => NeedsRbp
    BY <2>1, PlacedWithin
  <2>3. frame.locals[j].size \in Nat /\ frame.locals[j].size <= placed[j]
    BY <2>1, <2>2, LocalFacts DEF PlacedInv, StackTypeOK
  <2>4. CASE frame.locals[j].size = 0
    BY <2>4 DEF Disjoint
  <2>5. CASE frame.locals[j].size > 0
    <3>1. LocalAddress(j) = Base - placed[j]
      BY <1>2, <2>2, <2>5 DEF LocalAddress
    <3> QED
      BY <1>1, <1>2, <2>2, <2>3, <3>1 DEF Disjoint
  <2> QED
    BY <2>3, <2>4, <2>5
<1>5. ASSUME NEW i \in 1 .. frame.args
      PROVE  Disjoint(a, 8, HomeAddress(i), frame.argSize)
  <2>1. frame.args \in Nat /\ frame.temps \in Nat
    <3>1. frame \in FrameType
      BY DEF StackTypeOK
    <3> QED
      BY <3>1, FrameFacts, StackAssumption
  <2>2. NeedsRbp
    BY <2>1 DEF NeedsRbp
  <2>3. HomeAddress(i) = EntryRsp + 8 * i
    <3>1. rbp = Base /\ EntryRsp \in Int
      BY <1>2, <2>2, StackAssumption
    <3>2. NumPushes = frame.temps + 1 /\ Pad \in {0, 8}
      BY <2>2, SizeFacts DEF NumPushes
    <3> QED
      BY <2>1, <2>2, <3>1, <3>2 DEF HomeAddress, FrameOffset, Base
  <2> QED
    BY <2>1, <2>3, StackAssumption DEF Disjoint
<1> QED
  BY <1>3, <1>4, <1>5 DEF Keeps

LEMMA BodyInv ==
  ASSUME StackInv, Body
  PROVE  StackInv'
<1> USE DEF StackInv
<1>1. /\ step = "body"
      /\ UNCHANGED <<frame, step, placed, k, rsp, rbp>>
  BY DEF Body
<1>2. regs' = [r \in Registers |-> regs'[r]]
  BY DEF Body
<1>3. \A i \in frame.temps + 1 .. NumTemps : regs'[Temp(i)] = regs[Temp(i)]
  BY DEF Body
<1>4. \A a \in DOMAIN mem :
        Keeps(a, mem[a].size) => a \in DOMAIN mem' /\ mem'[a] = mem[a]
  BY DEF Body
<1>5. k = frame.temps /\ k \in Nat
  BY <1>1 DEF CounterInv, StackTypeOK
<1>6. ASSUME NEW a \in Int, NEW u, Holds(a, u), SavedTemp(k) <= a, a <= EntryRsp
      PROVE  Holds(a, u)'
  <2>1. a \in DOMAIN mem /\ mem[a] = Cell(u) /\ mem[a].size = 8
    BY <1>6 DEF Holds, Cell
  <2>2. Keeps(a, 8)
    BY <1>1, <1>6, SavedKept
  <2> QED
    BY <1>4, <2>1, <2>2 DEF Holds, Cell
<1>7. /\ PlacedInv' /\ NeedsRbp' = NeedsRbp /\ Base' = Base /\ StackSize' = StackSize
      /\ \A i : SavedTemp(i)' = SavedTemp(i)
  BY <1>1, Steady
<1>8. StackTypeOK'
  BY <1>1, <1>2 DEF StackTypeOK
<1>9. CounterInv' /\ PointerInv'
  BY <1>1, <1>7 DEF CounterInv, PointerInv
<1>10. RegisterInv'
  <2>1. ASSUME NEW i \in 1 .. NumTemps, i \notin 1 .. k
        PROVE  regs'[Temp(i)] = CallerValue(Temp(i))
    <3>1. i \in frame.temps + 1 .. NumTemps
      BY <1>5, <2>1, StackAssumption
    <3>2. regs[Temp(i)] = CallerValue(Temp(i))
      BY <1>1, <2>1 DEF RegisterInv, Changed
    <3> QED
      BY <1>3, <3>1, <3>2
  <2> QED
    BY <1>1, <2>1 DEF RegisterInv, Changed, CallerValue, Leaf, Term
<1>11. SavedInv'
  <2>1. /\ EntryRsp \in Int /\ SavedTemp(k) \in Int /\ SavedTemp(k) <= EntryRsp
        /\ SavedRbp \in Int /\ SavedRbp <= EntryRsp
        /\ NeedsRbp => SavedTemp(k) <= SavedRbp
    BY <1>5, AddressFacts DEF SavedRbp
  <2>2. Holds(EntryRsp, ReturnAddress)'
    BY <1>6, <2>1 DEF SavedInv
  <2>3. NeedsRbp => Holds(SavedRbp, AddressTerm(CallerRbp))'
    BY <1>1, <1>6, <2>1 DEF SavedInv, CalleeSaved
  <2>4. ASSUME NEW i \in 1 .. k
        PROVE  Holds(SavedTemp(i), CallerValue(Temp(i)))'
    <3>1. SavedTemp(i) \in Int /\ SavedTemp(k) <= SavedTemp(i) /\ SavedTemp(i) <= EntryRsp
      BY <1>5, AddressFacts
    <3>2. Holds(SavedTemp(i), CallerValue(Temp(i)))
      BY <1>1 DEF SavedInv, CalleeSaved
    <3>3. \A c \in Int : c = SavedTemp(i) => Holds(c, CallerValue(Temp(i)))'
      BY <1>6, <3>1, <3>2
    <3> QED
      BY <1>7, <3>1, <3>3 DEF Holds
  <2> QED
    BY <1>1, <1>7, <2>2, <2>3, <2>4 DEF SavedInv, Holds, SavedRbp
<1> QED
  BY <1>7, <1>8, <1>9, <1>10, <1>11

LEMMA ReleaseInv ==
  ASSUME StackInv, Release
  PROVE  StackInv'
<1> USE DEF StackInv
<1>1. /\ step = "body" /\ step' = "restores" /\ rsp' = rsp + StackSize + Pad
      /\ UNCHANGED <<frame, placed, k, rbp, regs, mem>>
  BY DEF Release
<1>2. k = frame.temps /\ k \in Nat
  BY <1>1 DEF CounterInv, StackTypeOK
<1>3. rsp' = SavedTemp(k) /\ SavedTemp(k) \in Int
  <2>1. rsp = Base - StackSize /\ StackSize \in Nat /\ Pad \in {0, 8}
    BY <1>1, SizeFacts DEF PointerInv
  <2>2. Base = SavedTemp(k) - Pad /\ SavedTemp(k) \in Int
    BY <1>2, AddressFacts
  <2> QED
    BY <1>1, <2>1, <2>2
<1>4. /\ PlacedInv' /\ NeedsRbp' = NeedsRbp /\ Base' = Base
      /\ \A i : SavedTemp(i)' = SavedTemp(i)
  BY <1>1, Steady
<1>5. StackTypeOK'
  BY <1>1, <1>3 DEF StackTypeOK
<1>6. CounterInv' /\ PointerInv'
  BY <1>1, <1>2, <1>3, <1>4 DEF CounterInv, PointerInv
<1>7. RegisterInv'
  BY <1>1 DEF RegisterInv, Changed
<1>8. SavedInv'
  BY <1>1, <1>4 DEF SavedInv, Holds, SavedRbp, CalleeSaved
<1> QED
  BY <1>4, <1>5, <1>6, <1>7, <1>8

LEMMA PopTempInv ==
  ASSUME StackInv, PopTemp
  PROVE  StackInv'
<1> USE DEF StackInv
<1>1. /\ step = "restores" /\ k > 0 /\ k' = k - 1 /\ rsp' = rsp + 8
      /\ regs' = [regs EXCEPT ![Temp(k)] = Read(mem, rsp, 8)]
      /\ UNCHANGED <<frame, step, placed, rbp, mem>>
  BY DEF PopTemp
<1>2. /\ k \in Nat /\ k - 1 \in Nat /\ k \in 1 .. NumTemps
      /\ frame.temps \in Nat /\ k <= frame.temps
  <2>1. frame \in FrameType /\ k \in Nat /\ k <= frame.temps
    BY <1>1 DEF StackTypeOK, CounterInv
  <2>2. frame.temps \in 0 .. NumTemps
    BY <2>1, FrameFacts
  <2> QED
    BY <1>1, <2>1, <2>2, StackAssumption
<1>3. rsp = SavedTemp(k) /\ SavedTemp(k) \in Int /\ SavedTemp(k - 1) \in Int
      /\ SavedTemp(k) = SavedTemp(k - 1) - 8
  <2>1. rsp = SavedTemp(k) /\ SavedTemp(k) \in Int
    BY <1>1, <1>2, AddressFacts DEF PointerInv
  <2>2. (k - 1) + 1 = k
    BY <1>2
  <2>3. SavedTemp((k - 1) + 1) = SavedTemp(k - 1) - 8 /\ SavedTemp(k - 1) \in Int
    BY <1>2, AddressFacts
  <2> QED
    BY <2>1, <2>2, <2>3
<1>4. Read(mem, rsp, 8) = CallerValue(Temp(k))
  <2>1. Holds(rsp, CallerValue(Temp(k)))
    BY <1>1, <1>2, <1>3 DEF SavedInv, CalleeSaved
  <2> QED
    BY <2>1, ReadHeld
<1>5. /\ PlacedInv' /\ NeedsRbp' = NeedsRbp /\ Base' = Base
      /\ \A i : SavedTemp(i)' = SavedTemp(i)
  BY <1>1, Steady
<1>6. regs = [r \in Registers |-> regs[r]]
  BY DEF StackTypeOK
<1>7. StackTypeOK'
  <2>1. regs' = [r \in Registers |-> regs'[r]]
    BY <1>1, <1>6
  <2>2. rsp' \in Int
    BY <1>1, <1>3
  <2> QED
    BY <1>1, <1>2, <2>1, <2>2 DEF StackTypeOK
<1>8. CounterInv' /\ PointerInv'
  <2>1. rsp' = SavedTemp(k - 1)
    BY <1>1, <1>3
  <2>2. CounterInv'
    BY <1>1, <1>2 DEF CounterInv
  <2>3. PointerInv'
    BY <1>1, <1>5, <2>1 DEF PointerInv
  <2> QED
    BY <2>2, <2>3
<1>9. RegisterInv'
  <2> SUFFICES ASSUME NEW i \in 1 .. NumTemps, i \notin 1 .. k - 1
               PROVE  regs'[Temp(i)] = CallerValue(Temp(i))
    BY <1>1 DEF RegisterInv, Changed, CallerValue, Leaf, Term
  <2>1. CASE i = k
    BY <1>1, <1>2, <1>4, <1>6, <2>1, TempRegister
  <2>2. CASE i # k
    <3>1. i \notin 1 .. k
      BY <1>2, <2>2
    <3>2. regs[Temp(i)] = CallerValue(Temp(i))
      BY <1>1, <3>1 DEF RegisterInv, Changed
    <3>3. Temp(i) # Temp(k)
      BY <2>2 DEF Temp
    <3> QED
      BY <1>1, <1>6, <3>2, <3>3, TempRegister
  <2> QED
    BY <2>1, <2>2
<1>10. SavedInv'
  BY <1>1, <1>2, <1>5 DEF SavedInv, Holds, SavedRbp, CalleeSaved
<1> QED
  BY <1>5, <1>7, <1>8, <1>9, <1>10

LEMMA PopRbpInv ==
  ASSUME StackInv, PopRbp
  PROVE  StackInv'
<1> USE DEF StackInv
<1>1. /\ step = "restores" /\ k = 0 /\ step' = "leaving"
      /\ UNCHANGED <<frame, placed, k, regs, mem>>
  BY DEF PopRbp
<1>2. /\ EntryRsp \in Int /\ CallerRbp \in Int
      /\ rsp = IF NeedsRbp THEN SavedRbp ELSE EntryRsp
  BY <1>1, AddressFacts DEF PointerInv
<1>3. rsp' = EntryRsp /\ rbp' = CallerRbp
  <2>1. CASE NeedsRbp
    <3>1. Read(mem, rsp, 8) = AddressTerm(CallerRbp)
      BY <1>1, <1>2, <2>1, ReadHeld DEF SavedInv, CalleeSaved
    <3>2. AddressTerm(CallerRbp).op[2] = CallerRbp
      BY DEF AddressTerm, Leaf, Term
    <3> QED
      BY <1>2, <2>1, <3>1, <3>2 DEF PopRbp, SavedRbp
  <2>2. CASE ~NeedsRbp
    BY <1>2, <2>2 DEF PopRbp, PointerInv
  <2> QED
    BY <2>1, <2>2
<1>4. PlacedInv'
  BY <1>1, Steady
<1>5. StackTypeOK'
  BY <1>1, <1>2, <1>3 DEF StackTypeOK
<1>6. CounterInv' /\ PointerInv'
  BY <1>1, <1>3 DEF CounterInv, PointerInv
<1>7. RegisterInv'
  BY <1>1 DEF RegisterInv, Changed
<1>8. SavedInv'
  BY <1>1 DEF SavedInv, Holds, CalleeSaved
<1> QED
  BY <1>4, <1>5, <1>6, <1>7, <1>8

LEMMA ReturnInv ==
  ASSUME StackInv, Return
  PROVE  StackInv'
<1> USE DEF StackInv
<1>1. /\ step = "leaving" /\ rsp' = rsp + 8
      /\ UNCHANGED <<frame, placed, k, rbp, regs, mem>>
  BY DEF Return
<1>2. rsp = EntryRsp /\ EntryRsp \in Int
  BY <1>1, StackAssumption DEF PointerInv
<1>3. step' = "returned"
  <2>1. Read(mem, rsp, 8) = ReturnAddress
    BY <1>2, ReadHeld DEF SavedInv
  <2> QED
    BY <2>1 DEF Return
<1>4. PlacedInv'
  BY <1>1, Steady
<1>5. StackTypeOK'
  BY <1>1, <1>2, <1>3 DEF StackTypeOK
<1>6. CounterInv' /\ PointerInv'
  BY <1>1, <1>2, <1>3 DEF CounterInv, PointerInv
<1>7. RegisterInv'
  BY <1>1, <1>3 DEF RegisterInv, Changed
<1>8. SavedInv'
  BY <1>1, <1>3 DEF SavedInv, Holds, CalleeSaved
<1> QED
  BY <1>4, <1>5, <1>6, <1>7, <1>8

LEMMA StutterInv ==
  ASSUME StackInv, UNCHANGED frameVars
  PROVE  StackInv'
<1>1. UNCHANGED <<frame, step, placed, k, rsp, rbp, regs, mem>>
  BY DEF frameVars
<1>2. StackTypeOK' /\ PlacedInv' /\ CounterInv'
  BY <1>1, Steady DEF StackInv, StackTypeOK, CounterInv
<1>3. PointerInv' /\ RegisterInv' /\ SavedInv'
  BY <1>1, Steady DEF StackInv, PointerInv, RegisterInv, Changed, SavedInv, Holds,
                      SavedRbp, CalleeSaved
<1> QED
  BY <1>2, <1>3 DEF StackInv

---------------------------------------------------------------------------
(* The theorems. *)

\* The invariant: whatever the body does within its own slots and registers,
\* the frame is laid out, saved and restored as StackInv says (prologue and
\* epilogue of generate_func_code).
THEOREM StackInvariant == Spec => []StackInv
<1>1. Init => StackInv
  BY InitInv
<1>2. StackInv /\ [Next]_frameVars => StackInv'
  <2> SUFFICES ASSUME StackInv, [Next]_frameVars PROVE StackInv'
    OBVIOUS
  <2>1. CASE PlaceLocal    BY <2>1, PlaceLocalInv
  <2>2. CASE BeginHomes    BY <2>2, BeginHomesInv
  <2>3. CASE HomeArgument  BY <2>3, HomeArgumentInv
  <2>4. CASE PushRbp       BY <2>4, PushRbpInv
  <2>5. CASE PushTemp      BY <2>5, PushTempInv
  <2>6. CASE Reserve       BY <2>6, ReserveInv
  <2>7. CASE Body          BY <2>7, BodyInv
  <2>8. CASE Release       BY <2>8, ReleaseInv
  <2>9. CASE PopTemp       BY <2>9, PopTempInv
  <2>10. CASE PopRbp       BY <2>10, PopRbpInv
  <2>11. CASE Return       BY <2>11, ReturnInv
  <2>12. CASE UNCHANGED frameVars  BY <2>12, StutterInv
  <2> QED
    BY <2>1, <2>2, <2>3, <2>4, <2>5, <2>6, <2>7, <2>8, <2>9, <2>10, <2>11, <2>12
    DEF Next, Prologue, Epilogue
<1> QED
  BY <1>1, <1>2, PTL DEF Spec

\* The caller gets back its stack pointer, rbp and callee-saved registers, for
\* every frame and every body that keeps to its own slots (generate_func_code).
THEOREM CallerRestored == Spec => []RestoresCaller
<1>1. StackInv => RestoresCaller
  BY DEF StackInv, StackTypeOK, PointerInv, RegisterInv, Changed, RestoresCaller
<1> QED
  BY <1>1, StackInvariant, PTL

\* The stack is aligned to 16 bytes where calls are made, for every number of
\* locals, temporaries and arguments (the padding in generate_func_code).
THEOREM StackIsAligned == Spec => []StackAligned
<1>1. StackInv => StackAligned
  <2> SUFFICES ASSUME StackInv, step = "body" PROVE rsp % 16 = 0 /\ (NeedsRbp => rbp % 16 = 0)
    BY DEF StackAligned
  <2>1. Base \in Int /\ Base % 16 = 0 /\ StackSize \in Nat /\ StackSize % 16 = 0
    BY BaseAligned, SizeFacts DEF StackInv
  <2>2. rsp = Base - StackSize /\ (NeedsRbp => rbp = Base)
    BY DEF StackInv, PointerInv
  <2>3. (Base - StackSize) % 16 = 0
    BY <2>1
  <2> QED
    BY <2>1, <2>2, <2>3
<1> QED
  BY <1>1, StackInvariant, PTL

\* The body finds every argument where it was stored (get_arg_destination
\* against the prologue and the caller's ir_call).
THEOREM ArgumentsAreFound == Spec => []ArgumentsFound
<1>1. StackInv => ArgumentsFound
  <2> SUFFICES ASSUME StackInv, step = "body", NEW i \in 1 .. frame.args
               PROVE  HomeAddress(i) = EntryRsp + 8 * i
    BY DEF ArgumentsFound
  <2>1. frame.args \in Nat /\ frame.temps \in Nat
    <3>1. frame \in FrameType
      BY DEF StackInv, StackTypeOK
    <3> QED
      BY <3>1, FrameFacts, StackAssumption
  <2>2. NeedsRbp
    BY <2>1 DEF NeedsRbp
  <2>3. rbp = Base /\ EntryRsp \in Int
    BY <2>2, StackAssumption DEF StackInv, PointerInv
  <2>4. NumPushes = frame.temps + 1 /\ Pad \in {0, 8}
    BY <2>2, SizeFacts DEF NumPushes, StackInv
  <2> QED
    BY <2>1, <2>2, <2>3, <2>4 DEF HomeAddress, FrameOffset, Base
<1> QED
  BY <1>1, StackInvariant, PTL

\* Locals that have a size do not share bytes with each other, with the
\* arguments of calls or with the saved registers, and are aligned
\* (get_func_stack_frame_size).
THEOREM LocalsAreApart == Spec => []LocalsApart
<1>1. StackInv => LocalsApart
  <2> SUFFICES ASSUME StackInv, step = "body", NEW j \in DOMAIN placed,
                      frame.locals[j].size > 0
               PROVE  /\ LocalAddress(j) % SlotAlignment(frame.locals[j]) = 0
                      /\ rsp + frame.outgoing <= LocalAddress(j)
                      /\ LocalAddress(j) + frame.locals[j].size <= rbp
                      /\ \A i \in 1 .. j - 1 :
                           Disjoint(LocalAddress(i), frame.locals[i].size,
                                    LocalAddress(j), frame.locals[j].size)
    BY DEF LocalsApart
  <2> USE DEF StackInv
  <2>1. j \in 1 .. Len(placed) /\ Len(placed) \in Nat
    BY DEF StackTypeOK
  <2>2. /\ placed[j] \in Nat /\ placed[j] <= LocalSize
        /\ j \in 1 .. Len(frame.locals) /\ NeedsRbp
    BY <2>1, PlacedWithin
  <2>3. /\ frame.locals[j].size \in Nat
        /\ SlotAlignment(frame.locals[j]) \in {1, 2, 4, 8, 16}
    BY <2>2, LocalFacts DEF StackTypeOK
  <2>4. /\ placed[j] % SlotAlignment(frame.locals[j]) = 0
        /\ frame.locals[j].size <= placed[j]
    BY <2>1 DEF PlacedInv
  <2>5. /\ Base \in Int /\ Base % 16 = 0 /\ StackSize \in Nat
        /\ OutArea \in Nat /\ frame.outgoing <= OutArea /\ frame.outgoing \in Nat
        /\ LocalSize \in Nat /\ LocalSize + OutArea <= StackSize
    BY BaseAligned, SizeFacts, FrameFacts DEF StackTypeOK
  <2>6. rbp = Base /\ rsp = Base - StackSize
    BY <2>2 DEF PointerInv
  <2>7. LocalAddress(j) = Base - placed[j]
    BY <2>6 DEF LocalAddress
  <2>8. (Base - placed[j]) % SlotAlignment(frame.locals[j]) = 0
    BY <2>2, <2>3, <2>4, <2>5, AlignedBelow
  <2>9. /\ rsp + frame.outgoing <= LocalAddress(j)
        /\ LocalAddress(j) + frame.locals[j].size <= rbp
    <3>1. placed[j] \in Nat /\ placed[j] <= LocalSize
      BY <2>2
    <3>2. frame.locals[j].size \in Nat /\ frame.locals[j].size <= placed[j]
      BY <2>3, <2>4
    <3>3. /\ Base \in Int /\ StackSize \in Nat /\ LocalSize \in Nat /\ OutArea \in Nat
          /\ frame.outgoing \in Nat /\ frame.outgoing <= OutArea
          /\ LocalSize + OutArea <= StackSize
      BY <2>5
    <3> QED
      BY <2>6, <2>7, <3>1, <3>2, <3>3
  <2>10. ASSUME NEW i \in 1 .. j - 1
         PROVE  Disjoint(LocalAddress(i), frame.locals[i].size,
                         LocalAddress(j), frame.locals[j].size)
    <3>1. i \in 1 .. Len(placed)
      BY <2>1
    <3>2. placed[i] \in Nat
      BY <3>1, PlacedWithin
    <3>3. placed[i] + frame.locals[j].size <= placed[j]
      BY <2>1 DEF PlacedInv
    <3>4. LocalAddress(i) = Base - placed[i]
      BY <2>6 DEF LocalAddress
    <3>5. Base \in Int /\ placed[j] \in Nat /\ frame.locals[j].size \in Nat
      BY <2>2, <2>3, <2>5
    <3>6. Base - placed[j] + frame.locals[j].size <= Base - placed[i]
      BY <3>2, <3>3, <3>5
    <3>7. LocalAddress(j) + frame.locals[j].size <= LocalAddress(i)
      BY <2>7, <3>4, <3>6
    <3> QED
      BY <3>7 DEF Disjoint
  <2> QED
    BY <2>7, <2>8, <2>9, <2>10
<1> QED
  BY <1>1, StackInvariant, PTL
=============================================================================
