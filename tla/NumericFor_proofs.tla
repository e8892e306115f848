------------------------- MODULE NumericFor_proofs -------------------------
(***************************************************************************)
(* Proofs about NumericFor, for words of any width and any set of ranges.  *)
(* The loop stays in its range because the comparison before the body and  *)
(* the step agree on a direction, which only start and end decide: the     *)
(* invariant ties each label to that direction and, at the body, the step  *)
(* to it.                                                                  *)
(***************************************************************************)
EXTENDS NumericFor, TLAPS

\* Wrapping gives a word, and leaves words as they are.
LEMMA WrapWord == ASSUME NEW x \in Int PROVE Wrap(x) \in Word
  <1>1. Words \in Int /\ Words > 0
    BY WordAssumption DEF Words
  <1>2. (x - MinInt) % Words \in 0 .. Words - 1
    BY <1>1, WordAssumption
  <1> QED BY <1>1, <1>2, WordAssumption DEF Wrap, Word, Words

LEMMA WrapSame == ASSUME NEW x \in Word PROVE Wrap(x) = x
  <1>1. Words \in Int /\ Words > 0 /\ x - MinInt \in 0 .. Words - 1
    BY WordAssumption DEF Words, Word
  <1>2. (x - MinInt) % Words = x - MinInt
    BY <1>1
  <1> QED BY <1>2, WordAssumption DEF Wrap, Word

---------------------------------------------------------------------------
\* Each label belongs to a direction; at the body the step is the range's own
\* or that of the direction.
LabelsInv ==
  /\ at = "pos" => Up
  /\ at = "neg" => ~Up
  /\ range.stepped => step = range.step
  /\ at = "body" /\ ~range.stepped => step = IF Up THEN 1 ELSE -1

\* The variable never falls behind start, and is inside at the body.
InsideInv ==
  Fits => IF Up THEN range.start <= elem /\ (at = "body" => elem < range.end)
          ELSE elem <= range.start /\ (at = "body" => range.end < elem)

\* Without a step, the variable is as far from start as the body ran often.
CountInv ==
  ~range.stepped =>
    /\ elem = IF Up THEN range.start + count ELSE range.start - count
    /\ count <= Distance
    /\ at = "body" => count < Distance
    /\ at = "end" => count = Distance

Inv == TypeOK /\ LabelsInv /\ InsideInv /\ CountInv

LEMMA InvInit == Init => Inv
  <1> SUFFICES ASSUME Init PROVE Inv
    OBVIOUS
  <1>1. range \in [start : Word, end : Word, stepped : BOOLEAN, step : Word]
    BY RangesAssumption DEF Init
  <1>2. TypeOK
    BY <1>1, WordAssumption DEF Init, TypeOK, Word
  <1>3. LabelsInv
    BY <1>1 DEF Init, LabelsInv
  <1>4. InsideInv
    BY <1>1, WordAssumption DEF Init, InsideInv, Word
  <1>5. CountInv
    BY <1>1, WordAssumption DEF Init, CountInv, Distance, Up, Word
  <1> QED BY <1>2, <1>3, <1>4, <1>5 DEF Inv

LEMMA DirectionStep == Inv /\ Direction => Inv'
  <1> SUFFICES ASSUME Inv, Direction PROVE Inv'
    OBVIOUS
  <1> USE DEF Inv
  <1>1. TypeOK'
    BY DEF TypeOK, Direction
  <1>2. LabelsInv'
    BY WordAssumption DEF TypeOK, Word, Direction, LabelsInv, Up
  <1>3. InsideInv'
    BY DEF Direction, InsideInv, Fits, Up
  <1>4. CountInv'
    BY DEF Direction, CountInv, Distance, Up
  <1> QED BY <1>1, <1>2, <1>3, <1>4

LEMMA TestUpStep == Inv /\ TestUp => Inv'
  <1> SUFFICES ASSUME Inv, TestUp PROVE Inv'
    OBVIOUS
  <1> USE DEF Inv
  <1>0. Up /\ elem \in Int /\ range.start \in Int /\ range.end \in Int /\ count \in Nat
    BY WordAssumption DEF TypeOK, Word, LabelsInv, TestUp, Test
  <1>1. TypeOK'
    BY WordAssumption DEF TypeOK, TestUp, Test, Word
  <1>2. LabelsInv'
    BY <1>0 DEF TypeOK, TestUp, Test, LabelsInv, Up
  <1>3. InsideInv'
    BY <1>0 DEF TestUp, Test, InsideInv, Fits, Up
  <1>4. CountInv'
    BY <1>0 DEF TestUp, Test, CountInv, Distance, Up
  <1> QED BY <1>1, <1>2, <1>3, <1>4

LEMMA TestDownStep == Inv /\ TestDown => Inv'
  <1> SUFFICES ASSUME Inv, TestDown PROVE Inv'
    OBVIOUS
  <1> USE DEF Inv
  <1>0. ~Up /\ elem \in Int /\ range.start \in Int /\ range.end \in Int /\ count \in Nat
    BY WordAssumption DEF TypeOK, Word, LabelsInv, TestDown, Test
  <1>1. TypeOK'
    BY WordAssumption DEF TypeOK, TestDown, Test, Word
  <1>2. LabelsInv'
    BY <1>0 DEF TypeOK, TestDown, Test, LabelsInv, Up
  <1>3. InsideInv'
    BY <1>0 DEF TestDown, Test, InsideInv, Fits, Up
  <1>4. CountInv'
    BY <1>0 DEF TestDown, Test, CountInv, Distance, Up
  <1> QED BY <1>1, <1>2, <1>3, <1>4

\* A step that fits, given or not, takes the variable to a word.
LEMMA NoWrap == ASSUME Inv, at = "body", Fits PROVE Wrap(elem + step) = elem + step
  <1> USE DEF Inv
  <1>0. /\ elem \in Word /\ step \in Word /\ range.start \in Word /\ range.end \in Word
        /\ range.step \in Word
    BY DEF TypeOK
  <1>1. CASE Up
    <2>1. range.start <= elem /\ elem < range.end
      BY <1>1 DEF InsideInv
    <2>2. CASE range.stepped
      <3>1. step > 0 /\ range.end - 1 + step <= MaxInt
        BY <1>1, <2>2 DEF LabelsInv, Fits
      <3> QED BY <3>1, <1>0, <2>1, WrapSame, WordAssumption DEF Word
    <2>3. CASE ~range.stepped
      <3>1. step = 1
        BY <1>1, <2>3 DEF LabelsInv
      <3> QED BY <3>1, <1>0, <2>1, WrapSame, WordAssumption DEF Word
    <2> QED BY <2>2, <2>3
  <1>2. CASE ~Up
    <2>1. elem <= range.start /\ range.end < elem
      BY <1>2 DEF InsideInv
    <2>2. CASE range.stepped
      <3>1. step < 0 /\ range.end + 1 + step >= MinInt
        BY <1>2, <2>2 DEF LabelsInv, Fits
      <3> QED BY <3>1, <1>0, <2>1, WrapSame, WordAssumption DEF Word
    <2>3. CASE ~range.stepped
      <3>1. step = -1
        BY <1>2, <2>3 DEF LabelsInv
      <3> QED BY <3>1, <1>0, <2>1, WrapSame, WordAssumption DEF Word
    <2> QED BY <2>2, <2>3
  <1> QED BY <1>1, <1>2

LEMMA BodyStep == Inv /\ Body => Inv'
  <1> SUFFICES ASSUME Inv, Body PROVE Inv'
    OBVIOUS
  <1> USE DEF Inv
  <1>0. /\ elem \in Int /\ step \in Int /\ range.start \in Int /\ range.end \in Int
        /\ count \in Nat /\ Words \in Int
    BY WordAssumption DEF TypeOK, Word, Words
  <1>1. TypeOK'
    <2>1. Wrap(elem + step) \in Word
      BY <1>0, WrapWord
    <2> QED BY <2>1, <1>0 DEF TypeOK, Body
  <1>2. LabelsInv'
    BY DEF Body, LabelsInv, Up
  <1>3. InsideInv'
    <2> SUFFICES ASSUME Fits PROVE InsideInv'
      BY DEF InsideInv, Fits, Up, Body
    <2>1. elem' = elem + step
      BY NoWrap DEF Body
    <2>2. Up => step > 0
      <3>1. CASE range.stepped
        BY <3>1 DEF LabelsInv, Fits
      <3>2. CASE ~range.stepped
        BY <3>2 DEF LabelsInv, Body
      <3> QED BY <3>1, <3>2
    <2>3. ~Up => step < 0
      <3>1. CASE range.stepped
        BY <3>1 DEF LabelsInv, Fits
      <3>2. CASE ~range.stepped
        BY <3>2 DEF LabelsInv, Body
      <3> QED BY <3>1, <3>2
    <2> QED BY <2>1, <2>2, <2>3, <1>0 DEF InsideInv, Body, Up, Fits
  <1>4. CountInv'
    <2> SUFFICES ASSUME ~range.stepped PROVE CountInv'
      BY DEF CountInv, Body
    <2>1. Fits
      BY DEF Fits
    <2>2. elem' = elem + step
      BY <2>1, NoWrap DEF Body
    <2>3. count < Distance /\ elem = IF Up THEN range.start + count ELSE range.start - count
      BY DEF CountInv, Body
    <2>4. Distance \in Int /\ Distance < Words
      BY WordAssumption DEF TypeOK, Word, Words, Distance, Up
    <2>5. count' = count + 1
      BY <2>3, <2>4, <1>0 DEF Body
    <2>6. step = IF Up THEN 1 ELSE -1
      BY DEF LabelsInv, Body
    <2>7. UNCHANGED range /\ at' = "cond"
      BY DEF Body
    <2> QED BY <2>2, <2>3, <2>4, <2>5, <2>6, <2>7, <1>0 DEF CountInv, Distance, Up
  <1> QED BY <1>1, <1>2, <1>3, <1>4

LEMMA InvInvariant == Spec => []Inv
  <1>1. Init => Inv
    BY InvInit
  <1>2. Inv /\ [Next]_vars => Inv'
    <2> SUFFICES ASSUME Inv, [Next]_vars PROVE Inv'
      OBVIOUS
    <2>1. CASE UNCHANGED vars
      BY <2>1 DEF Inv, TypeOK, LabelsInv, InsideInv, CountInv, Fits, Up, Distance, vars
    <2>2. CASE Next
      BY <2>2, DirectionStep, TestUpStep, TestDownStep, BodyStep DEF Next
    <2> QED BY <2>1, <2>2
  <1> QED BY <1>1, <1>2, PTL DEF Spec

---------------------------------------------------------------------------
\* The loop keeps its variable and its step in the words of their type, for
\* every width and every range: no iteration leaves them.
THEOREM NumericForTypeCorrect == Spec => []TypeOK
  <1>1. Inv => TypeOK
    BY DEF Inv
  <1> QED BY <1>1, InvInvariant, PTL

\* The body of a loop whose step fits sees elements of the range only.
THEOREM NumericForInside == Spec => []VisitsInside
  <1>1. Inv => VisitsInside
    BY DEF Inv, InsideInv, VisitsInside
  <1> QED BY <1>1, InvInvariant, PTL

\* A loop without a step visits every element of its range, once, in order.
THEOREM NumericForAll == Spec => []VisitsAll
  <1>1. Inv => VisitsAll
    BY DEF Inv, CountInv, VisitsAll
  <1> QED BY <1>1, InvInvariant, PTL
=============================================================================
