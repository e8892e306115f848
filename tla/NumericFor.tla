----------------------------- MODULE NumericFor -----------------------------
(***************************************************************************)
(* The numeric for statement, for (elem in start, end[, step]), as         *)
(* generate_for_stmt compiles it (ir.cc): the direction is chosen anew at  *)
(* every iteration by comparing start with end, a missing step is set to 1 *)
(* or -1 on the way, and elem wraps at the width of its type.  Words are   *)
(* taken as the signed numbers the generated comparisons see.              *)
(***************************************************************************)
EXTENDS Integers

CONSTANTS MinInt, MaxInt,   \* the numbers of the type of start
          Ranges            \* the ranges a program loops over

Word == MinInt .. MaxInt

ASSUME WordAssumption == MinInt \in Int /\ MaxInt \in Int /\ MinInt < 0 /\ MaxInt > 0

\* A range of two or of three numbers; without a step, step is not looked at.
ASSUME RangesAssumption ==
  Ranges \subseteq [start : Word, end : Word, stepped : BOOLEAN, step : Word]

VARIABLES range,    \* the $foriter tuple the loop was given
          step,     \* the temporary that holds the step
          elem,     \* the loop variable
          at,       \* the label control is at
          count     \* how often the body ran, up to the number of words

vars == <<range, step, elem, at, count>>

Words == MaxInt - MinInt + 1
Wrap(x) == ((x - MinInt) % Words) + MinInt

\* The variable and the step are set before the loop; a missing step is not.
Init ==
  /\ range \in Ranges
  /\ elem = range.start
  /\ step \in IF range.stepped THEN {range.step} ELSE Word
  /\ at = "cond" /\ count = 0

\* Every iteration: upwards when start is below end, downwards otherwise.
Direction ==
  /\ at = "cond"
  /\ at' = IF range.start >= range.end THEN "neg" ELSE "pos"
  /\ UNCHANGED <<range, step, elem, count>>

(* Mutant: a missing step is left as it is.                                *)
TestUnset(side, default, past) ==
  /\ at = side
  /\ at' = IF past THEN "end" ELSE "body"
  /\ UNCHANGED <<range, step, elem, count>>

\* The way to the body from either side; past says elem has left the range.
Test(side, default, past) ==
  /\ at = side
  /\ step' = IF range.stepped THEN step ELSE default
  /\ at' = IF past THEN "end" ELSE "body"
  /\ UNCHANGED <<range, elem, count>>

(* Mutants: the end itself is visited; only the end itself ends the loop.  *)
TestUpTo  == Test("pos", 1, elem > range.end)
TestUpNot == Test("pos", 1, elem = range.end)

TestUp   == Test("pos", 1, elem >= range.end)
TestDown == Test("neg", -1, elem <= range.end)

\* The body runs, then elem = elem + step in elem's width.
Body ==
  /\ at = "body"
  /\ elem' = Wrap(elem + step)
  /\ count' = IF count < Words THEN count + 1 ELSE count
  /\ at' = "cond"
  /\ UNCHANGED <<range, step>>

Next == Direction \/ TestUp \/ TestDown \/ Body

Spec == Init /\ [][Next]_vars /\ WF_vars(Next)

---------------------------------------------------------------------------
(* Properties *)

TypeOK ==
  /\ range \in [start : Word, end : Word, stepped : BOOLEAN, step : Word]
  /\ step \in Word /\ elem \in Word
  /\ at \in {"cond", "pos", "neg", "body", "end"}
  /\ count \in Nat

\* The step leads from start to end, and past the end it stays in the width.
Up == range.start < range.end
Fits ==
  range.stepped =>
    IF Up THEN range.step > 0 /\ range.end - 1 + range.step <= MaxInt
    ELSE range.step < 0 /\ range.end + 1 + range.step >= MinInt

\* The body only sees elements of the range: from start on, never the end or
\* anything past it.
VisitsInside ==
  Fits /\ at = "body" =>
    IF Up THEN range.start <= elem /\ elem < range.end
    ELSE range.end < elem /\ elem <= range.start

\* A loop without a step visits the numbers between start and end one by one,
\* and all of them: it ends after as many iterations as there are.
Distance == IF Up THEN range.end - range.start ELSE range.start - range.end
VisitsAll ==
  ~range.stepped =>
    /\ elem = IF Up THEN range.start + count ELSE range.start - count
    /\ at = "end" => count = Distance

\* A loop whose step fits ends.
ForEnds == Fits => <>(at = "end")
=============================================================================
