----------------------------- MODULE Condition -----------------------------
(***************************************************************************)
(* What a condition of an if statement, of a loop or of a boolean value    *)
(* means in Carbon: its comparisons are evaluated left to right, each only *)
(* when the operators above it have not settled the condition yet, and the *)
(* body is entered exactly when the condition holds.                       *)
(*                                                                         *)
(* A condition is an expression tree: a function from its nodes to their   *)
(* operators.  A node is the path to it from the root, a sequence of "l"   *)
(* and "r"; the operand of "!" is its "l" child.  A leaf is a comparison:  *)
(* the type checker rewrites every other boolean operand x to x != false.  *)
(***************************************************************************)
EXTENDS Sequences

CONSTANT Conditions     \* the conditions a program may test

VARIABLES cond,         \* the condition being evaluated
          seen,         \* the comparisons evaluated so far and their results
          arm           \* "open", or the arm control has reached

Left(n)  == Append(n, "l")
Right(n) == Append(n, "r")
IsLogic(c, n) == c[n] \in {"&&", "||"}
IsCmp(c, n)   == c[n] = "cmp"

Opposite == [yes |-> "no", no |-> "yes", open |-> "open"]

\* The value of every node, as far as the comparisons in s settle it.
Value(c, s) ==
  LET v[n \in DOMAIN c] ==
        CASE c[n] = "cmp" -> IF n \in DOMAIN s THEN s[n] ELSE "open"
          [] c[n] = "!"   -> Opposite[v[Left(n)]]
          [] c[n] = "&&"  -> IF v[Left(n)] = "yes" THEN v[Right(n)] ELSE v[Left(n)]
          [] c[n] = "||"  -> IF v[Left(n)] = "no" THEN v[Right(n)] ELSE v[Left(n)]
  IN  v

\* The results s with the result b of the comparison n.
Record(s, n, b) == [m \in DOMAIN s \cup {n} |-> IF m = n THEN b ELSE s[m]]

\* The comparison to evaluate next, from a root that is still open.
NextOperand(c, s) ==
  LET v == Value(c, s)
      go[n \in DOMAIN c] ==
        IF IsCmp(c, n) THEN n
        ELSE IF v[Left(n)] = "open" THEN go[Left(n)] ELSE go[Right(n)]
  IN  go[<<>>]

Holds == Value(cond, seen)[<<>>]

Init == cond \in Conditions /\ seen = <<>> /\ arm = "open"

\* The next comparison is evaluated; its result is up to the program.
Evaluate ==
  /\ arm = "open" /\ Holds = "open"
  /\ \E b \in {"yes", "no"} : seen' = Record(seen, NextOperand(cond, seen), b)
  /\ UNCHANGED <<cond, arm>>

\* Control reaches the arm the condition selects.
Enter ==
  /\ arm = "open" /\ Holds # "open"
  /\ arm' = IF Holds = "yes" THEN "body" ELSE "else"
  /\ UNCHANGED <<cond, seen>>

Next == Evaluate \/ Enter

vars == <<cond, seen, arm>>

Spec == Init /\ [][Next]_vars /\ WF_vars(Next)
=============================================================================
