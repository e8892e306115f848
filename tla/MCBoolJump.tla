----------------------------- MODULE MCBoolJump -----------------------------
(***************************************************************************)
(* Instances of BoolJump: the conditions of a few comparisons whose jumps  *)
(* work out, and the plain chains of one operator.                         *)
(***************************************************************************)
EXTENDS BoolJump

Cmp == [n \in {<<>>} |-> "cmp"]
Sub(side, c) == {<<side>> \o n : n \in DOMAIN c}
Not(c) == [n \in {<<>>} \cup Sub("l", c) |-> IF n = <<>> THEN "!" ELSE c[Tail(n)]]
Join(op, c, d) ==
  [n \in {<<>>} \cup Sub("l", c) \cup Sub("r", d) |->
     IF n = <<>> THEN op ELSE IF Head(n) = "l" THEN c[Tail(n)] ELSE d[Tail(n)]]

\* The nodes under which an "||" ends a chain of "&&": a comparison there
\* jumps to the body, past whatever follows the chain.
JumpsToBody(c) ==
  LET jumps[n \in DOMAIN c] ==
        \/ c[n] = "||"
        \/ c[n] = "&&" /\ jumps[Append(n, "r")]
        \/ c[n] = "&&" /\ c[Append(n, "l")] = "&&" /\ jumps[Append(n, "l")]
  IN  jumps

\* "!" stands above a comparison only, and never on the left of an operator;
\* "||" follows a comparison only; "&&" follows a comparison, an "||" (its
\* right operand is then not a "!") or an "&&" that never jumps to the body.
Plain(c) ==
  \A n \in DOMAIN c :
    LET left == c[Append(n, "l")] IN
    CASE c[n] = "cmp" -> TRUE
      [] c[n] \in {"!", "||"} -> left = "cmp"
      [] c[n] = "&&" -> \/ left = "cmp"
                        \/ left = "||" /\ c[Append(n, "r")] # "!"
                        \/ left = "&&" /\ ~JumpsToBody(c)[Append(n, "l")]

\* The conditions of k comparisons that satisfy P, with at most one "!" above
\* every node; a condition satisfies P only if its operands do.
MaxComparisons == 5
Trees(P(_), max) ==
  LET trees[k \in 1 .. max] ==
        LET joined == IF k = 1 THEN {Cmp}
                      ELSE UNION {{Join(op, c, d) : op \in {"&&", "||"},
                                                    c \in trees[i], d \in trees[k - i]}
                                    : i \in 1 .. k - 1}
        IN  {c \in joined \cup {Not(d) : d \in joined} : P(c)}
  IN  UNION {trees[k] : k \in 1 .. max}

PlainConditions == Trees(Plain, MaxComparisons)

\* a && b && c and a || b || c as the parser builds them, and their prefixes.
ChainConditions ==
  UNION {{Cmp, Join(op, Cmp, Cmp), Join(op, Join(op, Cmp, Cmp), Cmp)} : op \in {"&&", "||"}}
=============================================================================
