-------------------------- MODULE ControlFlowSpec --------------------------
(***************************************************************************)
(* What the statements of a function mean, as an interpreter of the source *)
(* tree, and the properties of the generated code stated against it.       *)
(***************************************************************************)
EXTENDS ControlFlow

(* A run of the source: the calls made, the choices not used yet, the      *)
(* defers each open block has executed (the last one first), and how       *)
(* control goes on: "on", "break", "continue", "return", or "ask" when a   *)
(* condition needs a choice that has not been made.                        *)
Fresh(cs) == [calls |-> <<>>, left |-> cs, pending |-> <<>>, how |-> "on"]

Choose(st, yes(_), no(_)) ==
  IF st.left = <<>> THEN [st EXCEPT !.how = "ask"]
  ELSE LET rest == [st EXCEPT !.left = Tail(@)]
       IN  IF Head(st.left) THEN yes(rest) ELSE no(rest)

\* A block's end runs the defers the block executed, whatever ends it.
Open(st)  == [st EXCEPT !.pending = <<<<>>>> \o @]
Close(st) == IF st.how = "ask" THEN st
             ELSE [st EXCEPT !.calls = @ \o Head(st.pending), !.pending = Tail(@)]

\* A loop's body is left by break for good and by continue for this time.
AfterBody(st) == [st EXCEPT !.how = IF @ = "continue" THEN "on" ELSE @]
AfterLoop(st) == [st EXCEPT !.how = IF @ = "break" THEN "on" ELSE @]

RECURSIVE Exec(_, _), ExecAll(_, _), While(_, _), For(_, _, _)

Exec(n, st) ==
  CASE Kind(n) = "call"  -> [st EXCEPT !.calls = Append(@, n)]
    [] Kind(n) = "defer" -> [st EXCEPT !.pending[1] = <<n>> \o @]
    [] Kind(n) \in {"break", "continue", "return"} -> [st EXCEPT !.how = Kind(n)]
    [] Kind(n) \in {"block", "func"} -> Close(ExecAll(Children(n), Open(st)))
    [] Kind(n) = "if" ->
         Choose(st, LAMBDA s : Exec(Append(n, 1), s),
                    LAMBDA s : IF Len(At(n).body) = 2 THEN Exec(Append(n, 2), s) ELSE s)
    [] Kind(n) = "while" -> AfterLoop(While(n, st))
    [] Kind(n) = "for"   -> AfterLoop(For(n, RangeLength, st))

ExecAll(ns, st) ==
  IF ns = <<>> \/ st.how # "on" THEN st ELSE ExecAll(Tail(ns), Exec(Head(ns), st))

While(n, st) ==
  IF st.how # "on" THEN st
  ELSE Choose(st, LAMBDA s : While(n, AfterBody(Exec(Append(n, 1), s))), LAMBDA s : s)

For(n, k, st) ==
  IF k = 0 \/ st.how # "on" THEN st
  ELSE For(n, k - 1, AfterBody(Exec(Append(n, 1), st)))

Meaning == Exec(Root, Fresh(choices))

---------------------------------------------------------------------------
(* Properties *)

\* The calls made so far are a beginning of those the source makes on the
\* same conditions, all of them when the machine asks for a condition or has
\* finished; and it does either only where the source does (defers in reverse
\* order at every exit of their block, loops left and repeated as written).
FollowsSource ==
  LET m == Meaning IN
  todo = <<>> =>
    /\ IsPrefix(calls, m.calls)
    /\ Asking \/ Finished => calls = m.calls /\ (m.how = "ask" <=> Asking)

\* Between two conditions the generated code runs a finite number of
\* instructions: it always gets to the next condition or to its end.
KeepsGoing == []<>(Asking \/ Finished)
=============================================================================
