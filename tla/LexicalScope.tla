---------------------------- MODULE LexicalScope ----------------------------
(***************************************************************************)
(* The promise of name resolution: a use gets its meaning once, and it is  *)
(* the one the text gives it, whatever the order in which uses get theirs. *)
(***************************************************************************)
EXTENDS ScopedProgram

VARIABLES prog,         \* the program
          bound         \* per item and use: {the scope of its declaration}, or {}

NotBound == [i \in DOMAIN prog |-> [k \in DOMAIN prog[i].uses |-> {}]]

Init == prog \in Seq(Item) /\ bound = NotBound

(* Some uses get their meaning; none loses it or gets another.             *)
Bind ==
  /\ DOMAIN bound' = DOMAIN prog
  /\ \A i \in DOMAIN prog :
       /\ DOMAIN bound'[i] = DOMAIN prog[i].uses
       /\ \A k \in DOMAIN prog[i].uses :
            bound'[i][k] \in IF bound[i][k] # {} THEN {bound[i][k]}
                             ELSE {{}, Meaning(prog, i, prog[i].uses[k])}
  /\ UNCHANGED prog

Spec == Init /\ [][Bind]_<<prog, bound>>
=============================================================================
