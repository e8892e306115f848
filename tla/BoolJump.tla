------------------------------ MODULE BoolJump ------------------------------
(***************************************************************************)
(* The code carbonc emits for a condition (ir.cc).  An analysis pass walks *)
(* the condition from its root and gives every comparison it reaches a     *)
(* jump: the label to go to and whether to go there when the comparison    *)
(* fails.  A second pass emits the comparisons from left to right with     *)
(* their labels, then the arms of the if statement; falling through the    *)
(* last comparison enters the body.  The machine then runs that code.      *)
(*                                                                         *)
(* Labels are node paths: a node's own path is the label generated for it, *)
(* which the root never has, so <<>> says there is no label.               *)
(***************************************************************************)
EXTENDS Naturals, Sequences

CONSTANT Conditions     \* the conditions a program may test

Left(n)  == Append(n, "l")
Right(n) == Append(n, "r")

\* The nodes the operator at n is applied to.
Operands(c, n) ==
  CASE c[n] = "cmp" -> {}
    [] c[n] = "!" -> {Left(n)}
    [] OTHER -> {Left(n), Right(n)}

(* A condition is the tree the parser builds: the root, and below every    *)
(* node its operands and nothing else.                                     *)
ASSUME ConditionsAssumption ==
  \A c \in Conditions :
    /\ c \in [DOMAIN c -> {"cmp", "!", "&&", "||"}]
    /\ DOMAIN c \subseteq Seq({"l", "r"}) /\ <<>> \in DOMAIN c
    /\ \A n \in DOMAIN c : Operands(c, n) \subseteq DOMAIN c
    /\ \A n \in DOMAIN c : \A k \in 1 .. Len(n) :
         /\ SubSeq(n, 1, k - 1) \in DOMAIN c
         /\ SubSeq(n, 1, k) \in Operands(c, SubSeq(n, 1, k - 1))

VARIABLES cond,         \* the condition of the if statement
          calls,        \* pending calls of distribute_bool_op_targets
          target,       \* ir.bin_target_label of every node
          invert,       \* ir.bin_invert_jump of every node
          self,         \* the nodes that have an ir.bin_self_label
          nodes,        \* the nodes still to generate, the next one first
          code,         \* the instructions emitted so far
          pc,           \* the instruction the machine is at, 0 if it is lost
          seen,         \* the comparisons evaluated so far and their results
          arm           \* "open", or the arm control has reached

analysis == <<calls, target, invert, self>>
machine  == <<pc, seen, arm>>
vars == <<cond, analysis, nodes, code, machine>>

Source == INSTANCE Condition

Op(n)    == cond[n]
IsLogic(n) == Op(n) \in {"&&", "||"}
IsCmp(n)   == Op(n) = "cmp"

NoLabel == <<>>
Body == <<"body">>
Else == <<"else">>
Call(n, t, f) == [node |-> n, true |-> t, false |-> f]

Init ==
  /\ cond \in Conditions
  /\ calls = <<Call(<<>>, Body, Else)>>
  /\ target = [n \in DOMAIN cond |-> NoLabel]
  /\ invert = [n \in DOMAIN cond |-> FALSE]
  /\ self = {}
  /\ nodes = <<<<>>>> /\ code = <<>>
  /\ pc = 1 /\ seen = <<>> /\ arm = "open"

---------------------------------------------------------------------------
(* Analysis: distribute_bool_op_targets, one pending call at a time.       *)

Node == Head(calls).node
TrueLabel  == Head(calls).true
FalseLabel == Head(calls).false
Return(cs) == calls' = cs \o Tail(calls)

SetTarget(n, inv, label) ==
  /\ target' = [target EXCEPT ![n] = label]
  /\ invert' = [invert EXCEPT ![n] = inv]

\* A logic operator of the given kind on the left gets the right operand's
\* own label as its way out (right_label); one of the same kind as its parent
\* inherits the parent's labels.
NeedsRightLabel(op) == IsLogic(Left(Node)) /\ Op(Left(Node)) = op

LabelRight(op) ==
  self' = self \cup (IF NeedsRightLabel(op) THEN {Right(Node)} ELSE {})

OperandCalls(left) ==
  Return((IF IsLogic(Left(Node)) THEN <<left>> ELSE <<>>)
           \o <<Call(Right(Node), TrueLabel, FalseLabel)>>)

(* Mutant: the left operand keeps the labels of the whole condition.       *)
DistributeAndInherits ==
  /\ calls # <<>> /\ Op(Node) = "&&"
  /\ SetTarget(Left(Node), TRUE, FalseLabel)
  /\ LabelRight("||")
  /\ OperandCalls(Call(Left(Node), TrueLabel, FalseLabel))
  /\ UNCHANGED <<cond, nodes, code, machine>>

DistributeAnd ==
  /\ calls # <<>> /\ Op(Node) = "&&"
  /\ SetTarget(Left(Node), TRUE, FalseLabel)
  /\ LabelRight("||")
  /\ OperandCalls(Call(Left(Node),
                       IF NeedsRightLabel("||") THEN Right(Node) ELSE TrueLabel,
                       FalseLabel))
  /\ UNCHANGED <<cond, nodes, code, machine>>

DistributeOr ==
  /\ calls # <<>> /\ Op(Node) = "||"
  /\ SetTarget(Left(Node), FALSE, TrueLabel)
  /\ LabelRight("&&")
  /\ OperandCalls(Call(Left(Node),
                       TrueLabel,
                       IF NeedsRightLabel("&&") THEN Right(Node) ELSE FalseLabel))
  /\ UNCHANGED <<cond, nodes, code, machine>>

DistributeNot ==
  /\ calls # <<>> /\ Op(Node) = "!"
  /\ IF IsLogic(Left(Node))
       THEN Return(<<Call(Left(Node), FalseLabel, TrueLabel)>>)
       ELSE Return(<<>>)
  /\ IF IsCmp(Left(Node))
       THEN SetTarget(Left(Node), FALSE, FalseLabel)
       ELSE UNCHANGED <<target, invert>>
  /\ UNCHANGED <<cond, self, nodes, code, machine>>

DistributeCmp ==
  /\ calls # <<>> /\ IsCmp(Node)
  /\ SetTarget(Node, TRUE, FalseLabel)
  /\ Return(<<>>)
  /\ UNCHANGED <<cond, self, nodes, code, machine>>

---------------------------------------------------------------------------
(* Generation: generate_ir_node on the condition, then generate_if_stmt.   *)

Generating == calls = <<>> /\ nodes # <<>>

Label(l) == [op |-> "label", at |-> l]
Test(n)  == [op |-> "test", at |-> n]
Arm(a)   == [op |-> "arm", at |-> a]

(* Mutant: only logic operators emit their own label.                      *)
OwnLabelOfLogic(n) == IF n \in self /\ IsLogic(n) THEN <<Label(n)>> ELSE <<>>

\* generate_ir_binary_expr emits the node's own label before anything else.
OwnLabel(n) == IF n \in self THEN <<Label(n)>> ELSE <<>>

GenerateLogic ==
  /\ Generating /\ IsLogic(Head(nodes))
  /\ code' = code \o OwnLabel(Head(nodes))
  /\ nodes' = <<Left(Head(nodes)), Right(Head(nodes))>> \o Tail(nodes)
  /\ UNCHANGED <<cond, analysis, machine>>

GenerateCmp ==
  /\ Generating /\ IsCmp(Head(nodes))
  /\ code' = code \o OwnLabel(Head(nodes)) \o <<Test(Head(nodes))>>
  /\ nodes' = Tail(nodes)
  /\ UNCHANGED <<cond, analysis, machine>>

\* generate_ir_unary_expr emits no label of its own; a comparison that has no
\* jump is inverted so that it leaves the negated value.
GenerateNot ==
  /\ Generating /\ Op(Head(nodes)) = "!"
  /\ LET child == Left(Head(nodes)) IN
       /\ invert' = [invert EXCEPT ![child] =
                       @ \/ (IsCmp(child) /\ target[child] = NoLabel)]
       /\ nodes' = <<child>> \o Tail(nodes)
  /\ UNCHANGED <<cond, calls, target, self, code, machine>>

Arms == <<Label(Body), Arm("body"), Label(Else), Arm("else")>>
GeneratedCond == calls = <<>> /\ nodes = <<>>
Generated == GeneratedCond /\ code # <<>> /\ code[Len(code)] = Arm("else")

GenerateArms ==
  /\ GeneratedCond /\ ~Generated
  /\ code' = code \o Arms
  /\ UNCHANGED <<cond, analysis, nodes, machine>>

---------------------------------------------------------------------------
(* The machine.  A jump to a label that no instruction defines is lost.    *)

Defines(i, l) == code[i] = Label(l)
Target(l) == IF \E i \in DOMAIN code : Defines(i, l)
               THEN CHOOSE i \in DOMAIN code : Defines(i, l) ELSE 0

At(op) == Generated /\ arm = "open" /\ pc > 0 /\ code[pc].op = op

PassLabel ==
  /\ At("label")
  /\ pc' = pc + 1
  /\ UNCHANGED <<cond, analysis, nodes, code, seen, arm>>

\* The comparison is evaluated; its jump is taken on its result, or on the
\* opposite one when it is inverted.  Without a target its value is dropped.
Compare ==
  /\ At("test")
  /\ \E b \in {"yes", "no"} :
       LET n == code[pc].at IN
       /\ seen' = Source!Record(seen, n, b)
       /\ pc' = IF target[n] # NoLabel /\ (b = "yes") # invert[n]
                  THEN Target(target[n]) ELSE pc + 1
  /\ UNCHANGED <<cond, analysis, nodes, code, arm>>

EnterArm ==
  /\ At("arm")
  /\ arm' = code[pc].at
  /\ UNCHANGED <<cond, analysis, nodes, code, pc, seen>>

Analyse  == DistributeAnd \/ DistributeOr \/ DistributeNot \/ DistributeCmp
Generate == GenerateLogic \/ GenerateCmp \/ GenerateNot \/ GenerateArms
Run      == PassLabel \/ Compare \/ EnterArm
Next == Analyse \/ Generate \/ Run

\* The compiler and the machine are sequential: each step follows the last.
Spec == Init /\ [][Next]_vars /\ WF_vars(Next)

---------------------------------------------------------------------------
(* Properties *)

\* The code evaluates the comparisons of the source, in its order, each only
\* when the source needs it, and enters the arm the source selects.
ImplementsSource == Source!Spec

\* Control enters the body exactly when the condition holds in the source:
\* the arm generate_if_stmt's labels lead to is the one the condition selects.
TakesSourceArm ==
  arm # "open" => arm = IF Source!Holds = "yes" THEN "body" ELSE "else"

\* Every label a comparison jumps to is defined once, after the comparison:
\* no jump leaves the code, goes back or is ambiguous to the assembler.
JumpsLand ==
  Generated =>
    \A i \in DOMAIN code :
      code[i].op = "test" /\ target[code[i].at] # NoLabel =>
        \E j \in i + 1 .. Len(code) :
          \A k \in DOMAIN code : Defines(k, target[code[i].at]) <=> k = j
=============================================================================
