---------------------------- MODULE ControlFlow ----------------------------
(***************************************************************************)
(* The code carbonc emits for the statements of a function (ir.cc) and the *)
(* machine that runs it.  The generator walks the statement tree once; it  *)
(* keeps a stack of the scopes it is in, the defer statements each scope   *)
(* has met so far, and the labels break and continue jump to.              *)
(*                                                                         *)
(* A statement is a record of its kind and its sub-statements; a node is   *)
(* the path to it from the function, a sequence of child numbers.  What    *)
(* the program does is the sequence of the calls it makes, each named by   *)
(* its node (a deferred call by its defer statement).  Every condition is  *)
(* a choice of the environment; a numeric for runs RangeLength times.      *)
(***************************************************************************)
EXTENDS Naturals, SequencesExt

CONSTANTS Functions,    \* the functions to compile
          RangeLength,  \* the iterations of a numeric for
          MaxChoices,   \* the conditions a run evaluates at most
          MaxCalls      \* the calls a run makes at most

VARIABLES func,         \* the function being compiled
          todo,         \* what the generator has left to do, in order
          scopes,       \* the scopes it is in, the innermost first
          deferred,     \* ir.scope_defer_statements of every scope
          ctrl,         \* the loops it is in, the innermost first (ctrl_labels)
          code,         \* the instructions emitted so far
          pc,           \* the machine's next instruction
          iter,         \* the iterations each numeric for has begun
          choices,      \* the conditions evaluated so far
          calls         \* the calls made so far

generator == <<todo, scopes, deferred, ctrl, code>>
machine   == <<pc, iter, choices, calls>>
vars == <<func, generator, machine>>

Root == <<>>
At(n) == FoldLeft(LAMBDA s, i : s.body[i], func, n)
Kind(n) == At(n).kind
Children(n) == [i \in 1 .. Len(At(n).body) |-> Append(n, i)]

\* The nodes below s, and the function itself.
RECURSIVE NodesOf(_)
NodesOf(s) == {<<>>} \cup UNION {{<<i>> \o n : n \in NodesOf(s.body[i])} : i \in DOMAIN s.body}
Nodes == NodesOf(func)

IsLoop(n) == Kind(n) \in {"for", "while"}
HasReturn == \E n \in Nodes : Kind(n) = "return"   \* func.return_statements

---------------------------------------------------------------------------
(* Instructions, labels and the generator's work items.                    *)

Label(n, l)  == <<n, l>>
Mark(l)      == [op |-> "label", to |-> l]
Jump(l)      == [op |-> "jmp", to |-> l]
Unless(l)    == [op |-> "unless", to |-> l]          \* a condition's false exit
InRange(n)   == [op |-> "range", at |-> n, to |-> Label(n, "end")]
Start(n)     == [op |-> "start", at |-> n]
Step(n)      == [op |-> "step", at |-> n]
CallOf(n)    == [op |-> "call", at |-> n]
Return       == [op |-> "return"]

Stmt(n)  == [do |-> "stmt", at |-> n]
Emit(i)  == [do |-> "emit", instr |-> i]
Leave(n) == [do |-> "leave", at |-> n]

Each(f(_), s) == [i \in DOMAIN s |-> f(s[i])]
Emits(s) == Each(Emit, s)

Init ==
  /\ func \in Functions
  /\ todo = Each(Stmt, Children(Root)) \o <<Leave(Root)>>
  /\ scopes = <<Root>>
  /\ deferred = [n \in Nodes |-> <<>>]
  /\ ctrl = <<>> /\ code = <<>>
  /\ pc = 1 /\ iter = [n \in Nodes |-> 0] /\ choices = <<>> /\ calls = <<>>

---------------------------------------------------------------------------
(* The generator: generate_ir_node on the next work item.                  *)

Item == Head(todo)
Generates(kind) == todo # <<>> /\ Item.do = "stmt" /\ Kind(Item.at) = kind

Continue(items) == todo' = items \o Tail(todo)
Output(instrs)  == code' = code \o instrs
KeepScopes == UNCHANGED <<scopes, deferred, ctrl>>
Compiling  == UNCHANGED <<func, machine>>

EmitNext ==
  /\ todo # <<>> /\ Item.do = "emit"
  /\ Continue(<<>>) /\ Output(<<Item.instr>>)
  /\ KeepScopes /\ Compiling

GenerateCall ==
  /\ Generates("call")
  /\ Continue(<<>>) /\ Output(<<CallOf(Item.at)>>)
  /\ KeepScopes /\ Compiling

\* A defer statement emits nothing; the innermost scope remembers it.
GenerateDefer ==
  /\ Generates("defer")
  /\ deferred' = [deferred EXCEPT ![Head(scopes)] = Append(@, Item.at)]
  /\ Continue(<<>>)
  /\ UNCHANGED <<scopes, ctrl, code>> /\ Compiling

Enter(n, items) ==
  /\ scopes' = <<n>> \o scopes
  /\ ctrl' = (IF IsLoop(n) THEN <<n>> ELSE <<>>) \o ctrl
  /\ Continue(items \o <<Leave(n)>>)
  /\ UNCHANGED <<deferred, code>> /\ Compiling

GenerateCompound ==
  /\ Generates("block")
  /\ Enter(Item.at, Each(Stmt, Children(Item.at)))

\* generate_if_stmt, without and with an else arm.
GenerateIf ==
  /\ Generates("if")
  /\ LET n == Item.at
         arms == Each(Stmt, Children(n))
     IN  Enter(n, <<Emit(Unless(Label(n, "else"))), arms[1]>> \o
                  (IF Len(arms) = 1 THEN <<Emit(Mark(Label(n, "else")))>>
                   ELSE Emits(<<Jump(Label(n, "end")), Mark(Label(n, "else"))>>)
                          \o <<arms[2], Emit(Mark(Label(n, "end")))>>))

GenerateWhile ==
  /\ Generates("while")
  /\ LET n == Item.at IN
     Enter(n, Emits(<<Mark(Label(n, "cond")), Unless(Label(n, "end"))>>)
                \o <<Stmt(Append(n, 1))>>
                \o Emits(<<Jump(Label(n, "cond")), Mark(Label(n, "end"))>>))

(* Mutant: the variable of a for is never stepped.                         *)
GenerateForUnstepped ==
  /\ Generates("for")
  /\ LET n == Item.at IN
     Enter(n, Emits(<<Start(n), Mark(Label(n, "cond")), InRange(n)>>)
                \o <<Stmt(Append(n, 1))>>
                \o Emits(<<Jump(Label(n, "cond")), Mark(Label(n, "end"))>>))

GenerateFor ==
  /\ Generates("for")
  /\ LET n == Item.at IN
     Enter(n, Emits(<<Start(n), Mark(Label(n, "cond")), InRange(n)>>)
                \o <<Stmt(Append(n, 1))>>
                \o Emits(<<Step(n), Jump(Label(n, "cond")), Mark(Label(n, "end"))>>))

\* break and continue jump to the innermost loop's labels.
GenerateContinue ==
  /\ Generates("continue")
  /\ Continue(<<>>) /\ Output(<<Jump(Label(Head(ctrl), "cond"))>>)
  /\ KeepScopes /\ Compiling

GenerateBreak ==
  /\ Generates("break")
  /\ Continue(<<>>) /\ Output(<<Jump(Label(Head(ctrl), "end"))>>)
  /\ KeepScopes /\ Compiling

Defers(n) == Each(CallOf, Reverse(deferred[n]))

(* Mutant: a return runs the defers of the innermost scope only.           *)
GenerateReturnInner ==
  /\ Generates("return")
  /\ Continue(<<>>)
  /\ Output(Defers(Head(scopes)) \o <<Return>>)
  /\ KeepScopes /\ Compiling

\* collect_defer_statements_for_return: the defers met so far, from the
\* innermost scope to the function's.
GenerateReturn ==
  /\ Generates("return")
  /\ Continue(<<>>)
  /\ Output(FlattenSeq(Each(Defers, scopes)) \o <<Return>>)
  /\ KeepScopes /\ Compiling

\* The end of a scope.  A compound statement runs its defers there; the
\* function does so only if it has no return statement.
RunsDefers(n) == Kind(n) = "block" \/ (n = Root /\ ~HasReturn)

LeaveScope ==
  /\ todo # <<>> /\ Item.do = "leave"
  /\ LET n == Item.at IN
       /\ Output(IF RunsDefers(n) THEN Defers(n) ELSE <<>>)
       /\ scopes' = Tail(scopes)
       /\ ctrl' = IF IsLoop(n) THEN Tail(ctrl) ELSE ctrl
  /\ Continue(<<>>)
  /\ UNCHANGED deferred /\ Compiling

---------------------------------------------------------------------------
(* The machine.                                                            *)

Running == todo = <<>> /\ pc <= Len(code)
Finished == todo = <<>> /\ pc > Len(code)
Executes(op) == Running /\ code[pc].op = op
Goto(l) == pc' = CHOOSE i \in DOMAIN code : code[i] = Mark(l)
Compiled == UNCHANGED <<func, generator>>

PassLabel ==
  /\ Executes("label")
  /\ pc' = pc + 1
  /\ UNCHANGED <<iter, choices, calls>> /\ Compiled

MakeCall ==
  /\ Executes("call") /\ Len(calls) < MaxCalls
  /\ calls' = Append(calls, code[pc].at)
  /\ pc' = pc + 1
  /\ UNCHANGED <<iter, choices>> /\ Compiled

TakeJump ==
  /\ Executes("jmp")
  /\ Goto(code[pc].to)
  /\ UNCHANGED <<iter, choices, calls>> /\ Compiled

Asking == Executes("unless")

EvaluateCondition ==
  /\ Asking /\ Len(choices) < MaxChoices
  /\ \E b \in BOOLEAN :
       /\ choices' = Append(choices, b)
       /\ IF b THEN pc' = pc + 1 ELSE Goto(code[pc].to)
  /\ UNCHANGED <<iter, calls>> /\ Compiled

StartRange ==
  /\ Executes("start")
  /\ iter' = [iter EXCEPT ![code[pc].at] = 0]
  /\ pc' = pc + 1
  /\ UNCHANGED <<choices, calls>> /\ Compiled

TestRange ==
  /\ Executes("range")
  /\ IF iter[code[pc].at] < RangeLength THEN pc' = pc + 1 ELSE Goto(code[pc].to)
  /\ UNCHANGED <<iter, choices, calls>> /\ Compiled

StepRange ==
  /\ Executes("step")
  /\ iter' = [iter EXCEPT ![code[pc].at] = @ + 1]
  /\ pc' = pc + 1
  /\ UNCHANGED <<choices, calls>> /\ Compiled

\* ir_return leaves the function: nothing after it runs.
ReturnNow ==
  /\ Executes("return")
  /\ pc' = Len(code) + 1
  /\ UNCHANGED <<iter, choices, calls>> /\ Compiled

Generate ==
  \/ EmitNext \/ GenerateCall \/ GenerateDefer \/ GenerateCompound
  \/ GenerateIf \/ GenerateWhile \/ GenerateFor \/ GenerateContinue
  \/ GenerateBreak \/ GenerateReturn \/ LeaveScope
Run ==
  \/ PassLabel \/ MakeCall \/ TakeJump \/ EvaluateCondition
  \/ StartRange \/ TestRange \/ StepRange \/ ReturnNow
Next == Generate \/ Run

\* The generator and the machine are sequential: each step follows the last.
Spec == Init /\ [][Next]_vars /\ WF_vars(Next)
=============================================================================
