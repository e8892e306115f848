------------------------------ MODULE ExprCode ------------------------------
(***************************************************************************)
(* The code of expressions and straight-line statements: the intermediate  *)
(* representation ir.cc generates for them, the pass that replaces         *)
(* duplicates, the registers codegen_x64.cc gives the results, and the     *)
(* machine code, which runs here as it is emitted: the code of a function  *)
(* without jumps runs in the order it is written.                          *)
(*                                                                         *)
(* An expression is a term: an operator and its operands.  So is a value:  *)
(* the expression with the locals replaced by their values, arguments and  *)
(* literals standing for themselves.  Every integer has one size; memory   *)
(* behind pointers and in arrays is read (a term) and written (an effect)  *)
(* but not kept.                                                           *)
(***************************************************************************)
EXTENDS StackFrame, SequencesExt

CONSTANT Functions      \* the functions to compile

VARIABLES func,         \* the function
          source,       \* what its source means (see Source)
          code,         \* its IR after opt_replace_duplicates
          dest,         \* instrdata[i].dest of every instruction
          ip,           \* the instruction being generated and run
          opstack,      \* codegen's operand stack (see Pushed)
          effects       \* the calls and stores made so far

vars == <<frameVars, func, source, code, dest, ip, opstack, effects>>

---------------------------------------------------------------------------
(* Terms and instructions.                                                 *)

Pop == Leaf(<<"pop", 0>>)
Lit == Leaf(<<"lit", 0>>)
IsLeaf(e) == e.op[1] \in {"arg", "local", "lit", "array"}

Instr(op, args) == [op |-> op, args |-> args]
Consumes(i) == Len(SelectSeq(i.args, LAMBDA o : o = Pop))
Pushes(i) == i.op[1] \in {"add", "neg", "div", "deref", "index", "call", "dup"}

---------------------------------------------------------------------------
(* The meaning of the source.                                              *)

\* What is read from memory depends on the calls and stores made before it.
LoadOf(address, made) == Term(<<"load", made>>, <<address>>)
ElementOf(address, i) == Term(<<"elem", 0>>, <<address, i>>)
AddressOf(v) == IF v.op[1] = "load" THEN v.of[1] ELSE v

RECURSIVE CallCount(_)
CallCount(e) == FoldLeft(LAMBDA n, d : n + CallCount(d), IF e.op[1] = "call" THEN 1 ELSE 0, e.of)

\* Operands are evaluated from left to right: those before the i-th have made
\* their calls.
Before(e, i, made) == FoldLeft(LAMBDA n, d : n + CallCount(d), made, SubSeq(e.of, 1, i - 1))

RECURSIVE Val(_, _, _), Place(_, _, _), CallsIn(_, _, _)
Val(e, env, made) ==
  CASE e.op[1] = "local" -> env[e.op[2]]
    [] e.op[1] \in {"deref", "index"} -> LoadOf(Place(e, env, made), made + CallCount(e))
    [] OTHER -> Term(e.op, [i \in DOMAIN e.of |-> Val(e.of[i], env, Before(e, i, made))])
Place(e, env, made) ==
  CASE e.op[1] = "deref" -> Val(e.of[1], env, made)
    [] e.op[1] = "index" -> ElementOf(Place(e.of[1], env, made),
                                      Val(e.of[2], env, Before(e, 2, made)))
    [] OTHER -> e
CallsIn(e, env, made) ==
  FlattenSeq([i \in DOMAIN e.of |-> CallsIn(e.of[i], env, Before(e, i, made))])
    \o (IF e.op[1] = "call" THEN <<Val(e, env, made)>> ELSE <<>>)

Evaluated(r, e) == [r EXCEPT !.effects = @ \o CallsIn(e, r.env, Len(@))]

Step(r, s) ==
  CASE s.do = "set" -> [Evaluated(r, s.e) EXCEPT !.env[s.to.op[2]] = Val(s.e, r.env, Len(r.effects))]
    [] s.do = "put" ->
         LET n == Len(r.effects) + CallCount(s.to)
             stored == Term(<<"put", 0>>, <<Place(s.to, r.env, Len(r.effects)), Val(s.e, r.env, n)>>)
         IN  [r EXCEPT !.effects = @ \o CallsIn(s.to, r.env, Len(@)) \o CallsIn(s.e, r.env, n)
                                     \o <<stored>>]
    [] s.do = "eval" -> Evaluated(r, s.e)

\* Leaving the function runs its defers, the last one first.
Leave(r) == FoldLeft(Step, r, r.defers)

SourceStmt(r, s) ==
  CASE s.do = "defer"  -> [r EXCEPT !.defers = <<s.stmt>> \o @]
    [] s.do = "return" -> Leave([Evaluated(r, s.e) EXCEPT !.result = Val(s.e, r.env, Len(r.effects))])
    [] OTHER -> Step(r, s)

Returning(f) == \E i \in DOMAIN f.body : f.body[i].do = "return"

Source(f) ==
  LET r == FoldLeft(SourceStmt,
                    [env |-> [j \in DOMAIN f.locals |-> Junk], effects |-> <<>>,
                     result |-> Junk, defers |-> <<>>],
                    f.body)
      left == IF Returning(f) THEN r ELSE Leave(r)
  IN  [effects |-> left.effects, result |-> left.result]

---------------------------------------------------------------------------
(* IR generation (ir.cc).  An operand that is a variable or a literal is   *)
(* used where it is; any other is left on the stack by its instructions.   *)

Operand(e) == IF IsLeaf(e) THEN e ELSE Pop
RECURSIVE Ir(_)
Ir(e) == IF IsLeaf(e) THEN <<>>
         ELSE FlattenSeq([i \in DOMAIN e.of |-> Ir(e.of[i])])
                \o <<Instr(e.op, [i \in DOMAIN e.of |-> Operand(e.of[i])])>>

IrStmt(s) ==
  CASE s.do = "set"    -> Ir(s.e) \o <<Instr(<<"load", 0>>, <<s.to, Operand(s.e)>>)>>
    [] s.do = "put"    -> Ir(s.to) \o Ir(s.e)
                            \o <<Instr(<<"load", 0>>, <<Pop, Operand(s.e)>>)>>
    [] s.do = "eval"   -> Ir(s.e) \o <<Instr(<<"noop", 0>>, <<Operand(s.e)>>)>>

\* The operand of a return is computed before the defers, and read after them.
Leaving(g) == [g EXCEPT !.code = @ \o FlattenSeq([i \in DOMAIN g.defers |-> IrStmt(g.defers[i])])]

IrReturn(g, e) ==
  LET left == Leaving([g EXCEPT !.code = @ \o Ir(e)])
  IN  [left EXCEPT !.code = Append(@, Instr(<<"return", 0>>, <<Operand(e)>>))]

Generate(g, s) ==
  CASE s.do = "defer"  -> [g EXCEPT !.defers = <<s.stmt>> \o @]
    [] s.do = "return" -> IrReturn(g, s.e)
    [] OTHER -> [g EXCEPT !.code = @ \o IrStmt(s)]

Generated(f) ==
  LET g == FoldLeft(Generate, [code |-> <<>>, defers |-> <<>>], f.body)
  IN  (IF Returning(f) THEN g ELSE Leaving(g)).code

\* opt_replace_duplicates: an instruction that takes nothing from the stack
\* and equals one before it is replaced by a duplication of the top, if
\* nothing between them takes or leaves an operand.
Replaceable(i) == Pushes(i) /\ Consumes(i) = 0 /\ i.op[1] # "call"

\* Mutant: an operand may be left between the two.
ReplacedAcross(c, j) ==
  /\ Replaceable(c[j])
  /\ \E i \in 1 .. j - 1 :
       c[i] = c[j] /\ \A m \in i + 1 .. j - 1 : Consumes(c[m]) = 0

Replaced(c, j) ==
  /\ Replaceable(c[j])
  /\ \E i \in 1 .. j - 1 :
       /\ c[i] = c[j]
       /\ \A m \in i + 1 .. j - 1 :
            c[m] = c[i] \/ (Consumes(c[m]) = 0 /\ ~Pushes(c[m]))
Optimized(c) ==
  [j \in DOMAIN c |-> IF Replaced(c, j) THEN Instr(<<"dup", 0>>, <<>>) ELSE c[j]]

---------------------------------------------------------------------------
(* Destinations (determine_instrs_destination).  A result that the next    *)
(* instruction takes stays in rax; another gets the next free temporary    *)
(* register, or a local once they are all used.                            *)

\* Mutant: the first operand held is freed, not the last.
FreeFirst(a) == IF a.regs > 0 THEN [a EXCEPT !.regs = @ - 1] ELSE [a EXCEPT !.spills = @ - 1]

Free(a) == IF a.spills > 0 THEN [a EXCEPT !.spills = @ - 1] ELSE [a EXCEPT !.regs = @ - 1]
FreeMany(a, n) == FoldLeft(LAMBDA b, i : Free(b), a, [i \in 1 .. n |-> i])

UseTemp(a) ==
  IF a.regs < NumTemps
    THEN [a EXCEPT !.regs = @ + 1, !.dest = Append(@, Temp(a.regs + 1)),
                   !.maxRegs = IF a.regs + 1 > @ THEN a.regs + 1 ELSE @]
    ELSE [a EXCEPT !.spills = @ + 1, !.dest = Append(@, <<"spill", a.spills + 1>>),
                   !.maxSpills = IF a.spills + 1 > @ THEN a.spills + 1 ELSE @]

Held(c, i) == i < Len(c) /\ Pushes(c[i]) /\ Consumes(c[i + 1]) = 0

\* The operand on top is in rax: it is not freed.
Freed(i) == IF Consumes(i) > 1 THEN Consumes(i) - 1 ELSE 0

Assign(c) ==
  FoldLeft(LAMBDA a, i :
             LET b == FreeMany(a, Freed(c[i]))
             IN  IF Held(c, i) THEN UseTemp(b) ELSE [b EXCEPT !.dest = Append(@, Rax)],
           [regs |-> 0, spills |-> 0, maxRegs |-> 0, maxSpills |-> 0, dest |-> <<>>],
           [i \in DOMAIN c |-> i])

---------------------------------------------------------------------------
(* The frame of the function (find_max_call_arg_size).                     *)

CallsOf(c) == {i \in DOMAIN c : c[i].op[1] = "call"}

\* Mutant: no room for the arguments that travel in registers.
OutgoingRest(c) ==
  Max({0} \cup {8 * (Len(c[i].args) - ArgRegs) : i \in CallsOf(c)})

Outgoing(c) == Max({0} \cup {8 * Len(c[i].args) : i \in CallsOf(c)})

\* A call makes the arguments leave their registers, and so does a division
\* in a function of two arguments or more.
Homed(f, c) ==
  CallsOf(c) # {} \/ (f.args >= 2 /\ \E i \in DOMAIN c : c[i].op[1] = "div")

FrameOf(f, c, a) ==
  [ args |-> f.args, argSize |-> f.size,
    locals |-> f.locals \o [i \in 1 .. a.maxSpills |-> [size |-> f.size, alignment |-> f.size]],
    outgoing |-> Outgoing(c), temps |-> a.maxRegs, homed |-> Homed(f, c) ]

ExprInit ==
  /\ func \in Functions
  /\ source = Source(func)
  /\ code = Optimized(Generated(func))
  /\ dest = Assign(code).dest
  /\ frame = FrameOf(func, code, Assign(code))
  /\ ip = 1 /\ opstack = <<>> /\ effects = <<>>
  /\ step = "locals" /\ placed = <<>> /\ k = 0
  /\ rsp = EntryRsp /\ rbp = CallerRbp
  /\ regs = [r \in Registers |-> CallerValue(r)]
  /\ mem = [a \in {EntryRsp} \cup {EntryRsp + 8 * i : i \in ArgRegs + 1 .. func.args} |->
              IF a = EntryRsp THEN [size |-> 8, val |-> ReturnAddress]
              ELSE [size |-> func.size, val |-> Leaf(Arg((a - EntryRsp) \div 8))]]

---------------------------------------------------------------------------
(* Machine operands (gen_operand): a register, a slot of the frame, the    *)
(* memory a register points to, an array of the frame, a literal.          *)

Opd(at, reg, off) == [at |-> at, reg |-> reg, off |-> off]
InReg(r)    == Opd("reg", r, 0)
InFrame(o)  == Opd("frame", Rax, o)
Behind(r)   == Opd("behind", r, 0)
Literal     == Opd("lit", Rax, 0)
ArrayOf(j)  == Opd("array", Rax, j)
IsReg(o) == o.at = "reg"
IsMem(o) == o.at \in {"frame", "behind", "array"}

\* is_const_reg: an argument's register is told by its 8-byte name only.
IsConstReg(o) == o.reg[1] = "arg" /\ func.size = 8

\* get_arg_destination and get_local_destination.
Direct(t) ==
  CASE t.op[1] = "arg" -> IF ~frame.homed /\ t.op[2] <= ArgRegs THEN InReg(t.op)
                          ELSE InFrame(FrameOffset(t.op[2]))
    [] t.op[1] = "local" -> InFrame(-placed[t.op[2]])
    [] t.op[1] = "array" -> ArrayOf(t.op[2])
    [] OTHER -> Literal

Dest == IF dest[ip][1] = "spill" THEN InFrame(-placed[Len(func.locals) + dest[ip][2]])
        ELSE InReg(dest[ip])

\* The machine's state is a record of its registers and memory, and of what
\* has changed the memory outside of the frame.
Now == [regs |-> regs, mem |-> mem, effects |-> effects]

Address(m, o) == IF o.at = "behind" THEN m.regs[o.reg] ELSE Leaf(<<"array", o.off>>)
Value(m, o) ==
  CASE o.at = "reg"    -> m.regs[o.reg]
    [] o.at = "frame"  -> Read(m.mem, rbp + o.off, func.size)
    [] o.at = "behind" -> LoadOf(m.regs[o.reg], Len(m.effects))
    [] OTHER -> Lit

Set(m, o, v) ==
  IF IsReg(o) THEN [m EXCEPT !.regs[o.reg] = v]
  ELSE [m EXCEPT !.mem = Write(@, rbp + o.off, func.size, v)]

\* move: memory to memory goes through r10.
Move(m, to, from) ==
  IF IsReg(to) \/ ~IsMem(from) THEN Set(m, to, Value(m, from))
  ELSE Set(Set(m, InReg(R10), Value(m, from)), to, Value(m, from))

---------------------------------------------------------------------------
(* The instructions: generate_ir_instr.                                    *)

At(op) == step = "body" /\ ip <= Len(code) /\ code[ip].op[1] = op
Args == code[ip].args

\* transform_ir_operand takes stack operands from the last one backwards.
Popped(i) == opstack[Len(opstack) - Len(SelectSeq(SubSeq(Args, i + 1, Len(Args)),
                                                  LAMBDA o : o = Pop))]
From(i)  == IF Args[i] = Pop THEN Popped(i).opd ELSE Direct(Args[i])
Meant(i) == IF Args[i] = Pop THEN Popped(i).meant ELSE Value(Now, Direct(Args[i]))
Kept == SubSeq(opstack, 1, Len(opstack) - Consumes(code[ip]))
Pushed(opd, meant) == [opd |-> opd, meant |-> meant]

Run(m) ==
  /\ regs' = m.regs /\ mem' = m.mem
  /\ ip' = ip + 1
  /\ UNCHANGED <<frame, step, placed, k, rsp, rbp, func, source, code, dest>>

Leaves(opd, meant) == opstack' = Append(Kept, Pushed(opd, meant))

Add ==
  /\ At("add")
  /\ LET a == From(1)
         acc == IF IsReg(a) /\ ~IsConstReg(a) THEN a ELSE InReg(R10)
         copied == Move(Now, acc, a)
         added == Set(copied, acc, Term(<<"add", 0>>, <<Value(copied, acc), Value(copied, From(2))>>))
     IN  Run(Move(added, Dest, acc))
  /\ Leaves(Dest, Term(<<"add", 0>>, <<Meant(1), Meant(2)>>))
  /\ UNCHANGED effects

\* The dividend goes to rax before the divisor is used.
Divide ==
  /\ At("div")
  /\ LET loaded == Move(Now, InReg(Rax), From(1))
         by == IF From(2) = Literal THEN InReg(R10) ELSE From(2)
         ready == IF From(2) = Literal THEN Move(loaded, by, Literal) ELSE loaded
         quotient == Term(<<"div", 0>>, <<Value(ready, InReg(Rax)), Value(ready, by)>>)
         divided == Set(Set(ready, InReg(Rax), quotient), InReg(Rdx), Junk)
     IN  Run(Move(divided, Dest, InReg(Rax)))
  /\ Leaves(Dest, Term(<<"div", 0>>, <<Meant(1), Meant(2)>>))
  /\ UNCHANGED effects

Negate ==
  /\ At("neg")
  /\ LET negated == Set(Now, InReg(Rax), Term(<<"neg", 0>>, <<Value(Now, From(1))>>))
     IN  Run(Move(negated, Dest, InReg(Rax)))
  /\ Leaves(Dest, Term(<<"neg", 0>>, <<Meant(1)>>))
  /\ UNCHANGED effects

\* A pointer in a register is used from there; one that went to the frame is
\* left as it is, and not as what it points to.
Deref ==
  /\ At("deref")
  /\ Run(Move(Now, Dest, From(1)))
  /\ Leaves(IF IsReg(Dest) THEN Behind(Dest.reg) ELSE Dest, LoadOf(Meant(1), Len(effects)))
  /\ UNCHANGED effects

MeantAddress(i) == IF Args[i] = Pop THEN AddressOf(Meant(i)) ELSE Args[i]

\* The address goes to a register.  When all the temporary registers are used
\* assert(!"ir_index: dest as memory not handled") ends the compiler.
Index ==
  /\ At("index")
  /\ IF IsReg(Dest)
       THEN LET scaled == Move(Now, InReg(R10), From(2))
            IN  /\ Run(Set(scaled, Dest,
                           ElementOf(Address(scaled, From(1)), Value(scaled, InReg(R10)))))
                /\ Leaves(Behind(Dest.reg), LoadOf(ElementOf(MeantAddress(1), Meant(2)), Len(effects)))
       ELSE /\ step' = "aborted"
            /\ UNCHANGED <<frame, placed, k, rsp, rbp, regs, mem,
                           func, source, code, dest, ip, opstack>>
  /\ UNCHANGED effects

Down(n) == [i \in 1 .. n |-> n + 1 - i]
Passes(m, i) ==
  IF i <= ArgRegs THEN Set(m, InReg(Arg(i)), Value(m, From(i)))
  ELSE [m EXCEPT !.mem = Write(@, rsp + 8 * (i - 1), func.size, Value(m, From(i)))]

\* What a callee may overwrite: the scratch registers, and its arguments' homes.
Called(m, n, result) ==
  [ regs |-> [r \in Registers |-> CASE r = Rax -> result
                                    [] r[1] = "temp" -> m.regs[r]
                                    [] OTHER -> Junk],
    mem |-> [a \in {b \in DOMAIN m.mem : b >= rsp + 8 * n} |-> m.mem[a]] ]

Call ==
  /\ At("call")
  /\ LET n == Len(Args)
         passed == FoldLeft(Passes, Now, Down(n))
         result == Term(code[ip].op,
                        [i \in 1 .. n |-> IF i <= ArgRegs THEN passed.regs[Arg(i)]
                                          ELSE Read(passed.mem, rsp + 8 * (i - 1), func.size)])
     IN  /\ effects' = Append(effects, result)
         /\ Run(Move(Called(passed, n, result), Dest, InReg(Rax)))
  /\ Leaves(Dest, Term(code[ip].op, [i \in DOMAIN Args |-> Meant(i)]))

\* ir_load: assignment to a local, or to memory behind a register.
Load ==
  /\ At("load")
  /\ LET b == From(2)
         from == IF IsReg(b) THEN b ELSE InReg(R10)
         loaded == Move(Now, from, b)
     IN  IF From(1).at = "behind"
           THEN /\ effects' = Append(effects, Term(<<"put", 0>>,
                                        <<Address(loaded, From(1)), Value(loaded, from)>>))
                /\ Run(loaded)
           ELSE /\ UNCHANGED effects
                /\ Run(Move(loaded, From(1), from))
  /\ opstack' = Kept

Duplicate ==
  /\ At("dup")
  /\ Run(Now)
  /\ opstack' = Append(opstack, Last(opstack))
  /\ UNCHANGED effects

Discard ==
  /\ At("noop")
  /\ Run(Now) /\ opstack' = Kept
  /\ UNCHANGED effects

ReturnValue ==
  /\ At("return")
  /\ Run(Move(Now, InReg(Rax), From(1))) /\ opstack' = Kept
  /\ UNCHANGED effects

Instruction == \/ Add \/ Divide \/ Negate \/ Deref \/ Index \/ Call
               \/ Load \/ Duplicate \/ Discard \/ ReturnValue

FrameCode == /\ \/ Prologue
                \/ Release /\ ip > Len(code)
                \/ Epilogue
             /\ UNCHANGED <<func, source, code, dest, ip, opstack, effects>>

ExprNext == FrameCode \/ Instruction
ExprSpec == ExprInit /\ [][ExprNext]_vars /\ WF_vars(ExprNext)

---------------------------------------------------------------------------
(* Properties *)

\* The code makes the calls and stores of the source, in its order and with
\* its values, and leaves the source's result in rax.
ComputesSource ==
  /\ IsPrefix(effects, source.effects)
  /\ step = "returned" => /\ effects = source.effects
                          /\ source.result \in {Junk, regs[Rax]}

\* ir.cc:1-5 describes the IR as that of a stack machine: until an operand is
\* taken from the stack it has the value that was pushed, and one that is a
\* place in memory is still that place.
OperandsHold ==
  \A i \in DOMAIN opstack :
    LET o == opstack[i]
    IN  IF o.opd.at = "behind" THEN regs[o.opd.reg] = AddressOf(o.meant)
        ELSE Value(Now, o.opd) = o.meant

\* The code of every function is that of a frame in which the body keeps to
\* its own slots and registers.
ImplementsFrame == Spec
=============================================================================
