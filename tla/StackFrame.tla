----------------------------- MODULE StackFrame -----------------------------
(***************************************************************************)
(* The stack frame of a function (codegen_x64.cc): how its locals are      *)
(* placed, the prologue, what the body may do, the epilogue.  The frame is *)
(* a record of the sizes the code generator lays it out from.              *)
(*                                                                         *)
(* Memory holds cells: an address, a size and a value.  A store destroys   *)
(* every cell it overlaps, so a slot placed over another one shows.  The   *)
(* stack grows down from EntryRsp, where the caller's CALL has put the     *)
(* return address.                                                         *)
(***************************************************************************)
EXTENDS Alignment, Sequences

CONSTANTS ArgRegs,      \* how many arguments travel in registers
          NumTemps,     \* how many callee-saved registers hold temporaries
          EntryRsp,     \* the stack pointer when the function is entered
          CallerRbp     \* the caller's rbp

ASSUME StackAssumption ==
  /\ ArgRegs \in Nat /\ NumTemps \in Nat
  /\ EntryRsp \in Int /\ EntryRsp % 16 = 8
  /\ CallerRbp \in Int

VARIABLES frame,        \* the function, a record of FrameType
          step,         \* where the function's code is
          placed,       \* -frame_offset of the locals placed so far
          k,            \* the counter of the loops of prologue and epilogue
          rsp, rbp,
          regs,         \* the other registers
          mem           \* the cells of the stack

frameVars == <<frame, step, placed, k, rsp, rbp, regs, mem>>

LocalType == [size : Nat, alignment : {1, 2, 4, 8, 16}]
FrameType ==
  [ args : Nat, argSize : 1 .. 8,
    locals   : Seq(LocalType),
    outgoing : Nat,             \* bytes for the arguments of its calls
    temps    : 0 .. NumTemps,   \* the temporaries it uses
    homed    : BOOLEAN ]        \* calls_ever_made: arguments are stored

---------------------------------------------------------------------------
(* Values, registers and memory.                                           *)

Term(op, of) == [op |-> op, of |-> of]
Leaf(op) == Term(op, <<>>)
Junk == Leaf(<<"junk", 0>>)
ReturnAddress == Leaf(<<"return address", 0>>)
AddressTerm(a) == Leaf(<<"address", a>>)

Rax == <<"rax", 0>>
Rdx == <<"rdx", 0>>
R10 == <<"r10", 0>>
Temp(i) == <<"temp", i>>
Arg(i)  == <<"arg", i>>
Registers == {Rax, Rdx, R10} \cup {Temp(i) : i \in 1 .. NumTemps}
                              \cup {Arg(i) : i \in 1 .. ArgRegs}

\* What the caller keeps in a callee-saved register, and passes in an
\* argument's register: values named by the register.
CallerValue(r) == Leaf(r)

Disjoint(a, n, b, m) == a + n <= b \/ b + m <= a \/ m = 0

Read(m, a, n) == IF a \in DOMAIN m /\ m[a].size = n THEN m[a].val ELSE Junk

Write(m, a, n, v) ==
  [x \in {y \in DOMAIN m : Disjoint(y, m[y].size, a, n)} \cup {a} |->
     IF x = a THEN [size |-> n, val |-> v] ELSE m[x]]

---------------------------------------------------------------------------
(* The layout: get_func_stack_frame_size and generate_func_code.           *)

LocalSize == IF placed = <<>> THEN 0 ELSE placed[Len(placed)]
NextLocal == frame.locals[Len(placed) + 1]

SlotAlignment(l) == IF l.size > 8 THEN 16 ELSE l.alignment

\* Mutant: a local is aligned before its size is added, not after.
PlaceBefore == Align(LocalSize, NextLocal.alignment) + NextLocal.size

PlaceAt ==
  Align(LocalSize + NextLocal.size, SlotAlignment(NextLocal))


\* Mutant: the room for arguments is not rounded up.
OutAreaExact == frame.outgoing

OutArea   == Align(frame.outgoing, 16)
StackSize == Align(LocalSize, 16) + OutArea
NeedsRbp  == ~(StackSize = 0 /\ frame.args = 0)
NumPushes == frame.temps + (IF NeedsRbp THEN 1 ELSE 0)
Pad == IF NumPushes % 2 = 0 THEN 8 ELSE 0

Smaller(a, b) == IF a < b THEN a ELSE b
Homes == IF frame.homed THEN Smaller(ArgRegs, frame.args) ELSE 0

\* Mutant: the padding under the saved registers is left out.
FrameOffsetUnpadded(i) == 8 * i + 8 * frame.temps + (IF NeedsRbp THEN 8 ELSE 0)

\* arg_data[i].frame_offset once the prologue has moved rsp, and where the
\* prologue itself stores the argument.
FrameOffset(i) == 8 * i + 8 * frame.temps + Pad + (IF NeedsRbp THEN 8 ELSE 0)
HomeOffset(i)  == 8 * i

HomeAddress(i)  == rbp + FrameOffset(i)
LocalAddress(j) == rbp - placed[j]

---------------------------------------------------------------------------
(* The function's code.                                                    *)

Init ==
  /\ frame \in FrameType
  /\ step = "locals" /\ placed = <<>> /\ k = 0
  /\ rsp = EntryRsp /\ rbp = CallerRbp
  /\ regs = [r \in Registers |-> CallerValue(r)]
  /\ EntryRsp \in DOMAIN mem
  /\ mem[EntryRsp] = [size |-> 8, val |-> ReturnAddress]

PlaceLocal ==
  /\ step = "locals" /\ Len(placed) < Len(frame.locals)
  /\ placed' = Append(placed, PlaceAt)
  /\ UNCHANGED <<frame, step, k, rsp, rbp, regs, mem>>

BeginHomes ==
  /\ step = "locals" /\ Len(placed) = Len(frame.locals)
  /\ step' = "homes" /\ k' = Homes
  /\ UNCHANGED <<frame, placed, rsp, rbp, regs, mem>>

HomeArgument ==
  /\ step = "homes" /\ k > 0
  /\ mem' = Write(mem, rsp + HomeOffset(k), frame.argSize, regs[Arg(k)])
  /\ k' = k - 1
  /\ UNCHANGED <<frame, step, placed, rsp, rbp, regs>>

PushRbp ==
  /\ step = "homes" /\ k = 0
  /\ step' = "saves"
  /\ IF NeedsRbp
       THEN /\ rsp' = rsp - 8
            /\ mem' = Write(mem, rsp - 8, 8, AddressTerm(rbp))
       ELSE UNCHANGED <<rsp, mem>>
  /\ UNCHANGED <<frame, placed, k, rbp, regs>>

PushTemp ==
  /\ step = "saves" /\ k < frame.temps
  /\ rsp' = rsp - 8
  /\ mem' = Write(mem, rsp - 8, 8, regs[Temp(k + 1)])
  /\ k' = k + 1
  /\ UNCHANGED <<frame, step, placed, rbp, regs>>

\* Mutant: rsp is not padded, only what the epilogue gives back is.
ReserveUnpadded ==
  /\ step = "saves" /\ k = frame.temps
  /\ rbp' = IF NeedsRbp THEN rsp ELSE rbp
  /\ rsp' = rsp - StackSize
  /\ step' = "body"
  /\ UNCHANGED <<frame, placed, k, regs, mem>>

Reserve ==
  /\ step = "saves" /\ k = frame.temps
  /\ rbp' = IF NeedsRbp THEN rsp - Pad ELSE rbp
  /\ rsp' = rsp - Pad - StackSize
  /\ step' = "body"
  /\ UNCHANGED <<frame, placed, k, regs, mem>>

\* What the body may do: change the registers it may use and the cells of its
\* locals, of its arguments and of the calls it makes.  rsp and rbp stay.
Keeps(a, n) ==
  /\ rsp + frame.outgoing <= a
  /\ \A j \in DOMAIN placed :
       Disjoint(a, n, LocalAddress(j), frame.locals[j].size)
  /\ \A i \in 1 .. frame.args : Disjoint(a, n, HomeAddress(i), frame.argSize)

Body ==
  /\ step = "body"
  /\ regs' = [r \in Registers |-> regs'[r]]
  /\ \A i \in frame.temps + 1 .. NumTemps : regs'[Temp(i)] = regs[Temp(i)]
  /\ \A a \in DOMAIN mem :
       Keeps(a, mem[a].size) => a \in DOMAIN mem' /\ mem'[a] = mem[a]
  /\ UNCHANGED <<frame, step, placed, k, rsp, rbp>>

Release ==
  /\ step = "body"
  /\ rsp' = rsp + StackSize + Pad
  /\ step' = "restores"
  /\ UNCHANGED <<frame, placed, k, rbp, regs, mem>>

PopTemp ==
  /\ step = "restores" /\ k > 0
  /\ regs' = [regs EXCEPT ![Temp(k)] = Read(mem, rsp, 8)]
  /\ rsp' = rsp + 8
  /\ k' = k - 1
  /\ UNCHANGED <<frame, step, placed, rbp, mem>>

PopRbp ==
  /\ step = "restores" /\ k = 0
  /\ IF NeedsRbp
       THEN rbp' = Read(mem, rsp, 8).op[2] /\ rsp' = rsp + 8
       ELSE UNCHANGED <<rbp, rsp>>
  /\ step' = "leaving"
  /\ UNCHANGED <<frame, placed, k, regs, mem>>

Return ==
  /\ step = "leaving"
  /\ step' = IF Read(mem, rsp, 8) = ReturnAddress THEN "returned" ELSE "lost"
  /\ rsp' = rsp + 8
  /\ UNCHANGED <<frame, placed, k, rbp, regs, mem>>

Prologue == \/ PlaceLocal \/ BeginHomes \/ HomeArgument
            \/ PushRbp \/ PushTemp \/ Reserve
Epilogue == PopTemp \/ PopRbp \/ Return
Next == Prologue \/ Body \/ Release \/ Epilogue

Spec == Init /\ [][Next]_frameVars

---------------------------------------------------------------------------
(* Properties *)

\* Whatever the body stores, the function returns to its caller with the
\* stack pointer, rbp and the callee-saved registers as they were
\* (generate_func_code's prologue and epilogue).
RestoresCaller ==
  step \in {"returned", "lost"} =>
    /\ step = "returned"
    /\ rsp = EntryRsp + 8 /\ rbp = CallerRbp
    /\ \A i \in 1 .. NumTemps : regs[Temp(i)] = CallerValue(Temp(i))

\* In the body the stack is aligned for the calls it makes, and rbp for the
\* 16-byte loads of aggregates (cmp_aggregate_16).
StackAligned ==
  step = "body" => rsp % 16 = 0 /\ (NeedsRbp => rbp % 16 = 0)

\* Every local that has a size has its own bytes, aligned, between the arguments of calls and
\* the saved registers.
LocalsApart ==
  step = "body" =>
    \A j \in {i \in DOMAIN placed : frame.locals[i].size > 0} :
      LET l == frame.locals[j] IN
      /\ LocalAddress(j) % SlotAlignment(l) = 0
      /\ rsp + frame.outgoing <= LocalAddress(j)
      /\ LocalAddress(j) + l.size <= rbp
      /\ \A i \in 1 .. j - 1 :
           Disjoint(LocalAddress(i), frame.locals[i].size, LocalAddress(j), l.size)

\* The body looks for its arguments where the prologue, and the caller for
\* those that do not fit the registers, have stored them.
ArgumentsFound ==
  step = "body" => \A i \in 1 .. frame.args : HomeAddress(i) = EntryRsp + 8 * i
=============================================================================
