----------------------------- MODULE MCExprCode -----------------------------
(***************************************************************************)
(* Functions of two integer arguments (or none), an integer local, a small *)
(* one and an array; the temporaries are few enough to run out.            *)
(***************************************************************************)
EXTENDS ExprCode

A(i) == Leaf(Arg(i))
V == Leaf(<<"local", 1>>)
Array == Leaf(<<"array", 3>>)

Node(name, args) == Term(<<name, 0>>, args)
Binary(name, S, T) == {Node(name, <<a, b>>) : a \in S, b \in T}
Unary(name, S) == {Node(name, <<a>>) : a \in S}
Element(S) == {Node("index", <<Array, a>>) : a \in S}

Over(S, T) ==
  Binary("add", S, T) \cup Binary("call", S, T) \cup Binary("div", S, {A(1), Lit})
    \cup Unary("neg", S) \cup Unary("deref", S) \cup Element(S)

Simple   == Over({A(1), V}, {A(2)})
Nested   == Over(Simple, Simple \cup {A(2)}) \cup Over({A(1)}, Simple)
               \cup {Node("index", <<Node("deref", <<a>>), b>>) : a \in {A(2), V}, b \in Simple}

\* Sums and calls whose operands are all pending at once.
Terms == {Node("neg", <<A(1)>>), Node("add", <<A(2), V>>), Node("deref", <<V>>),
          Node("index", <<Array, A(2)>>)}
Chains == {Node("add", <<a, Node("add", <<b, Node("add", <<c, A(2)>>)>>)>>) :
             a \in Terms, b \in Terms, c \in Terms}
     \cup {Node("call", <<a, b, c>>) : a \in Terms, b \in Terms, c \in Terms}
     \cup {Node("call", <<a, Node("add", <<b, c>>), Node("neg", <<A(2)>>)>>) :
             a \in Terms, b \in Terms, c \in Terms}
     \cup {Node("add", <<a, Node("add", <<Node("call", <<>>), a>>)>>) : a \in Terms}

Set1(e) == [do |-> "set", to |-> V, e |-> e]
Put(e, f) == [do |-> "put", to |-> e, e |-> f]
Eval(e) == [do |-> "eval", e |-> e]
Ret(e) == [do |-> "return", e |-> e]
Defer(s) == [do |-> "defer", stmt |-> s]

\* What may be deferred.
Late == {Set1(A(2)), Set1(Node("neg", <<A(1)>>)), Eval(Node("call", <<A(2), V>>)),
         Eval(Node("call", <<A(2), Node("neg", <<V>>)>>)),
         Put(Node("deref", <<A(1)>>), Node("add", <<V, Lit>>))}

Fn(args, size, body) ==
  [ args |-> args, size |-> size, body |-> body,
    locals |-> <<[size |-> size, alignment |-> size], [size |-> 1, alignment |-> 1],
                 [size |-> 24, alignment |-> 8]>> ]
Bodies ==
     {<<Set1(A(1)), Ret(e)>> : e \in Nested \cup Chains}
\cup {<<Set1(e), Eval(f), Ret(V)>> : e \in Simple, f \in Simple}
\cup {<<Set1(A(1)), Defer(s), Defer(t), Ret(e)>> : s \in Late, t \in Late, e \in Simple \cup {V, A(2)}}
\cup {<<Set1(A(1)), Defer(s), Eval(e)>> : s \in Late, e \in Simple}
\cup {<<Set1(A(2)), Put(e, f)>> : e \in Element(Simple) \cup Unary("deref", {A(1), V}), f \in Simple}

Node0 == Node("call", <<>>)
Bare ==
  {[args |-> 0, size |-> 8, locals |-> <<>>, body |-> <<Ret(e)>>] :
     e \in {Lit, Node0, Node("neg", <<Node0>>), Node("add", <<Node0, Node0>>),
            Node("call", <<Node0>>), Node("call", <<Lit, Lit, Lit>>)}}

\* What is left out of the passing run: see README.md.
\* A narrow argument, in its register, is added to and read again.
InPlaceArgument(f, c) ==
  /\ f.size < 8 /\ ~Homed(f, c)
  /\ \E i, j \in DOMAIN c : LET a == c[i].args[1]
                           IN  i < j /\ c[i].op[1] = "add" /\ a.op[1] = "arg" /\ a.op[2] <= ArgRegs
                                 /\ a \in ToSet(c[j].args)
\* The divisor is the result of the instruction before.
DivisorOnStack(c) == \E i \in DOMAIN c : c[i].op[1] = "div" /\ c[i].args[2] = Pop
SharedRegister(c) ==
  \E i \in 2 .. Len(c) : c[i].op[1] = "dup" /\ c[i - 1].op[1] \in {"add", "neg"}
AddressSpilled(c) ==
  \E i \in DOMAIN c : c[i].op[1] \in {"deref", "index"} /\ Assign(c).dest[i][1] = "spill"

\* A return names a local that a defer assigns.
ReturnReadLate(f) ==
  \E i \in DOMAIN f.body : \E j \in 1 .. i - 1 :
    /\ f.body[i].do = "return" /\ f.body[j].do = "defer"
    /\ f.body[j].stmt.do = "set" /\ f.body[j].stmt.to = f.body[i].e

\* An operand read through a pointer is taken after a call or another store.
Changes(i) == i.op[1] = "call" \/ (i.op[1] = "load" /\ i.args[1] = Pop)
Reads(i) == Consumes(i) - IF i.op[1] \in {"load", "index"} /\ i.args[1] = Pop THEN 1 ELSE 0
MemoryReadLate(c) ==
  LET Taken(s, n) == SubSeq(s, Len(s) - n + 1, Len(s))
      Follow(s, j) ==
        LET kept == SubSeq(s.left, 1, Len(s.left) - Consumes(c[j]))
        IN  [left |-> IF ~Pushes(c[j]) THEN kept
                      ELSE Append(kept, IF c[j].op[1] = "dup" THEN Last(s.left) ELSE j),
             late |-> s.late \/ \E i \in ToSet(Taken(s.left, Reads(c[j]))) :
                        c[i].op[1] \in {"deref", "index"} /\ \E m \in i + 1 .. j - 1 : Changes(c[m])]
  IN  FoldLeft(Follow, [left |-> <<>>, late |-> FALSE], [j \in DOMAIN c |-> j]).late

\* A computation is repeated after a defer has assigned what it reads.
StaleDuplicate(c) ==
  \E i, j \in DOMAIN c : i < j /\ c[i] = c[j] /\ Replaced(c, j)
    /\ \E m \in i + 1 .. j - 1 : c[m].op[1] = "load" /\ c[m].args[1] \in ToSet(c[i].args)

PlainCode(f, c) == ~InPlaceArgument(f, c) /\ ~ReturnReadLate(f) /\ ~DivisorOnStack(c)
                     /\ ~SharedRegister(c) /\ ~AddressSpilled(c) /\ ~MemoryReadLate(c)

PlainFunctions ==
  {f \in Bare \cup {Fn(2, size, b) : size \in {4, 8}, b \in Bodies} :
     PlainCode(f, Optimized(Generated(f))) /\ ~StaleDuplicate(Generated(f))}
=============================================================================
