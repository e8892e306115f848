-------------------------- MODULE FuncDecls_proofs --------------------------
(***************************************************************************)
(* Theorems about functions and calls, for every set of files and every    *)
(* bound on walks and nesting.                                             *)
(***************************************************************************)
EXTENDS FuncDeclsSpec, FiniteSetTheorems, WellFoundedInduction, TLAPS

Walks == {"register", "resolve", "check"}

Frames == [f : Nat, s : Nat \ {0}, tried : Nat, generated : BOOLEAN]

-----------------------------------------------------------------------------
(* The inductive invariant, in parts.                                      *)

GoodArg(a, f) ==
  /\ a.lit => a.t \in Types
  /\ ~ a.lit => a.v \in DOMAIN f.params
  /\ a.cast => a.t \in Types

GoodStatement(st, f) ==
  /\ st.fn = NoFunc => st.ret
  /\ \A i \in DOMAIN st.args : GoodArg(st.args[i], f)

GoodFunction(f) ==
  /\ IsGeneric(f) => Parsed(f)
  /\ f.typed <=> f.result # NoType
  /\ \A s \in DOMAIN f.body : GoodStatement(f.body[s], f)

FunctionsInv == funcs \in Seq(Function) /\ \A i \in DOMAIN funcs : GoodFunction(funcs[i])

Placed == {order[k] : k \in DOMAIN order}

TablesInv ==
  /\ order \in Seq(DOMAIN funcs)
  /\ bases \subseteq Names
  /\ overloads \in [Names -> Seq(DOMAIN funcs)]
  /\ \A n \in Names : \A k \in DOMAIN overloads[n] :
       LET g == overloads[n][k] IN funcs[g].typed /\ funcs[g].name = n /\ g \in Placed
  /\ generics \in [Names -> Seq(DOMAIN funcs)]
  /\ \A n \in Names : \A k \in DOMAIN generics[n] :
       IsGeneric(funcs[generics[n][k]]) /\ funcs[generics[n][k]].name = n
  /\ \A k \in DOMAIN symbols :
       LET g == symbols[k]
       IN g \in DOMAIN funcs /\ funcs[g].typed /\ Signature(funcs[g]) = k /\ g \in Placed

WalkInv ==
  /\ pass \in Walks \cup Ended
  /\ sub \in 0 .. PassLimit /\ next \in Nat \ {0}
  /\ unresolved \in BOOLEAN
  /\ errors \subseteq DOMAIN funcs

(* A frame below another waits for the copy its call asked for; a call     *)
(* that is being searched for has no type yet.                             *)
StackInv ==
  /\ stack \in Seq(Frames) /\ Len(stack) <= MaxNesting
  /\ \A k \in DOMAIN stack :
       /\ stack[k].f \in DOMAIN funcs /\ ~ IsGeneric(funcs[stack[k].f])
       /\ stack[k].generated <=> k > 1
       /\ stack[k].s <= Len(funcs[stack[k].f].body) + 1
       /\ k < Len(stack) \/ stack[k].tried > 0 =>
            /\ stack[k].s <= Len(funcs[stack[k].f].body)
            /\ funcs[stack[k].f].body[stack[k].s].fn # NoFunc
            /\ funcs[stack[k].f].body[stack[k].s].t = NoType
       /\ \A j \in DOMAIN stack : j # k => stack[j].f # stack[k].f
  /\ stack # <<>> => pass \in Walks /\ next <= Len(order) /\ stack[1].f = order[next]

TypeInv == FunctionsInv /\ TablesInv /\ WalkInv /\ StackInv

(* A call that has a type agrees with the function it calls.               *)
Agrees(st, fs, placed) ==
  /\ st.callee \in DOMAIN fs /\ st.callee \in placed
  /\ LET g == fs[st.callee] IN
     /\ g.typed /\ g.name = st.fn /\ st.t = g.result
     /\ Len(st.args) = Len(g.params)
     /\ \A k \in DOMAIN st.args : Passes(st.args[k].t, g.params[k])

(* The arguments have the types the next visit would give them.            *)
ArgsTyped(st, f) ==
  \A k \in DOMAIN st.args :
    LET a == st.args[k] IN a.lit \/ a.cast \/ a.t = f.params[a.v]

CallInv ==
  \A i \in DOMAIN funcs : \A s \in DOMAIN funcs[i].body :
    LET st == funcs[i].body[s] IN
    st.fn # NoFunc /\ st.t # NoType => Agrees(st, funcs, Placed) /\ ArgsTyped(st, funcs[i])

(* A call that waits for a copy is what the copy was made for.             *)
WaitsFor(st, g, fs) ==
  /\ g.name = st.fn /\ g.params = TypesOf(st.args)
  /\ \E h \in DOMAIN fs : IsGeneric(fs[h]) /\ fs[h].name = st.fn

WaitingInv ==
  \A k \in DOMAIN stack : k < Len(stack) =>
    LET f == funcs[stack[k].f]
        st == f.body[stack[k].s]
    IN WaitsFor(st, funcs[stack[k + 1].f], funcs) /\ ArgsTyped(st, f)

(* While no error is reported, the last walk leaves no statement untyped.  *)
TypedTo(f, n) == \A s \in DOMAIN f.body : s <= n => f.body[s].t # NoType

CheckInv ==
  /\ pass = "accepted" => errors = {}
  /\ pass \in {"check", "accepted"} /\ errors = {} =>
       /\ \A k \in DOMAIN order :
            /\ k < next \/ pass = "accepted"
            /\ ~ IsGeneric(funcs[order[k]])
            => TypedTo(funcs[order[k]], Len(funcs[order[k]].body))
       /\ \A k \in DOMAIN stack : TypedTo(funcs[stack[k].f], stack[k].s - 1)

CallsInv == CallInv /\ WaitingInv /\ CheckInv

-----------------------------------------------------------------------------
(* Types and attempts.                                                     *)

(* A value goes where its own type is wanted, as it is.                    *)
LEMMA AssignableItself ==
  ASSUME NEW t \in Types
  PROVE  Assignable(t, t)
<1> DEFINE P == AssignableBy(AssignableBy(AssignableBy({})))
<1>1. Assignments = AssignableBy(P)  BY DEF Assignments
<1> HIDE DEF P
<1>2. <<t, t>> \in AssignableBy(P)  BY DEF AssignableBy, Goes
<1> QED  BY <1>1, <1>2 DEF Assignable

LEMMA SameTypePasses ==
  ASSUME NEW t \in Types
  PROVE  Convertible(t, t) /\ ~ NeedsCast(t, t) /\ Passes(t, t)
<1>1. Assignable(t, t)  BY AssignableItself
<1> QED  BY <1>1 DEF Convertible, ImplicitConversions, NeedsCast, Passes

(* What toptr_cast makes of an argument points to it.                      *)
LEMMA AddressIsPointer ==
  ASSUME NEW a \in Arg, a.t \in Types, NEW to \in Types, AddressFits(a, to)
  PROVE  PtrTo(a.t) \in Types /\ IsPtrTo(PtrTo(a.t), a.t)
<1>1. Kind(to) = "ptr"  BY DEF AddressFits
<1>2. a.t = TypeDef[to].elem \/ (TypeDef[TypeDef[to].elem].pure /\ a.t = TypeDef[TypeDef[to].elem].elem)
  BY DEF AddressFits
<1>3. \E q \in Types : IsPtrTo(q, a.t)  BY <1>1, <1>2, PointersAssumption
<1> QED  BY <1>3 DEF PtrTo

(* A pointer goes where any type of pointer to the same type is wanted.    *)
LEMMA PointerPasses ==
  ASSUME NEW p \in Types, NEW to \in Types, NEW t \in Types,
         IsPtrTo(p, t), Kind(to) = "ptr", TypeDef[to].elem = t
  PROVE  Passes(p, to)
<1> DEFINE Q == AssignableBy(AssignableBy({}))
           P == AssignableBy(Q)
<1>1. Assignments = AssignableBy(P)  BY DEF Assignments
<1>2. <<t, t>> \in P
  <2> HIDE DEF Q
  <2> QED  BY DEF AssignableBy, Goes
<1> HIDE DEF P
<1>3. TypeDef[p].kind = "ptr" /\ TypeDef[to].kind = "ptr" /\ TypeDef[p].elem = t
  BY DEF IsPtrTo, Kind
<1>4. <<p, to>> \in AssignableBy(P)  BY <1>2, <1>3 DEF AssignableBy, Goes
<1>5. Assignable(p, to)  BY <1>1, <1>4 DEF Assignable
<1> QED  BY <1>5 DEF Convertible, ImplicitConversions, NeedsCast, Passes

(* nil goes where a pointer or an aggregate is wanted as it is, and no     *)
(* value goes by size where nil is wanted.                                 *)
LEMMA NilConversions ==
  ASSUME NEW t \in Types
  PROVE  /\ Kind(t) = "ptr" => Convertible("nil", t)
         /\ Convertible("nil", t) => ~ NeedsCast("nil", t)
         /\ Convertible(t, "nil") => ~ NeedsCast(t, "nil")
<1>1. "nil" \in Types /\ TypeDef["nil"].kind = "nil" /\ AliasRoot("nil") = "nil"
  BY FuncDeclsAssumption, NilAssumption DEF Kind, AliasRoot
<1>2. ASSUME Kind(t) = "ptr"  PROVE Convertible("nil", t)
  <2> DEFINE P == AssignableBy(AssignableBy(AssignableBy({})))
  <2>1. Assignments = AssignableBy(P)  BY DEF Assignments
  <2> HIDE DEF P
  <2>2. <<"nil", t>> \in AssignableBy(P)  BY <1>1, <1>2 DEF AssignableBy, Goes, Kind
  <2>3. Assignable("nil", t)  BY <2>1, <2>2 DEF Assignable
  <2> QED  BY <1>1, <2>3 DEF Convertible, ImplicitConversions
<1>3. ~ ConvertsBySize("nil", t)  BY <1>1 DEF ConvertsBySize
<1>4. ~ ConvertsBySize(t, "nil")  BY <1>1 DEF ConvertsBySize
<1>5. \A a, b \in Types : Convertible(a, b) => Assignable(a, b) \/ ConvertsBySize(a, b)
  BY DEF Convertible, ImplicitConversions
<1>6. Convertible("nil", t) => ~ NeedsCast("nil", t)  BY <1>1, <1>3, <1>5 DEF NeedsCast
<1>7. Convertible(t, "nil") => ~ NeedsCast(t, "nil")  BY <1>1, <1>4, <1>5 DEF NeedsCast
<1> QED  BY <1>2, <1>6, <1>7

LEMMA CoerceFacts ==
  ASSUME NEW a \in Arg, a.t \in Types, NEW to \in Types
  PROVE  /\ Coerced(a, to) \in Arg
         /\ Coerced(a, to).lit = a.lit /\ Coerced(a, to).v = a.v /\ Coerced(a, to).cast = a.cast
         /\ Coerced(a, to).t \in Types
         /\ ~ a.lit \/ a.cast => Coerced(a, to) = a
         /\ Coerced(a, to).t = "nil" <=> a.t = "nil"
<1>1. Coerced(a, to) = a
      \/ (a.lit /\ ~ a.cast /\ Coercible(a.v, a.t, to) /\ Coerced(a, to) = [a EXCEPT !.t = to])
  BY DEF Coerced
<1>2. CASE Coerced(a, to) = a  BY <1>2
<1>3. CASE /\ a.lit /\ ~ a.cast /\ Coercible(a.v, a.t, to)
           /\ Coerced(a, to) = [a EXCEPT !.t = to]
  <2>1. to # "nil" /\ a.t # "nil"  BY <1>3, NilAssumption DEF Coercible
  <2> QED  BY <1>3, <2>1 DEF Arg
<1> QED  BY <1>1, <1>2, <1>3

LEMMA CastFacts ==
  ASSUME NEW a \in Arg, a.t \in Types, NEW to \in Types, Fits(a, to)
  PROVE  /\ CastTo(a, to) \in Arg
         /\ CastTo(a, to).lit = a.lit /\ CastTo(a, to).v = a.v
         /\ CastTo(a, to).t \in Types
         /\ a.cast => CastTo(a, to).cast
         /\ ~ CastTo(a, to).cast => CastTo(a, to).t = a.t
         /\ Passes(CastTo(a, to).t, to)
         /\ CastTo(a, to).t = "nil" <=> a.t = "nil"
<1>1. CASE Convertible(a.t, to) /\ ~ NeedsCast(a.t, to)
  BY <1>1 DEF CastTo, Passes
<1>2. CASE Convertible(a.t, to) /\ NeedsCast(a.t, to)
  <2>1. CastTo(a, to) = [a EXCEPT !.t = to, !.cast = TRUE]  BY <1>2 DEF CastTo
  <2>2. a.t # "nil" /\ to # "nil"  BY <1>2, NilConversions
  <2> QED  BY <2>1, <2>2, SameTypePasses DEF Arg
<1>3. CASE ~ Convertible(a.t, to)
  <2>1. AddressFits(a, to)  BY <1>3 DEF Fits
  <2>2. PtrTo(a.t) \in Types /\ IsPtrTo(PtrTo(a.t), a.t)  BY <2>1, AddressIsPointer
  <2>3. Kind(to) = "ptr"  BY <2>1 DEF AddressFits
  <2>4. TypeDef[to].elem = a.t \/ (TypeDef[TypeDef[to].elem].pure /\ TypeDef[TypeDef[to].elem].elem = a.t)
    BY <2>1 DEF AddressFits
  <2>5. Passes(PtrTo(a.t), to)
    <3>1. CASE TypeDef[to].elem = a.t  BY <3>1, <2>2, <2>3, PointerPasses
    <3>2. CASE TypeDef[TypeDef[to].elem].pure /\ TypeDef[TypeDef[to].elem].elem = a.t
      BY <3>2, <2>2, <2>3 DEF Passes
    <3> QED  BY <3>1, <3>2, <2>4
  <2>6. CastTo(a, to) = [a EXCEPT !.t = PtrTo(a.t), !.cast = TRUE]  BY <1>3, <2>1 DEF CastTo
  <2>7. a.t # "nil"  BY <1>3, <2>3, NilConversions
  <2>8. PtrTo(a.t) # "nil"  BY <2>2, NilAssumption DEF IsPtrTo
  <2> QED  BY <2>2, <2>5, <2>6, <2>7, <2>8 DEF Arg
<1> QED  BY <1>1, <1>2, <1>3

(* An argument against a parameter: what the attempt leaves of it, and     *)
(* what is passed when all the arguments fit.                              *)
KeepsArg(a, b) ==
  /\ b \in Arg /\ b.lit = a.lit /\ b.v = a.v /\ b.t \in Types
  /\ a.cast => b.cast
  /\ ~ a.lit /\ ~ b.cast => b.t = a.t
  /\ b.t = "nil" <=> a.t = "nil"

LEMMA AttemptFacts ==
  ASSUME NEW a \in Arg, a.t \in Types, NEW to \in Types \cup {Untyped}
  PROVE  /\ KeepsArg(a, Attempt(a, to).left) /\ KeepsArg(a, Attempt(a, to).passed)
         /\ Attempt(a, to).left.cast = a.cast
         /\ Attempt(a, to).fits /\ to # Untyped => Passes(Attempt(a, to).passed.t, to)
         /\ to = Untyped => Attempt(a, to).passed = a
<1>1. CASE to = Untyped
  <2>1. Attempt(a, to) = [left |-> a, fits |-> TRUE, passed |-> a]  BY <1>1 DEF Attempt
  <2> QED  BY <1>1, <2>1 DEF KeepsArg
<1>2. CASE to # Untyped
  <2> DEFINE c == Coerced(a, to)
  <2>0. to \in Types  BY <1>2
  <2>1. /\ c \in Arg /\ c.lit = a.lit /\ c.v = a.v /\ c.cast = a.cast /\ c.t \in Types
        /\ ~ a.lit => c = a
        /\ c.t = "nil" <=> a.t = "nil"
    BY <2>0, CoerceFacts
  <2>2. Attempt(a, to) = [left |-> c, fits |-> Fits(c, to), passed |-> CastTo(c, to)]
    BY <1>2 DEF Attempt
  <2>3. Fits(c, to) \in BOOLEAN  BY DEF Fits, Convertible, AddressFits
  <2>4. KeepsArg(a, c)  BY <2>1 DEF KeepsArg
  <2> HIDE DEF c
  <2>5. CASE Fits(c, to)
    <3>1. /\ CastTo(c, to) \in Arg
          /\ CastTo(c, to).lit = c.lit /\ CastTo(c, to).v = c.v /\ CastTo(c, to).t \in Types
          /\ c.cast => CastTo(c, to).cast
          /\ ~ CastTo(c, to).cast => CastTo(c, to).t = c.t
          /\ Passes(CastTo(c, to).t, to)
          /\ CastTo(c, to).t = "nil" <=> c.t = "nil"
      BY <2>0, <2>1, <2>5, CastFacts
    <3>2. KeepsArg(a, CastTo(c, to))  BY <2>1, <3>1 DEF KeepsArg
    <3>3. Attempt(a, to) = [left |-> c, fits |-> TRUE, passed |-> CastTo(c, to)]  BY <2>2, <2>5
    <3> QED  BY <1>2, <2>1, <2>4, <3>1, <3>2, <3>3
  <2>6. CASE ~ Fits(c, to)
    <3>1. CastTo(c, to) = c  BY <2>6 DEF CastTo, Fits
    <3>2. Attempt(a, to) = [left |-> c, fits |-> FALSE, passed |-> c]  BY <2>2, <2>3, <2>6, <3>1
    <3> QED  BY <1>2, <2>1, <2>4, <3>2
  <2> QED  BY <2>5, <2>6
<1> QED  BY <1>1, <1>2

(* A list of arguments against a list of parameters.                       *)
TypedArgs(args) == args \in Seq(Arg) /\ \A i \in DOMAIN args : args[i].t \in Types

KeepsArgs(args, now) ==
  /\ now \in Seq(Arg) /\ Len(now) = Len(args)
  /\ \A i \in DOMAIN args : KeepsArg(args[i], now[i])

LEMMA MatchFacts ==
  ASSUME NEW args, TypedArgs(args), NEW params \in Seq(Types \cup {Untyped}),
         Len(params) = Len(args)
  PROVE  /\ KeepsArgs(args, Match(params, args).args)
         /\ Match(params, args).ok => \A i \in DOMAIN args :
              /\ params[i] # Untyped => Passes(Match(params, args).args[i].t, params[i])
              /\ params[i] = Untyped => Match(params, args).args[i] = args[i]
<1> DEFINE tries == [i \in DOMAIN args |-> Attempt(args[i], params[i])]
           bad == {i \in DOMAIN args : ~ tries[i].fits}
           now == [i \in DOMAIN args |->
                     IF bad = {} THEN tries[i].passed
                     ELSE IF \A j \in bad : i <= j THEN tries[i].left ELSE args[i]]
<1>1. args \in Seq(Arg) /\ Len(args) \in Nat /\ DOMAIN args = 1 .. Len(args)
  BY DEF TypedArgs
<1>2. ASSUME NEW i \in DOMAIN args
      PROVE  /\ args[i] \in Arg /\ args[i].t \in Types
             /\ params[i] \in Types \cup {Untyped}
             /\ tries[i] = Attempt(args[i], params[i])
             /\ KeepsArg(args[i], tries[i].left) /\ KeepsArg(args[i], tries[i].passed)
             /\ KeepsArg(args[i], args[i])
             /\ tries[i].fits /\ params[i] # Untyped => Passes(tries[i].passed.t, params[i])
             /\ params[i] = Untyped => tries[i].passed = args[i]
  <2>1. args[i] \in Arg /\ args[i].t \in Types  BY <1>1, <1>2 DEF TypedArgs
  <2>2. params[i] \in Types \cup {Untyped}
    <3>1. DOMAIN params = 1 .. Len(params)  OBVIOUS
    <3> QED  BY <1>1, <1>2, <3>1
  <2>3. tries[i] = Attempt(args[i], params[i])  BY <1>2
  <2>4. KeepsArg(args[i], args[i])  BY <2>1 DEF KeepsArg
  <2> HIDE DEF tries
  <2> QED  BY <2>1, <2>2, <2>3, <2>4, AttemptFacts
<1>4. Match(params, args) = [ok |-> bad = {}, args |-> now]
  <2>1. Match(params, args) = Outcome(tries, args)  BY DEF Match
  <2> HIDE DEF tries
  <2> QED  BY <2>1 DEF Outcome
<1>5. ASSUME NEW i \in DOMAIN args  PROVE KeepsArg(args[i], now[i])
  <2> HIDE DEF tries, bad
  <2>1. now[i] \in {tries[i].passed, tries[i].left, args[i]}  BY <1>5
  <2> QED  BY <1>2, <2>1
<1>6. now \in Seq(Arg) /\ Len(now) = Len(args)
  <2>1. \A i \in 1 .. Len(args) : now[i] \in Arg  BY <1>1, <1>5 DEF KeepsArg
  <2>2. now = [i \in 1 .. Len(args) |-> now[i]]  BY <1>1
  <2> HIDE DEF now
  <2>3. now \in [1 .. Len(args) -> Arg]  BY <2>1, <2>2
  <2> QED  BY <1>1, <2>3
<1>7. ASSUME bad = {}, NEW i \in DOMAIN args
      PROVE  now[i] = tries[i].passed /\ tries[i].fits
  <2>1. now[i] = tries[i].passed
    <3> HIDE DEF bad, tries
    <3> QED  BY <1>7
  <2>2. tries[i].fits  BY <1>7
  <2> QED  BY <2>1, <2>2
<1> HIDE DEF tries, bad, now
<1>8. KeepsArgs(args, now)  BY <1>5, <1>6 DEF KeepsArgs
<1>9. ASSUME bad = {}, NEW i \in DOMAIN args
      PROVE  /\ params[i] # Untyped => Passes(now[i].t, params[i])
             /\ params[i] = Untyped => now[i] = args[i]
  BY <1>2, <1>7, <1>9
<1>10. Match(params, args).args = now  BY <1>4
<1>11. Match(params, args).ok = (bad = {})  BY <1>4
<1> HIDE DEF Match
<1> QED  BY <1>8, <1>9, <1>10, <1>11

-----------------------------------------------------------------------------
(* Writing a statement, a function, a copy.                                *)

LEMMA FunctionFields ==
  ASSUME NEW f \in Function
  PROVE  /\ f.name \in Names /\ f.params \in Seq(Types \cup {Untyped})
         /\ f.ret \in Types \cup {NoType} /\ f.body \in Seq(Statement)
         /\ f.pos \in Nat /\ f.typed \in BOOLEAN /\ f.result \in Types \cup {NoType}
         /\ f.argsUnresolved \in BOOLEAN
         /\ Len(f.body) \in Nat /\ DOMAIN f.body = 1 .. Len(f.body)
         /\ Len(f.params) \in Nat /\ DOMAIN f.params = 1 .. Len(f.params)
         /\ \A s \in DOMAIN f.body : f.body[s] \in Statement
<1>1. /\ f.name \in Names /\ f.params \in Seq(Types \cup {Untyped})
      /\ f.ret \in Types \cup {NoType} /\ f.body \in Seq(Statement)
      /\ f.pos \in Nat /\ f.typed \in BOOLEAN /\ f.result \in Types \cup {NoType}
      /\ f.argsUnresolved \in BOOLEAN
  BY DEF Function
<1> QED  BY <1>1

LEMMA StatementFields ==
  ASSUME NEW st \in Statement
  PROVE  /\ st.ret \in BOOLEAN /\ st.fn \in Names \cup {NoFunc} /\ st.args \in Seq(Arg)
         /\ st.callee \in Nat /\ st.t \in Types \cup {NoType}
         /\ Len(st.args) \in Nat /\ DOMAIN st.args = 1 .. Len(st.args)
         /\ \A k \in DOMAIN st.args : st.args[k] \in Arg
<1>1. /\ st.ret \in BOOLEAN /\ st.fn \in Names \cup {NoFunc} /\ st.args \in Seq(Arg)
      /\ st.callee \in Nat /\ st.t \in Types \cup {NoType}
  BY DEF Statement
<1> QED  BY <1>1

(* What a visit does not change of a function.                             *)
SameHead(f, g) ==
  /\ g.name = f.name /\ g.params = f.params /\ g.ret = f.ret /\ g.pos = f.pos
  /\ g.typed = f.typed /\ g.result = f.result

WithStatement(fs, i, s, st) == [fs EXCEPT ![i].body[s] = st]

LEMMA WithStatementFacts ==
  ASSUME NEW fs \in Seq(Function), NEW i \in DOMAIN fs, NEW s \in DOMAIN fs[i].body,
         NEW st \in Statement
  PROVE  /\ WithStatement(fs, i, s, st) \in Seq(Function)
         /\ Len(WithStatement(fs, i, s, st)) = Len(fs)
         /\ DOMAIN WithStatement(fs, i, s, st) = DOMAIN fs
         /\ \A j \in DOMAIN fs : j # i => WithStatement(fs, i, s, st)[j] = fs[j]
         /\ SameHead(fs[i], WithStatement(fs, i, s, st)[i])
         /\ WithStatement(fs, i, s, st)[i].body = [fs[i].body EXCEPT ![s] = st]
<1> DEFINE g == [fs[i] EXCEPT !.body[s] = st]
<1>1. fs[i] \in Function  OBVIOUS
<1>2. WithStatement(fs, i, s, st) = [fs EXCEPT ![i] = g]  BY DEF WithStatement
<1>3. [fs[i].body EXCEPT ![s] = st] \in Seq(Statement)
  BY <1>1, FunctionFields
<1>4. g = [fs[i] EXCEPT !.body = [fs[i].body EXCEPT ![s] = st]]  OBVIOUS
<1>5. g \in Function /\ SameHead(fs[i], g) /\ g.body = [fs[i].body EXCEPT ![s] = st]
  <2> HIDE DEF g
  <2> DEFINE b == [fs[i].body EXCEPT ![s] = st]
  <2>1. b \in Seq(Statement)  BY <1>3
  <2>2. g = [fs[i] EXCEPT !.body = b]  BY <1>4
  <2> HIDE DEF b
  <2>3. g \in Function /\ SameHead(fs[i], g) /\ g.body = b
    BY <1>1, <2>1, <2>2 DEF Function, SameHead
  <2> QED  BY <2>3 DEF b
<1> HIDE DEF g
<1> QED  BY <1>2, <1>5

WithCall(st, args, callee, t) == [st EXCEPT !.args = args, !.callee = callee, !.t = t]
WithCallee(st, callee, t) == [st EXCEPT !.callee = callee, !.t = t]
WithReturn(st, args, t) == [st EXCEPT !.args = args, !.t = t]

LEMMA StatementWith ==
  ASSUME NEW st \in Statement, NEW args \in Seq(Arg), NEW callee \in Nat,
         NEW t \in Types \cup {NoType}
  PROVE  LET now == WithCall(st, args, callee, t)
         IN /\ now \in Statement
            /\ now.args = args /\ now.callee = callee /\ now.t = t
            /\ now.fn = st.fn /\ now.ret = st.ret
BY DEF Statement, WithCall

LEMMA StatementWithArgs ==
  ASSUME NEW st \in Statement, NEW args \in Seq(Arg)
  PROVE  LET now == [st EXCEPT !.args = args]
         IN /\ now \in Statement
            /\ now.args = args /\ now.callee = st.callee /\ now.t = st.t
            /\ now.fn = st.fn /\ now.ret = st.ret
BY DEF Statement

LEMMA StatementWithArgsType ==
  ASSUME NEW st \in Statement, NEW args \in Seq(Arg), NEW t \in Types \cup {NoType}
  PROVE  LET now == WithReturn(st, args, t)
         IN /\ now \in Statement
            /\ now.args = args /\ now.callee = st.callee /\ now.t = t
            /\ now.fn = st.fn /\ now.ret = st.ret
BY DEF Statement, WithReturn

LEMMA StatementWithCallee ==
  ASSUME NEW st \in Statement, NEW callee \in Nat, NEW t \in Types \cup {NoType}
  PROVE  LET now == WithCallee(st, callee, t)
         IN /\ now \in Statement
            /\ now.args = st.args /\ now.callee = callee /\ now.t = t
            /\ now.fn = st.fn /\ now.ret = st.ret
BY DEF Statement, WithCallee

-----------------------------------------------------------------------------
(* Where the walk stands.                                                  *)

LEMMA FuncsFacts ==
  ASSUME FunctionsInv, NEW i \in DOMAIN funcs
  PROVE  /\ Len(funcs) \in Nat /\ DOMAIN funcs = 1 .. Len(funcs)
         /\ funcs[i] \in Function /\ GoodFunction(funcs[i])
BY DEF FunctionsInv

LEMMA StackFacts ==
  ASSUME StackInv, Visiting
  PROVE  /\ Len(stack) \in Nat \ {0} /\ DOMAIN stack = 1 .. Len(stack)
         /\ Len(stack) \in DOMAIN stack
         /\ top = stack[Len(stack)] /\ top \in Frames
         /\ top.f \in Nat /\ top.s \in Nat \ {0} /\ top.tried \in Nat /\ top.generated \in BOOLEAN
         /\ top.f \in DOMAIN funcs /\ ~ IsGeneric(funcs[top.f])
         /\ top.generated <=> Len(stack) > 1
         /\ top.s <= Len(fun.body) + 1
         /\ pass \in Walks /\ next <= Len(order) /\ stack[1].f = order[next]
<1>1. stack \in Seq(Frames) /\ stack # <<>>  BY DEF StackInv, Visiting
<1>2. Len(stack) \in Nat \ {0} /\ DOMAIN stack = 1 .. Len(stack)  BY <1>1
<1>3. Len(stack) \in DOMAIN stack /\ stack[Len(stack)] \in Frames  BY <1>1, <1>2
<1>4. top = stack[Len(stack)]  BY DEF top, Last
<1>5. /\ top.f \in Nat /\ top.s \in Nat \ {0} /\ top.tried \in Nat /\ top.generated \in BOOLEAN
  BY <1>3, <1>4 DEF Frames
<1>6. /\ top.f \in DOMAIN funcs /\ ~ IsGeneric(funcs[top.f])
      /\ top.generated <=> Len(stack) > 1
      /\ top.s <= Len(funcs[top.f].body) + 1
  BY <1>3, <1>4 DEF StackInv
<1>7. pass \in Walks /\ next <= Len(order) /\ stack[1].f = order[next]
  BY <1>1 DEF StackInv
<1> QED  BY <1>2, <1>3, <1>4, <1>5, <1>6, <1>7 DEF fun

LEMMA BodyFacts ==
  ASSUME FunctionsInv, StackInv, InBody
  PROVE  /\ Visiting
         /\ fun = funcs[top.f] /\ fun \in Function /\ GoodFunction(fun) /\ ~ IsGeneric(fun)
         /\ top.s \in DOMAIN fun.body
         /\ stmt = fun.body[top.s] /\ stmt \in Statement /\ GoodStatement(stmt, fun)
<1>1. Visiting /\ top.s <= Len(fun.body)  BY DEF InBody
<1>2. top.f \in DOMAIN funcs /\ top.s \in Nat \ {0} /\ ~ IsGeneric(funcs[top.f])
  BY <1>1, StackFacts
<1>3. fun = funcs[top.f] /\ fun \in Function /\ GoodFunction(fun)
  BY <1>2, FuncsFacts DEF fun
<1>4. top.s \in DOMAIN fun.body /\ fun.body[top.s] \in Statement
  BY <1>1, <1>2, <1>3, FunctionFields
<1> QED  BY <1>1, <1>2, <1>3, <1>4 DEF stmt, GoodFunction

(* The parameters of a function that is visited have types.                *)
LEMMA ParamsTyped ==
  ASSUME NEW f \in Function, ~ IsGeneric(f)
  PROVE  \A v \in DOMAIN f.params : f.params[v] \in Types
<1>1. \A v \in DOMAIN f.params : f.params[v] \in Types \cup {Untyped}
  BY FunctionFields
<1> QED  BY <1>1 DEF IsGeneric

LEMMA TypedsFacts ==
  ASSUME FunctionsInv, StackInv, InBody
  PROVE  /\ TypedArgs(callArgs) /\ Len(callArgs) = Len(stmt.args)
         /\ \A k \in DOMAIN stmt.args :
              /\ callArgs[k].lit = stmt.args[k].lit /\ callArgs[k].v = stmt.args[k].v
              /\ callArgs[k].cast = stmt.args[k].cast
              /\ stmt.args[k].lit \/ stmt.args[k].cast => callArgs[k] = stmt.args[k]
              /\ ~ stmt.args[k].lit /\ ~ stmt.args[k].cast => callArgs[k].t = fun.params[stmt.args[k].v]
         /\ GoodStatement([stmt EXCEPT !.args = callArgs], fun)
<1>1. /\ fun \in Function /\ ~ IsGeneric(fun) /\ stmt \in Statement /\ GoodStatement(stmt, fun)
  BY BodyFacts
<1>2. stmt.args \in Seq(Arg) /\ Len(stmt.args) \in Nat /\ DOMAIN stmt.args = 1 .. Len(stmt.args)
  BY <1>1, StatementFields
<1>3. callArgs = [k \in DOMAIN stmt.args |-> Typed(stmt.args[k])]  BY DEF callArgs, Typeds
<1>4. ASSUME NEW k \in DOMAIN stmt.args
      PROVE  /\ callArgs[k] \in Arg /\ callArgs[k].t \in Types
             /\ callArgs[k].lit = stmt.args[k].lit /\ callArgs[k].v = stmt.args[k].v
             /\ callArgs[k].cast = stmt.args[k].cast
             /\ stmt.args[k].lit \/ stmt.args[k].cast => callArgs[k] = stmt.args[k]
             /\ ~ stmt.args[k].lit /\ ~ stmt.args[k].cast => callArgs[k].t = fun.params[stmt.args[k].v]
  <2>1. stmt.args[k] \in Arg /\ GoodArg(stmt.args[k], fun)
    BY <1>1, <1>2, <1>4 DEF GoodStatement
  <2>2. callArgs[k] = Typed(stmt.args[k])  BY <1>3, <1>4
  <2>3. CASE stmt.args[k].lit \/ stmt.args[k].cast
    BY <2>1, <2>2, <2>3 DEF Typed, GoodArg
  <2>4. CASE ~ stmt.args[k].lit /\ ~ stmt.args[k].cast
    <3>1. fun.params[stmt.args[k].v] \in Types  BY <1>1, <2>1, <2>4, ParamsTyped DEF GoodArg
    <3> DEFINE a == stmt.args[k]
               t == fun.params[stmt.args[k].v]
    <3>2. callArgs[k] = [a EXCEPT !.t = t]  BY <2>2, <2>4 DEF Typed
    <3>3. a \in Arg /\ t \in Types  BY <2>1, <3>1
    <3> HIDE DEF a, t
    <3>4. callArgs[k] \in Arg /\ callArgs[k].t = t /\ callArgs[k].lit = a.lit
          /\ callArgs[k].v = a.v /\ callArgs[k].cast = a.cast
      BY <3>2, <3>3 DEF Arg
    <3> QED  BY <2>4, <3>3, <3>4 DEF a, t
  <2> QED  BY <2>3, <2>4
<1>5. callArgs \in Seq(Arg) /\ Len(callArgs) = Len(stmt.args)
  <2>1. callArgs \in [1 .. Len(stmt.args) -> Arg]  BY <1>2, <1>3, <1>4
  <2> QED  BY <1>2, <2>1
<1>6. TypedArgs(callArgs)  BY <1>2, <1>4, <1>5 DEF TypedArgs
<1>7. GoodStatement([stmt EXCEPT !.args = callArgs], fun)
  <2> DEFINE now == [stmt EXCEPT !.args = callArgs]
  <2>1. now.args = callArgs /\ now.fn = stmt.fn /\ now.ret = stmt.ret
    BY <1>1, <1>5, StatementWithArgs
  <2>2. DOMAIN callArgs = DOMAIN stmt.args  BY <1>2, <1>5
  <2>3. ASSUME NEW k \in DOMAIN callArgs  PROVE GoodArg(callArgs[k], fun)
    <3>1. GoodArg(stmt.args[k], fun)  BY <1>1, <2>2 DEF GoodStatement
    <3> QED  BY <1>4, <2>2, <3>1 DEF GoodArg
  <2> HIDE DEF now
  <2>4. GoodStatement(now, fun)  BY <1>1, <2>1, <2>3 DEF GoodStatement
  <2> QED  BY <2>4 DEF now
<1> QED  BY <1>4, <1>5, <1>6, <1>7

-----------------------------------------------------------------------------
(* What a step keeps of the functions and of the tables.                   *)

(* The functions stay, with what the tables know of them.                  *)
HeadsKept ==
  /\ funcs \in Seq(Function) /\ funcs' \in Seq(Function) /\ Len(funcs) <= Len(funcs')
  /\ \A i \in DOMAIN funcs :
       /\ funcs'[i].name = funcs[i].name /\ funcs'[i].params = funcs[i].params
       /\ funcs[i].typed => funcs'[i].typed

LEMMA HeadsFacts ==
  ASSUME HeadsKept
  PROVE  /\ DOMAIN funcs \subseteq DOMAIN funcs'
         /\ \A i \in DOMAIN funcs : IsGeneric(funcs'[i]) <=> IsGeneric(funcs[i])
         /\ \A i \in DOMAIN funcs : Signature(funcs'[i]) = Signature(funcs[i])
<1>1. Len(funcs) \in Nat /\ Len(funcs') \in Nat /\ Len(funcs) <= Len(funcs')
  BY DEF HeadsKept
<1>2. DOMAIN funcs = 1 .. Len(funcs) /\ DOMAIN funcs' = 1 .. Len(funcs')
  BY DEF HeadsKept
<1> QED  BY <1>1, <1>2 DEF HeadsKept, IsGeneric, Signature

LEMMA SeqWider ==
  ASSUME NEW S, NEW T, S \subseteq T, NEW q \in Seq(S)
  PROVE  q \in Seq(T)
OBVIOUS

Put(q, k, x) == [q EXCEPT ![k] = x]

DiffersAt(S, q, k, x, now) ==
  /\ now \in Seq(S) /\ Len(now) = Len(q) /\ DOMAIN now = DOMAIN q
  /\ now[k] = x /\ \A j \in DOMAIN q : j # k => now[j] = q[j]

LEMMA SeqPut ==
  ASSUME NEW S, NEW q \in Seq(S), NEW k \in DOMAIN q, NEW x \in S
  PROVE  DiffersAt(S, q, k, x, Put(q, k, x))
BY DEF Put, DiffersAt

LEMMA TablesKept ==
  ASSUME TablesInv, HeadsKept, UNCHANGED <<tables, order>>
  PROVE  TablesInv'
<1>1. bases' = bases /\ overloads' = overloads /\ generics' = generics /\ symbols' = symbols
      /\ order' = order
  BY DEF tables
<1>2. DOMAIN funcs \subseteq DOMAIN funcs'  BY HeadsFacts
<1>3. order' \in Seq(DOMAIN funcs')  BY <1>1, <1>2, SeqWider DEF TablesInv
<1>4. Placed' = Placed  BY <1>1 DEF Placed
<1>5. /\ overloads' \in [Names -> Seq(DOMAIN funcs')]
      /\ \A n \in Names : \A k \in DOMAIN overloads'[n] :
           LET g == overloads'[n][k]
           IN (funcs')[g].typed /\ (funcs')[g].name = n /\ g \in Placed'
  <2>1. ASSUME NEW n \in Names  PROVE overloads[n] \in Seq(DOMAIN funcs')
    BY <1>2, SeqWider DEF TablesInv
  <2>2. overloads \in [Names -> Seq(DOMAIN funcs')]  BY <2>1 DEF TablesInv
  <2>3. ASSUME NEW n \in Names, NEW k \in DOMAIN overloads[n]
        PROVE  LET g == overloads[n][k]
               IN (funcs')[g].typed /\ (funcs')[g].name = n /\ g \in Placed
    <3>1. overloads[n] \in Seq(DOMAIN funcs)  BY DEF TablesInv
    <3>2. overloads[n][k] \in DOMAIN funcs  BY <3>1
    <3> QED  BY <3>2 DEF TablesInv, HeadsKept
  <2> QED  BY <1>1, <1>4, <2>2, <2>3
<1>6. /\ generics' \in [Names -> Seq(DOMAIN funcs')]
      /\ \A n \in Names : \A k \in DOMAIN generics'[n] :
           IsGeneric((funcs')[generics'[n][k]]) /\ (funcs')[generics'[n][k]].name = n
  <2>1. ASSUME NEW n \in Names  PROVE generics[n] \in Seq(DOMAIN funcs')
    BY <1>2, SeqWider DEF TablesInv
  <2>2. generics \in [Names -> Seq(DOMAIN funcs')]  BY <2>1 DEF TablesInv
  <2>3. ASSUME NEW n \in Names, NEW k \in DOMAIN generics[n]
        PROVE  IsGeneric((funcs')[generics[n][k]]) /\ (funcs')[generics[n][k]].name = n
    <3>1. generics[n] \in Seq(DOMAIN funcs)  BY DEF TablesInv
    <3>2. generics[n][k] \in DOMAIN funcs  BY <3>1
    <3>3. IsGeneric(funcs[generics[n][k]]) /\ funcs[generics[n][k]].name = n  BY DEF TablesInv
    <3> QED  BY <3>2, <3>3, HeadsFacts DEF HeadsKept
  <2> QED  BY <1>1, <2>2, <2>3
<1>7. \A k \in DOMAIN symbols' :
        LET g == symbols'[k]
        IN g \in DOMAIN funcs' /\ (funcs')[g].typed /\ Signature((funcs')[g]) = k /\ g \in Placed'
  <2>1. ASSUME NEW k \in DOMAIN symbols
        PROVE  LET g == symbols[k]
               IN g \in DOMAIN funcs' /\ (funcs')[g].typed /\ Signature((funcs')[g]) = k /\ g \in Placed
    <3>1. symbols[k] \in DOMAIN funcs /\ funcs[symbols[k]].typed
          /\ Signature(funcs[symbols[k]]) = k /\ symbols[k] \in Placed
      BY DEF TablesInv
    <3> QED  BY <1>2, <3>1, HeadsFacts DEF HeadsKept
  <2> QED  BY <1>1, <1>4, <2>1
<1>8. bases' \subseteq Names  BY <1>1 DEF TablesInv
<1> QED  BY <1>3, <1>5, <1>6, <1>7, <1>8 DEF TablesInv

LEMMA GoodWritten ==
  ASSUME NEW f \in Function, GoodFunction(f), ~ IsGeneric(f), NEW s \in DOMAIN f.body,
         NEW st, GoodStatement(st, f), NEW g, SameHead(f, g), g.body = [f.body EXCEPT ![s] = st]
  PROVE  GoodFunction(g) /\ ~ IsGeneric(g)
<1>1. g.params = f.params /\ g.typed = f.typed /\ g.result = f.result
  BY DEF SameHead
<1>2. ~ IsGeneric(g)  BY <1>1 DEF IsGeneric
<1>3. g.typed <=> g.result # NoType  BY <1>1 DEF GoodFunction
<1>4. ASSUME NEW r \in DOMAIN g.body  PROVE GoodStatement(g.body[r], g)
  <2>1. r \in DOMAIN f.body  BY <1>1
  <2>2. g.body[r] = IF r = s THEN st ELSE f.body[r]  BY <2>1
  <2>3. GoodStatement(g.body[r], f)  BY <2>1, <2>2 DEF GoodFunction
  <2> QED  BY <1>1, <2>3 DEF GoodStatement, GoodArg
<1> QED  BY <1>2, <1>3, <1>4 DEF GoodFunction

(* A statement is written in the body that is visited.                     *)
LEMMA StatementWritten ==
  ASSUME FunctionsInv, StackInv, InBody, NEW st \in Statement, GoodStatement(st, fun),
         funcs' = SetStatement(st)
  PROVE  /\ FunctionsInv' /\ HeadsKept
         /\ Len(funcs') = Len(funcs) /\ DOMAIN funcs' = DOMAIN funcs
         /\ \A i \in DOMAIN funcs : i # top.f => (funcs')[i] = funcs[i]
         /\ SameHead(fun, (funcs')[top.f])
         /\ (funcs')[top.f].body = [fun.body EXCEPT ![top.s] = st]
         /\ \A i \in DOMAIN funcs : SameHead(funcs[i], (funcs')[i])
<1>1. /\ fun = funcs[top.f] /\ fun \in Function /\ GoodFunction(fun) /\ ~ IsGeneric(fun)
      /\ top.s \in DOMAIN fun.body /\ top.f \in DOMAIN funcs
  BY BodyFacts, StackFacts
<1>2. funcs' = WithStatement(funcs, top.f, top.s, st)  BY DEF SetStatement, WithStatement
<1>3. funcs \in Seq(Function)  BY DEF FunctionsInv
<1>4. /\ funcs' \in Seq(Function) /\ Len(funcs') = Len(funcs) /\ DOMAIN funcs' = DOMAIN funcs
      /\ \A i \in DOMAIN funcs : i # top.f => (funcs')[i] = funcs[i]
      /\ SameHead(fun, (funcs')[top.f])
      /\ (funcs')[top.f].body = [fun.body EXCEPT ![top.s] = st]
  BY <1>1, <1>2, <1>3, WithStatementFacts
<1>5. GoodFunction((funcs')[top.f])
  BY <1>1, <1>4, GoodWritten
<1>6. FunctionsInv'  BY <1>4, <1>5 DEF FunctionsInv
<1>7. \A i \in DOMAIN funcs : SameHead(funcs[i], (funcs')[i])
  BY <1>1, <1>4 DEF SameHead
<1>8. HeadsKept
  <2>1. Len(funcs) <= Len(funcs')  BY <1>3, <1>4
  <2> QED  BY <1>3, <1>4, <1>7, <2>1 DEF HeadsKept, SameHead
<1> QED  BY <1>4, <1>6, <1>7, <1>8

-----------------------------------------------------------------------------
(* What a step keeps of the stack.                                         *)

(* A frame is right in another state, if its function has the head it had. *)
LEMMA FrameKept ==
  ASSUME StackInv, NEW k \in DOMAIN stack, DOMAIN funcs \subseteq DOMAIN funcs',
         SameHead(funcs[stack[k].f], (funcs')[stack[k].f])
  PROVE  stack[k].f \in DOMAIN funcs' /\ ~ IsGeneric((funcs')[stack[k].f])
<1>1. stack[k].f \in DOMAIN funcs /\ ~ IsGeneric(funcs[stack[k].f])  BY Zenon DEF StackInv
<1> QED  BY <1>1 DEF SameHead, IsGeneric

LEMMA StackMoves ==
  ASSUME FunctionsInv, StackInv, InBody, NEW st \in Statement, GoodStatement(st, fun),
         funcs' = SetStatement(st),
         NEW fr \in Frames, fr.f = top.f, fr.generated = top.generated, fr.s <= top.s + 1,
         fr.tried = 0 \/ (fr.s = top.s /\ st.fn # NoFunc /\ st.t = NoType),
         stack' = [stack EXCEPT ![Len(stack)] = fr],
         UNCHANGED <<pass, next, order>>
  PROVE  StackInv'
<1> DEFINE n == Len(stack)
<1>1. /\ n \in Nat \ {0} /\ DOMAIN stack = 1 .. n /\ n \in DOMAIN stack /\ top = stack[n]
      /\ pass \in Walks /\ next <= Len(order) /\ stack[1].f = order[next]
  BY StackFacts DEF InBody
<1>2. /\ fun = funcs[top.f] /\ fun \in Function
      /\ top.s \in DOMAIN fun.body /\ top.f \in DOMAIN funcs
  BY BodyFacts, StackFacts
<1>3. /\ DOMAIN funcs' = DOMAIN funcs
      /\ \A i \in DOMAIN funcs : i # top.f => (funcs')[i] = funcs[i]
      /\ (funcs')[top.f].body = [fun.body EXCEPT ![top.s] = st]
      /\ \A i \in DOMAIN funcs : SameHead(funcs[i], (funcs')[i])
  BY StatementWritten
<1>4. stack \in Seq(Frames) /\ Len(stack) <= MaxNesting  BY DEF StackInv
<1>5. /\ stack' \in Seq(Frames) /\ Len(stack') = n /\ DOMAIN stack' = 1 .. n
      /\ (stack')[n] = fr
      /\ \A k \in 1 .. n : k # n => (stack')[k] = stack[k]
  <2>1. stack' = Put(stack, n, fr)  BY DEF Put
  <2> HIDE DEF n
  <2>2. n \in DOMAIN stack /\ stack \in Seq(Frames) /\ DOMAIN stack = 1 .. n  BY <1>1, <1>4
  <2>4. Len(stack) = n  BY DEF n
  <2> HIDE DEF n
  <2>5. DiffersAt(Frames, stack, n, fr, Put(stack, n, fr))  BY <2>2, SeqPut
  <2>3. DiffersAt(Frames, stack, n, fr, stack')  BY <2>1, <2>5
  <2> QED  BY <2>2, <2>3, <2>4 DEF DiffersAt
<1> HIDE DEF n
<1>6. \A k \in 1 .. n : (stack')[k].f = stack[k].f /\ (stack')[k].generated = stack[k].generated
  BY <1>1, <1>5
<1>7. ASSUME NEW k \in 1 .. n
      PROVE  /\ (stack')[k].f \in DOMAIN funcs' /\ ~ IsGeneric((funcs')[(stack')[k].f])
             /\ (stack')[k].generated <=> k > 1
             /\ \A j \in 1 .. n : j # k => (stack')[j].f # (stack')[k].f
  <2>1. stack[k].f \in DOMAIN funcs  BY <1>1 DEF StackInv
  <2>2. stack[k].f \in DOMAIN funcs' /\ ~ IsGeneric((funcs')[stack[k].f])
    BY <1>1, <1>3, <2>1, FrameKept
  <2>3. /\ stack[k].generated <=> k > 1
        /\ \A j \in 1 .. n : j # k => stack[j].f # stack[k].f
    BY <1>1 DEF StackInv
  <2> QED  BY <1>6, <2>2, <2>3
<1>8. ASSUME NEW k \in 1 .. n, k < n
      PROVE  /\ (stack')[k].s <= Len((funcs')[(stack')[k].f].body)
             /\ (funcs')[(stack')[k].f].body[(stack')[k].s].fn # NoFunc
             /\ (funcs')[(stack')[k].f].body[(stack')[k].s].t = NoType
  <2>1. (stack')[k] = stack[k]  BY <1>1, <1>5, <1>8
  <2>2. stack[k].f # top.f /\ stack[k].f \in DOMAIN funcs  BY <1>1, <1>8 DEF StackInv
  <2>3. (funcs')[stack[k].f] = funcs[stack[k].f]  BY <1>3, <2>2
  <2>4. k < Len(stack)  BY <1>8 DEF n
  <2>5. /\ stack[k].s <= Len(funcs[stack[k].f].body)
        /\ funcs[stack[k].f].body[stack[k].s].fn # NoFunc
        /\ funcs[stack[k].f].body[stack[k].s].t = NoType
    BY <1>1, <2>4 DEF StackInv
  <2> QED  BY <2>1, <2>3, <2>5, Zenon
<1>8a. ASSUME fr.tried > 0
       PROVE  /\ fr.s <= Len((funcs')[fr.f].body)
              /\ (funcs')[fr.f].body[fr.s].fn # NoFunc
              /\ (funcs')[fr.f].body[fr.s].t = NoType
  <2>1. fr.f = top.f /\ fr.s = top.s /\ st.fn # NoFunc /\ st.t = NoType  BY <1>8a
  <2>2. fun.body \in Seq(Statement) /\ Len(fun.body) \in Nat /\ DOMAIN fun.body = 1 .. Len(fun.body)
    BY <1>2, FunctionFields
  <2> DEFINE b == (funcs')[top.f].body
  <2>3. b = [fun.body EXCEPT ![top.s] = st]  BY <1>3
  <2> HIDE DEF b
  <2>4. Len(b) = Len(fun.body) /\ b[top.s] = st /\ top.s <= Len(fun.body)
    BY <1>2, <2>2, <2>3
  <2>5. fr.s <= Len(b) /\ b[fr.s] = st  BY <2>1, <2>4
  <2> QED  BY <2>1, <2>5 DEF b
<1>9. ASSUME NEW k \in 1 .. n
      PROVE  (stack')[k].s <= Len((funcs')[(stack')[k].f].body) + 1
  <2>1. CASE k = n
    <3>1. Len((funcs')[top.f].body) = Len(fun.body)
      BY <1>2, <1>3, FunctionFields
    <3>2. top.s <= Len(fun.body) /\ top.s \in Nat /\ Len(fun.body) \in Nat
      BY <1>2, FunctionFields
    <3>3. (stack')[k] = fr  BY <1>5, <2>1
    <3>4. fr.s \in Nat /\ fr.f = top.f /\ fr.s <= top.s + 1  BY DEF Frames
    <3>5. fr.s <= Len((funcs')[top.f].body) + 1  BY <3>1, <3>2, <3>4
    <3> QED  BY <3>3, <3>4, <3>5
  <2>2. CASE k # n
    <3>1. k < n  BY <1>1, <2>2
    <3>2. (stack')[k].s <= Len((funcs')[(stack')[k].f].body)  BY <1>8, <3>1, Zenon
    <3>3. (stack')[k] \in Frames  BY <1>4, <1>5, <2>2
    <3>4. (stack')[k].s \in Nat  BY <3>3 DEF Frames
    <3>5. Len((funcs')[(stack')[k].f].body) \in Nat
      <4>1. (stack')[k].f \in DOMAIN funcs'  BY <1>7
      <4>2. FunctionsInv'  BY StatementWritten
      <4>3. (funcs')[(stack')[k].f] \in Function  BY <4>1, <4>2 DEF FunctionsInv
      <4> QED  BY <4>3, FunctionFields
    <3> QED  BY <3>2, <3>4, <3>5
  <2> QED  BY <2>1, <2>2
<1>10. pass' \in Walks /\ next' <= Len(order') /\ (stack')[1].f = order'[next']
  BY <1>1, <1>6
<1>11. stack' \in Seq(Frames) /\ Len(stack') <= MaxNesting  BY <1>4, <1>5 DEF n
<1>12. DOMAIN stack' = 1 .. n /\ Len(stack') = n  BY <1>5
<1>13. ASSUME NEW k \in DOMAIN stack'
       PROVE  /\ (stack')[k].f \in DOMAIN funcs' /\ ~ IsGeneric((funcs')[(stack')[k].f])
              /\ (stack')[k].generated <=> k > 1
              /\ (stack')[k].s <= Len((funcs')[(stack')[k].f].body) + 1
              /\ k < Len(stack') \/ (stack')[k].tried > 0 =>
                   /\ (stack')[k].s <= Len((funcs')[(stack')[k].f].body)
                   /\ (funcs')[(stack')[k].f].body[(stack')[k].s].fn # NoFunc
                   /\ (funcs')[(stack')[k].f].body[(stack')[k].s].t = NoType
              /\ \A j \in DOMAIN stack' : j # k => (stack')[j].f # (stack')[k].f
  <2>1. k \in 1 .. n  BY <1>12
  <2>2. k = n => (stack')[k] = fr  BY <1>5
  <2>3. k < n \/ k = n  BY <1>1, <2>1
  <2> QED  BY <2>1, <2>2, <2>3, <1>7, <1>8, <1>8a, <1>9, <1>12, Zenon
<1> QED  BY <1>10, <1>11, <1>13 DEF StackInv

LEMMA NextFrame ==
  ASSUME StackInv, Visiting
  PROVE  /\ [top EXCEPT !.s = top.s + 1, !.tried = 0] \in Frames
         /\ NextStatement = [stack EXCEPT ![Len(stack)] = [top EXCEPT !.s = top.s + 1, !.tried = 0]]
         /\ [top EXCEPT !.s = top.s + 1, !.tried = 0].f = top.f
         /\ [top EXCEPT !.s = top.s + 1, !.tried = 0].s = top.s + 1
         /\ [top EXCEPT !.s = top.s + 1, !.tried = 0].generated = top.generated
         /\ [top EXCEPT !.s = top.s + 1, !.tried = 0].tried = 0
<1> DEFINE fr == [top EXCEPT !.s = top.s + 1, !.tried = 0]
<1>1. top \in Frames /\ top = stack[Len(stack)] /\ Len(stack) \in DOMAIN stack /\ stack \in Seq(Frames)
  BY StackFacts DEF StackInv
<1> DEFINE s2 == top.s + 1
<1>4. s2 \in Nat \ {0}  BY <1>1 DEF Frames
<1>5. fr = [top EXCEPT !.s = s2, !.tried = 0]  OBVIOUS
<1>2. /\ fr \in Frames /\ fr.f = top.f /\ fr.s = top.s + 1 /\ fr.generated = top.generated
      /\ fr.tried = 0
  <2> HIDE DEF fr, s2
  <2>1. /\ fr \in Frames /\ fr.f = top.f /\ fr.s = s2 /\ fr.generated = top.generated
        /\ fr.tried = 0
    BY <1>1, <1>4, <1>5 DEF Frames
  <2> QED  BY <2>1 DEF s2
<1>3. NextStatement = [stack EXCEPT ![Len(stack)] = fr]
  BY <1>1 DEF NextStatement
<1> QED  BY <1>2, <1>3

-----------------------------------------------------------------------------
(* Type correctness, action by action: the statements of a body.           *)

LEMMA BodyStep ==
  ASSUME TypeInv, InBody, NEW st \in Statement, GoodStatement(st, fun),
         funcs' = SetStatement(st), UNCHANGED <<order, tables, sub, next>>,
         CallEnds \/ (pass' = pass /\ stack' = NextStatement),
         unresolved' \in BOOLEAN, errors' \subseteq DOMAIN funcs
  PROVE  TypeInv'
<1>1. FunctionsInv' /\ HeadsKept /\ DOMAIN funcs' = DOMAIN funcs
  BY StatementWritten DEF TypeInv
<1>2. TablesInv'  BY <1>1, TablesKept DEF TypeInv
<1>3. Visiting /\ pass \in Walks /\ order' = order /\ next' = next
  BY StackFacts DEF TypeInv, InBody
<1>4. \/ pass' = "crashed" /\ stack' = <<>>
      \/ pass' = pass /\ stack' = NextStatement
  BY DEF CallEnds
<1>5. StackInv'
  <2>1. CASE stack' = <<>>
    <3>1. MaxNesting \in Nat \ {0}  BY FuncDeclsAssumption
    <3> QED  BY <2>1, <3>1 DEF StackInv
  <2>2. CASE pass' = pass /\ stack' = NextStatement
    <3> DEFINE fr == [top EXCEPT !.s = top.s + 1, !.tried = 0]
    <3>1. /\ fr \in Frames /\ fr.f = top.f /\ fr.s = top.s + 1 /\ fr.generated = top.generated
          /\ fr.tried = 0 /\ stack' = [stack EXCEPT ![Len(stack)] = fr]
      BY <1>3, <2>2, NextFrame DEF TypeInv
    <3>2. top.s \in Nat  BY <1>3, StackFacts DEF TypeInv
    <3> HIDE DEF fr
    <3>3. fr.s <= top.s + 1  BY <3>1, <3>2
    <3> QED  BY <1>3, <2>2, <3>1, <3>3, StackMoves DEF TypeInv
  <2> QED  BY <1>4, <2>1, <2>2
<1>6. WalkInv'
  <2>1. pass' \in Walks \cup Ended  BY <1>3, <1>4 DEF Ended
  <2> QED  BY <1>1, <2>1 DEF TypeInv, WalkInv
<1> QED  BY <1>1, <1>2, <1>5, <1>6 DEF TypeInv

LEMMA ArgsGood ==
  ASSUME NEW st \in Statement, NEW f, GoodStatement(st, f), NEW args \in Seq(Arg),
         Len(args) = Len(st.args), \A k \in DOMAIN st.args : GoodArg(args[k], f)
  PROVE  /\ [st EXCEPT !.args = args] \in Statement
         /\ GoodStatement([st EXCEPT !.args = args], f)
         /\ \A callee \in Nat, t \in Types \cup {NoType} :
              /\ WithCall(st, args, callee, t) \in Statement
              /\ GoodStatement(WithCall(st, args, callee, t), f)
<1>1. DOMAIN args = DOMAIN st.args  BY StatementFields
<1>2. \A k \in DOMAIN args : GoodArg(args[k], f)  BY <1>1
<1>3. ASSUME NEW now \in Statement, now.args = args, now.fn = st.fn, now.ret = st.ret
      PROVE  GoodStatement(now, f)
  BY <1>2, <1>3 DEF GoodStatement
<1>4. /\ [st EXCEPT !.args = args] \in Statement
      /\ GoodStatement([st EXCEPT !.args = args], f)
  <2> DEFINE now == [st EXCEPT !.args = args]
  <2>1. now \in Statement /\ now.args = args /\ now.fn = st.fn /\ now.ret = st.ret
    BY <1>1, StatementWithArgs
  <2> HIDE DEF now
  <2>2. GoodStatement(now, f)  BY <1>3, <2>1
  <2> QED  BY <2>1, <2>2 DEF now
<1>5. ASSUME NEW callee \in Nat, NEW t \in Types \cup {NoType}
      PROVE  /\ WithCall(st, args, callee, t) \in Statement
             /\ GoodStatement(WithCall(st, args, callee, t), f)
  <2> DEFINE now == WithCall(st, args, callee, t)
  <2>1. now \in Statement /\ now.args = args /\ now.fn = st.fn /\ now.ret = st.ret
    BY <1>1, StatementWith
  <2> HIDE DEF now
  <2>2. GoodStatement(now, f)  BY <1>3, <2>1
  <2> QED  BY <2>1, <2>2 DEF now
<1> QED  BY <1>4, <1>5

(* The arguments where the visit meets them.                               *)
LEMMA CallArgsKept ==
  ASSUME TypeInv, InBody
  PROVE  /\ \A k \in DOMAIN stmt.args : GoodArg(callArgs[k], fun)
         /\ [stmt EXCEPT !.args = callArgs] \in Statement
         /\ GoodStatement([stmt EXCEPT !.args = callArgs], fun)
         /\ \A callee \in Nat, t \in Types \cup {NoType} :
              /\ WithCall(stmt, callArgs, callee, t) \in Statement
              /\ GoodStatement(WithCall(stmt, callArgs, callee, t), fun)
<1>1. /\ stmt \in Statement /\ TypedArgs(callArgs)
      /\ GoodStatement([stmt EXCEPT !.args = callArgs], fun)
  BY BodyFacts, TypedsFacts DEF TypeInv
<1>2. callArgs \in Seq(Arg)  BY <1>1 DEF TypedArgs
<1> DEFINE plain == [stmt EXCEPT !.args = callArgs]
<1>3. plain \in Statement /\ plain.args = callArgs /\ plain.fn = stmt.fn /\ plain.ret = stmt.ret
  BY <1>1, <1>2, StatementWithArgs
<1>4. DOMAIN callArgs = DOMAIN stmt.args
  <2>1. Len(callArgs) = Len(stmt.args)  BY TypedsFacts DEF TypeInv
  <2>2. DOMAIN stmt.args = 1 .. Len(stmt.args)  BY <1>1, StatementFields
  <2> QED  BY <1>2, <2>1, <2>2
<1>5. \A k \in DOMAIN stmt.args : GoodArg(callArgs[k], fun)
  <2> HIDE DEF plain
  <2>1. GoodStatement(plain, fun)  BY <1>1 DEF plain
  <2> QED  BY <1>3, <1>4, <2>1 DEF GoodStatement
<1>6. GoodStatement(stmt, fun)  BY BodyFacts DEF TypeInv
<1>7. Len(callArgs) = Len(stmt.args)  BY TypedsFacts DEF TypeInv
<1> HIDE DEF plain
<1> QED  BY <1>1, <1>2, <1>5, <1>6, <1>7, ArgsGood

LEMMA ReturnValueTypes == TypeInv /\ ReturnValue => TypeInv'
<1> SUFFICES ASSUME TypeInv, ReturnValue  PROVE TypeInv'
  OBVIOUS
<1> DEFINE t == IF callArgs = <<>> THEN "void" ELSE callArgs[1].t
           st == WithReturn(stmt, callArgs, t)
<1>1. InBody /\ funcs' = SetStatement(st) /\ stack' = NextStatement
      /\ UNCHANGED <<order, tables, sub, next, pass, unresolved, errors>>
  BY DEF ReturnValue, callArgs, walk, WithReturn
<1>2. TypedArgs(callArgs) /\ stmt \in Statement /\ GoodStatement(stmt, fun)
  BY <1>1, TypedsFacts, BodyFacts DEF TypeInv
<1>3. t \in Types
  <2>1. CASE callArgs = <<>>  BY <2>1, TypesAssumption
  <2>2. CASE callArgs # <<>>
    <3>1. 1 \in DOMAIN callArgs  BY <1>2, <2>2 DEF TypedArgs
    <3> QED  BY <1>2, <2>2, <3>1 DEF TypedArgs
  <2> QED  BY <2>1, <2>2
<1>4. st \in Statement /\ GoodStatement(st, fun)
  <2> HIDE DEF t
  <2>1. callArgs \in Seq(Arg)  BY <1>2 DEF TypedArgs
  <2>2. st \in Statement /\ st.args = callArgs /\ st.fn = stmt.fn /\ st.ret = stmt.ret
    BY <1>2, <1>3, <2>1, StatementWithArgsType
  <2>3. DOMAIN callArgs = DOMAIN stmt.args
    <3>1. Len(callArgs) = Len(stmt.args)  BY <1>1, TypedsFacts DEF TypeInv
    <3>2. DOMAIN stmt.args = 1 .. Len(stmt.args)  BY <1>2, StatementFields
    <3> QED  BY <2>1, <3>1, <3>2
  <2>4. \A k \in DOMAIN stmt.args : GoodArg(callArgs[k], fun)  BY <1>1, CallArgsKept
  <2> HIDE DEF st
  <2> QED  BY <1>2, <2>2, <2>3, <2>4 DEF GoodStatement
<1> HIDE DEF st, t
<1>5. unresolved' \in BOOLEAN /\ errors' \subseteq DOMAIN funcs
  BY <1>1 DEF TypeInv, WalkInv
<1> QED  BY <1>1, <1>4, <1>5, BodyStep

LEMMA CallExactTypes == TypeInv /\ CallExact => TypeInv'
<1> SUFFICES ASSUME TypeInv, CallExact  PROVE TypeInv'
  OBVIOUS
<1> DEFINE g == symbols[exact]
           st == WithCall(stmt, callArgs, g, funcs[g].result)
<1>1. InBody /\ exact \in DOMAIN symbols /\ funcs' = SetStatement(st) /\ CallEnds
      /\ UNCHANGED <<order, tables, sub, next, unresolved, errors>>
  BY DEF CallExact, LookingUp, WithCall
<1>2. g \in DOMAIN funcs  BY <1>1 DEF TypeInv, TablesInv
<1>3. g \in Nat /\ funcs[g].result \in Types \cup {NoType}
  <2>1. funcs[g] \in Function /\ DOMAIN funcs = 1 .. Len(funcs)  BY <1>2, FuncsFacts DEF TypeInv
  <2> QED  BY <1>2, <2>1, FunctionFields
<1>4. st \in Statement /\ GoodStatement(st, fun)  BY <1>1, <1>3, CallArgsKept
<1> HIDE DEF st, g
<1>5. unresolved' \in BOOLEAN /\ errors' \subseteq DOMAIN funcs
  BY <1>1 DEF TypeInv, WalkInv
<1> QED  BY <1>1, <1>4, <1>5, BodyStep

LEMMA CallKeptTypes == TypeInv /\ CallKept => TypeInv'
<1> SUFFICES ASSUME TypeInv, CallKept  PROVE TypeInv'
  OBVIOUS
<1> DEFINE st == [stmt EXCEPT !.args = callArgs]
<1>1. InBody /\ funcs' = SetStatement(st) /\ CallEnds
      /\ UNCHANGED <<order, tables, sub, next, unresolved, errors>>
  BY DEF CallKept, LookingUp
<1>2. st \in Statement /\ GoodStatement(st, fun)  BY <1>1, CallArgsKept
<1> HIDE DEF st
<1>3. unresolved' \in BOOLEAN /\ errors' \subseteq DOMAIN funcs
  BY <1>1 DEF TypeInv, WalkInv
<1> QED  BY <1>1, <1>2, <1>3, BodyStep

LEMMA FailFacts ==
  ASSUME TypeInv, Visiting, NEW condition, Fail(condition)
  PROVE  errors' \subseteq DOMAIN funcs /\ errors \subseteq errors'
BY StackFacts DEF TypeInv, WalkInv, Fail

LEMMA CallFailsTypes == TypeInv /\ CallFails => TypeInv'
<1> SUFFICES ASSUME TypeInv, CallFails  PROVE TypeInv'
  OBVIOUS
<1> DEFINE st == [stmt EXCEPT !.args = callArgs]
<1>1. InBody /\ funcs' = SetStatement(st) /\ CallEnds /\ unresolved' = TRUE /\ Fail(TRUE)
      /\ UNCHANGED <<order, tables, sub, next>>
  BY DEF CallFails, AllTried, Searching
<1>2. st \in Statement /\ GoodStatement(st, fun)  BY <1>1, CallArgsKept
<1> HIDE DEF st
<1>3. unresolved' \in BOOLEAN /\ errors' \subseteq DOMAIN funcs
  BY <1>1, FailFacts DEF InBody
<1> QED  BY <1>1, <1>2, <1>3, BodyStep

(* The arguments as an attempt to pass them leaves them.                   *)
LEMMA MatchKept ==
  ASSUME TypeInv, InBody, NEW params \in Seq(Types \cup {Untyped}), Len(params) = Len(stmt.args)
  PROVE  /\ KeepsArgs(callArgs, Match(params, callArgs).args)
         /\ [stmt EXCEPT !.args = Match(params, callArgs).args] \in Statement
         /\ GoodStatement([stmt EXCEPT !.args = Match(params, callArgs).args], fun)
         /\ \A callee \in Nat, t \in Types \cup {NoType} :
              /\ WithCall(stmt, Match(params, callArgs).args, callee, t) \in Statement
              /\ GoodStatement(WithCall(stmt, Match(params, callArgs).args, callee, t), fun)
<1> DEFINE args == Match(params, callArgs).args
<1>1. /\ TypedArgs(callArgs) /\ Len(callArgs) = Len(stmt.args)
      /\ \A k \in DOMAIN stmt.args : GoodArg(callArgs[k], fun)
      /\ stmt \in Statement /\ GoodStatement(stmt, fun)
  BY TypedsFacts, CallArgsKept, BodyFacts DEF TypeInv
<1>2. KeepsArgs(callArgs, args)  BY <1>1, MatchFacts
<1> HIDE DEF args
<1>3. args \in Seq(Arg) /\ Len(args) = Len(stmt.args)  BY <1>1, <1>2 DEF KeepsArgs
<1>4. ASSUME NEW k \in DOMAIN stmt.args  PROVE GoodArg(args[k], fun)
  <2>1. DOMAIN callArgs = DOMAIN stmt.args
    BY <1>1, StatementFields DEF TypedArgs
  <2>2. KeepsArg(callArgs[k], args[k]) /\ GoodArg(callArgs[k], fun)
    BY <1>1, <1>2, <2>1 DEF KeepsArgs
  <2> QED  BY <2>2 DEF GoodArg, KeepsArg
<1>5. /\ [stmt EXCEPT !.args = args] \in Statement
      /\ GoodStatement([stmt EXCEPT !.args = args], fun)
      /\ \A callee \in Nat, t \in Types \cup {NoType} :
           /\ WithCall(stmt, args, callee, t) \in Statement
           /\ GoodStatement(WithCall(stmt, args, callee, t), fun)
  BY <1>1, <1>3, <1>4, ArgsGood
<1> QED  BY <1>2, <1>5 DEF args

LEMMA CandidateFacts ==
  ASSUME TypeInv, Comparing
  PROVE  /\ InBody /\ stmt.fn \in Names
         /\ candidate \in DOMAIN funcs /\ candidate \in Nat /\ candidate \in Placed
         /\ funcs[candidate] \in Function /\ funcs[candidate].typed
         /\ funcs[candidate].name = stmt.fn
         /\ funcs[candidate].params \in Seq(Types \cup {Untyped})
         /\ funcs[candidate].result \in Types \cup {NoType}
<1>1. InBody /\ stmt.fn # NoFunc /\ top.tried < Len(Candidates)  BY DEF Comparing, Searching
<1>2. stmt \in Statement  BY <1>1, BodyFacts DEF TypeInv
<1>3. stmt.fn \in Names  BY <1>1, <1>2, StatementFields
<1>4. top.tried \in Nat  BY <1>1, StackFacts DEF TypeInv, InBody
<1>5. Candidates = overloads[stmt.fn]
  <2>1. Candidates # <<>>  BY <1>1, <1>4
  <2> QED  BY <2>1 DEF Candidates
<1>6. overloads[stmt.fn] \in Seq(DOMAIN funcs)  BY <1>3 DEF TypeInv, TablesInv
<1>7. top.tried + 1 \in DOMAIN overloads[stmt.fn]  BY <1>1, <1>4, <1>5, <1>6
<1>8. candidate = overloads[stmt.fn][top.tried + 1]  BY <1>5 DEF candidate
<1>9. /\ candidate \in DOMAIN funcs /\ candidate \in Placed
      /\ funcs[candidate].typed /\ funcs[candidate].name = stmt.fn
  BY <1>3, <1>6, <1>7, <1>8 DEF TypeInv, TablesInv
<1>10. funcs[candidate] \in Function /\ DOMAIN funcs = 1 .. Len(funcs)
  BY <1>9, FuncsFacts DEF TypeInv
<1>11. candidate \in Nat  BY <1>9, <1>10
<1> QED  BY <1>1, <1>3, <1>9, <1>10, <1>11, FunctionFields

LEMMA CallOverloadTypes == TypeInv /\ CallOverload => TypeInv'
<1> SUFFICES ASSUME TypeInv, CallOverload  PROVE TypeInv'
  OBVIOUS
<1> DEFINE g == candidate
           args == Match(funcs[g].params, callArgs).args
           st == WithCall(stmt, args, g, funcs[g].result)
<1>1. Comparing /\ SameLength /\ funcs' = SetStatement(st) /\ CallEnds
      /\ UNCHANGED <<order, tables, sub, next, unresolved, errors>>
  BY DEF CallOverload, WithCall
<1>2. /\ InBody /\ g \in Nat /\ funcs[g].params \in Seq(Types \cup {Untyped})
      /\ funcs[g].result \in Types \cup {NoType}
  BY <1>1, CandidateFacts
<1>3. Len(funcs[g].params) = Len(stmt.args)  BY <1>1 DEF SameLength
<1> HIDE DEF g
<1>4. st \in Statement /\ GoodStatement(st, fun)  BY <1>2, <1>3, MatchKept
<1> HIDE DEF st
<1>5. unresolved' \in BOOLEAN /\ errors' \subseteq DOMAIN funcs
  BY <1>1 DEF TypeInv, WalkInv
<1> QED  BY <1>1, <1>2, <1>4, <1>5, BodyStep

LEMMA TriedFrame ==
  ASSUME StackInv, Visiting
  PROVE  /\ [top EXCEPT !.tried = top.tried + 1] \in Frames
         /\ [stack EXCEPT ![Len(stack)].tried = @ + 1]
              = [stack EXCEPT ![Len(stack)] = [top EXCEPT !.tried = top.tried + 1]]
         /\ [top EXCEPT !.tried = top.tried + 1].f = top.f
         /\ [top EXCEPT !.tried = top.tried + 1].s = top.s
         /\ [top EXCEPT !.tried = top.tried + 1].generated = top.generated
<1> DEFINE n == top.tried + 1
           fr == [top EXCEPT !.tried = n]
<1>1. top \in Frames /\ top = stack[Len(stack)] /\ Len(stack) \in DOMAIN stack /\ stack \in Seq(Frames)
  BY StackFacts DEF StackInv
<1>2. n \in Nat  BY <1>1 DEF Frames
<1>3. [stack EXCEPT ![Len(stack)].tried = @ + 1] = [stack EXCEPT ![Len(stack)] = fr]
  BY <1>1
<1> HIDE DEF n
<1>4. fr \in Frames /\ fr.f = top.f /\ fr.s = top.s /\ fr.generated = top.generated
  BY <1>1, <1>2 DEF Frames
<1> QED  BY <1>3, <1>4 DEF n

(* Writing a statement that is the one there changes nothing.              *)
LEMMA SameStatement ==
  ASSUME FunctionsInv, StackInv, InBody
  PROVE  SetStatement(stmt) = funcs
<1>1. /\ fun = funcs[top.f] /\ fun \in Function /\ top.f \in DOMAIN funcs
      /\ top.s \in DOMAIN fun.body /\ stmt = fun.body[top.s]
  BY BodyFacts, StackFacts
<1>2. [fun EXCEPT !.body = [fun.body EXCEPT ![top.s] = stmt]] = fun
  <2>1. [fun.body EXCEPT ![top.s] = stmt] = fun.body
    <3>1. fun.body \in Seq(Statement)  BY <1>1, FunctionFields
    <3> QED  BY <1>1, <3>1
  <2>2. [fun EXCEPT !.body = fun.body] = fun  BY <1>1 DEF Function
  <2> QED  BY <2>1, <2>2
<1>3. SetStatement(stmt) = [funcs EXCEPT ![top.f] = [fun EXCEPT !.body = [fun.body EXCEPT ![top.s] = stmt]]]
  BY <1>1 DEF SetStatement
<1>4. [funcs EXCEPT ![top.f] = fun] = funcs
  <2>1. funcs \in Seq(Function)  BY DEF FunctionsInv
  <2> QED  BY <1>1, <2>1
<1> QED  BY <1>2, <1>3, <1>4

(* A call that is searched for has no type.                                *)
LEMMA UntypedCall ==
  ASSUME FunctionsInv, StackInv, Searching
  PROVE  InBody /\ stmt.fn # NoFunc /\ stmt.t = NoType
<1>1. InBody /\ stmt.fn # NoFunc  BY DEF Searching
<1>2. top = stack[Len(stack)] /\ Len(stack) \in DOMAIN stack /\ top.tried \in Nat
  BY <1>1, StackFacts DEF InBody
<1>3. top.tried > 0 => funcs[top.f].body[top.s].t = NoType
  BY <1>2 DEF StackInv
<1> QED  BY <1>1, <1>2, <1>3 DEF Searching, stmt, fun

LEMMA NextOverloadTypes == TypeInv /\ NextOverload => TypeInv'
<1> SUFFICES ASSUME TypeInv, NextOverload  PROVE TypeInv'
  OBVIOUS
<1> DEFINE g == candidate
           args == Match(funcs[g].params, callArgs).args
           fr == [top EXCEPT !.tried = top.tried + 1]
<1>1. Comparing /\ UNCHANGED <<order, tables, pass, sub, next, unresolved, errors>>
      /\ stack' = [stack EXCEPT ![Len(stack)].tried = @ + 1]
      /\ \/ SameLength /\ funcs' = SetStatement([stmt EXCEPT !.args = args])
         \/ funcs' = funcs
  BY DEF NextOverload, walk
<1>2. /\ InBody /\ Visiting /\ funcs[g].params \in Seq(Types \cup {Untyped})
  BY <1>1, CandidateFacts DEF InBody
<1>0. stmt.fn # NoFunc /\ stmt.t = NoType /\ stmt \in Statement
  <2>1. Searching  BY <1>1 DEF Comparing
  <2> QED  BY <1>2, <2>1, UntypedCall, BodyFacts DEF TypeInv
<1>3. \E st \in Statement : /\ GoodStatement(st, fun) /\ st.fn # NoFunc /\ st.t = NoType
                            /\ funcs' = SetStatement(st)
  <2>1. CASE SameLength /\ funcs' = SetStatement([stmt EXCEPT !.args = args])
    <3>1. Len(funcs[g].params) = Len(stmt.args)  BY <2>1 DEF SameLength
    <3> DEFINE st == [stmt EXCEPT !.args = args]
    <3> HIDE DEF g
    <3>2. st \in Statement /\ GoodStatement(st, fun)  BY <1>2, <3>1, MatchKept
    <3>3. st.fn # NoFunc /\ st.t = NoType
      <4>1. args \in Seq(Arg)  BY <1>2, <3>1, MatchKept DEF KeepsArgs
      <4> HIDE DEF args
      <4> QED  BY <1>0, <4>1, StatementWithArgs
    <3> HIDE DEF st
    <3> QED  BY <2>1, <3>2, <3>3 DEF st, g
  <2>2. CASE funcs' = funcs
    <3>1. stmt \in Statement /\ GoodStatement(stmt, fun)  BY <1>2, BodyFacts DEF TypeInv
    <3> QED  BY <1>0, <1>2, <2>2, <3>1, SameStatement DEF TypeInv
  <2> QED  BY <1>1, <2>1, <2>2
<1>4. PICK st \in Statement : /\ GoodStatement(st, fun) /\ st.fn # NoFunc /\ st.t = NoType
                              /\ funcs' = SetStatement(st)
  BY <1>3
<1>5. FunctionsInv' /\ HeadsKept /\ DOMAIN funcs' = DOMAIN funcs
  BY <1>2, <1>4, StatementWritten DEF TypeInv
<1>6. TablesInv'  BY <1>1, <1>5, TablesKept DEF TypeInv
<1>7. StackInv'
  <2>1. /\ fr \in Frames /\ fr.f = top.f /\ fr.s = top.s /\ fr.generated = top.generated
        /\ stack' = [stack EXCEPT ![Len(stack)] = fr]
    BY <1>1, <1>2, TriedFrame DEF TypeInv
  <2>2. top.s \in Nat  BY <1>2, StackFacts DEF TypeInv
  <2> HIDE DEF fr
  <2>3. fr.s <= top.s + 1  BY <2>1, <2>2
  <2> QED  BY <1>1, <1>2, <1>4, <2>1, <2>3, StackMoves DEF TypeInv
<1>8. WalkInv'  BY <1>1, <1>5 DEF TypeInv, WalkInv
<1> QED  BY <1>5, <1>6, <1>7, <1>8 DEF TypeInv

-----------------------------------------------------------------------------
(* Type correctness: copies of generic functions.                          *)

LEMMA GenericFacts ==
  ASSUME TypeInv, AllTried, NEW g \in GenericFor
  PROVE  /\ InBody /\ stmt.fn \in Names
         /\ g \in DOMAIN funcs /\ funcs[g] \in Function
         /\ IsGeneric(funcs[g]) /\ Parsed(funcs[g]) /\ funcs[g].name = stmt.fn
         /\ funcs[g].params \in Seq(Types \cup {Untyped})
         /\ Len(funcs[g].params) = Len(stmt.args)
<1>1. InBody /\ stmt.fn # NoFunc  BY DEF AllTried, Searching
<1>2. stmt.fn \in Names  BY <1>1, BodyFacts, StatementFields DEF TypeInv
<1>3. PICK k \in Suitable : g = Templates[k]  BY DEF GenericFor
<1>4. k \in DOMAIN Templates /\ Len(funcs[Templates[k]].params) = Len(stmt.args)
  BY <1>3 DEF Suitable
<1>5. Templates = generics[stmt.fn]
  <2>1. Templates # <<>>  BY <1>4
  <2> QED  BY <2>1 DEF Templates
<1>6. generics[stmt.fn] \in Seq(DOMAIN funcs)  BY <1>2 DEF TypeInv, TablesInv
<1>7. g \in DOMAIN funcs /\ IsGeneric(funcs[g]) /\ funcs[g].name = stmt.fn
  BY <1>2, <1>3, <1>4, <1>5, <1>6 DEF TypeInv, TablesInv
<1>8. funcs[g] \in Function /\ Parsed(funcs[g])
  BY <1>7, FuncsFacts DEF TypeInv, GoodFunction
<1> QED  BY <1>1, <1>2, <1>3, <1>4, <1>7, <1>8, FunctionFields

(* Arguments no match has cast, with literals of the types they have where  *)
(* they are written.                                                       *)
AsWritten(args) == \A k \in DOMAIN args : ~ args[k].cast /\ (args[k].lit => args[k].t \in {"int", "nil"})

(* A copy of what the parser left is a function without a type.            *)
CopyOf(f, types) == [f EXCEPT !.params = types]

LEMMA InstanceFacts ==
  ASSUME NEW f \in Function, Parsed(f), NEW types \in Seq(Types), Len(types) = Len(f.params),
         NEW g, g = CopyOf(f, types)
  PROVE  /\ g \in Function /\ GoodFunction(g) /\ ~ IsGeneric(g)
         /\ ~ g.typed /\ g.result = NoType /\ g.params = types /\ g.name = f.name
         /\ g.body = f.body
         /\ \A s \in DOMAIN g.body : g.body[s].t = NoType /\ AsWritten(g.body[s].args)
<1>1. types \in Seq(Types \cup {Untyped})  BY SeqWider
<1>2. /\ g \in Function /\ g.params = types /\ g.name = f.name /\ g.body = f.body
      /\ g.typed = f.typed /\ g.result = f.result
  BY <1>1 DEF Function, CopyOf
<1>3. ~ g.typed /\ g.result = NoType  BY <1>2 DEF Parsed
<1>4. ~ IsGeneric(g)  BY <1>2, FuncDeclsAssumption DEF IsGeneric
<1>5. DOMAIN g.params = DOMAIN f.params  BY <1>2, FunctionFields
<1>6. ASSUME NEW s \in DOMAIN g.body
      PROVE  GoodStatement(g.body[s], g) /\ g.body[s].t = NoType /\ AsWritten(g.body[s].args)
  <2>1. /\ f.body[s].t = NoType
        /\ f.body[s].fn = NoFunc => f.body[s].ret
        /\ \A i \in DOMAIN f.body[s].args :
             LET a == f.body[s].args[i] IN
             ~ a.cast /\ IF a.lit THEN a.t \in {"int", "nil"} ELSE a.v \in DOMAIN f.params
    BY <1>2 DEF Parsed
  <2>2. "int" \in Types /\ "nil" \in Types  BY TypesAssumption, FuncDeclsAssumption
  <2>3. ASSUME NEW i \in DOMAIN f.body[s].args  PROVE GoodArg(f.body[s].args[i], g)
    <3>1. f.body[s].args[i] \in Arg
      BY <1>2, FunctionFields, StatementFields
    <3> QED  BY <1>5, <2>1, <2>2, <3>1 DEF GoodArg, Arg
  <2>4. AsWritten(f.body[s].args)  BY <2>1 DEF AsWritten
  <2> QED  BY <1>2, <2>1, <2>3, <2>4 DEF GoodStatement
<1> QED  BY <1>2, <1>3, <1>4, <1>6 DEF GoodFunction

LEMMA TypesOfFacts ==
  ASSUME NEW args, TypedArgs(args)
  PROVE  TypesOf(args) \in Seq(Types) /\ Len(TypesOf(args)) = Len(args)
<1>1. args \in Seq(Arg) /\ DOMAIN args = 1 .. Len(args) /\ Len(args) \in Nat
  BY DEF TypedArgs
<1>2. TypesOf(args) \in [1 .. Len(args) -> Types]  BY <1>1 DEF TypedArgs, TypesOf
<1> QED  BY <1>1, <1>2

LEMMA KeptArgsTyped ==
  ASSUME NEW args, TypedArgs(args), NEW now, KeepsArgs(args, now)
  PROVE  TypedArgs(now)
<1>1. now \in Seq(Arg) /\ DOMAIN now = DOMAIN args  BY DEF KeepsArgs, TypedArgs
<1>2. \A i \in DOMAIN now : now[i].t \in Types  BY <1>1 DEF KeepsArgs, KeepsArg
<1> QED  BY <1>1, <1>2 DEF TypedArgs

(* What a call of a generic function does: the copy comes last, and the    *)
(* call waits for it.                                                      *)
LEMMA CallGenericFacts ==
  ASSUME TypeInv, CallGeneric
  PROVE  \E g \in GenericFor, st \in Statement, copy \in Function :
           /\ InBody /\ Len(stack) < MaxNesting
           /\ GoodStatement(st, fun) /\ st.fn = stmt.fn /\ st.t = NoType /\ st.fn # NoFunc
           /\ st.callee = stmt.callee /\ st.ret = stmt.ret
           /\ GoodFunction(copy) /\ ~ IsGeneric(copy) /\ ~ copy.typed /\ copy.result = NoType
           /\ copy.name = stmt.fn /\ copy.params = TypesOf(st.args)
           /\ \A s \in DOMAIN copy.body : copy.body[s].t = NoType /\ AsWritten(copy.body[s].args)
           /\ \A k \in DOMAIN st.args :
                /\ funcs[g].params[k] # Untyped => Passes(st.args[k].t, funcs[g].params[k])
           /\ g \in DOMAIN funcs /\ Len(st.args) = Len(funcs[g].params)
           /\ KeepsArgs(callArgs, st.args)
           /\ funcs' = Append(SetStatement(st), copy)
           /\ stack' = Append(stack, Frame(Len(funcs) + 1, TRUE))
           /\ UNCHANGED <<order, tables, walk, unresolved, errors>>
<1>1. PICK g \in GenericFor :
        /\ Match(funcs[g].params, callArgs).ok
        /\ Len(stack) < MaxNesting
        /\ funcs' = Append(SetStatement([stmt EXCEPT !.args = Match(funcs[g].params, callArgs).args]),
                           Instance(g, TypesOf(Match(funcs[g].params, callArgs).args)))
        /\ stack' = Append(stack, Frame(Len(funcs) + 1, TRUE))
        /\ UNCHANGED <<order, tables, walk, unresolved, errors>>
  BY DEF CallGeneric, Fitted
<1>2. AllTried /\ Searching  BY DEF CallGeneric, AllTried
<1>3. /\ InBody /\ g \in DOMAIN funcs /\ funcs[g] \in Function
      /\ Parsed(funcs[g]) /\ funcs[g].name = stmt.fn
      /\ funcs[g].params \in Seq(Types \cup {Untyped})
      /\ Len(funcs[g].params) = Len(stmt.args)
  BY <1>2, GenericFacts
<1>4. stmt \in Statement /\ stmt.fn # NoFunc /\ stmt.t = NoType
  BY <1>2, UntypedCall, BodyFacts DEF TypeInv
<1> DEFINE args == Match(funcs[g].params, callArgs).args
           st == [stmt EXCEPT !.args = args]
           copy == CopyOf(funcs[g], TypesOf(args))
<1>5. /\ KeepsArgs(callArgs, args) /\ st \in Statement /\ GoodStatement(st, fun)
  BY <1>3, MatchKept
<1>6. TypedArgs(callArgs) /\ Len(callArgs) = Len(stmt.args)
  BY <1>3, TypedsFacts DEF TypeInv
<1>7. Match(funcs[g].params, callArgs).ok  BY <1>1
<1>8. \A k \in DOMAIN callArgs : funcs[g].params[k] # Untyped => Passes(args[k].t, funcs[g].params[k])
  BY <1>3, <1>6, <1>7, MatchFacts
<1>9. funcs' = Append(SetStatement(st), copy)
  BY <1>1 DEF Instance, CopyOf
<1> HIDE DEF args
<1>10. args \in Seq(Arg) /\ Len(args) = Len(stmt.args) /\ TypedArgs(args)
       /\ DOMAIN args = DOMAIN callArgs
  BY <1>5, <1>6, KeptArgsTyped DEF KeepsArgs, TypedArgs
<1>11. /\ st.args = args /\ st.fn = stmt.fn /\ st.t = NoType /\ st.callee = stmt.callee
       /\ st.ret = stmt.ret
  BY <1>4, <1>10, StatementWithArgs
<1> HIDE DEF st
<1>12. TypesOf(args) \in Seq(Types) /\ Len(TypesOf(args)) = Len(funcs[g].params)
  BY <1>3, <1>10, TypesOfFacts
<1>12a. copy = CopyOf(funcs[g], TypesOf(args))  OBVIOUS
<1> HIDE DEF copy
<1>13. /\ copy \in Function /\ GoodFunction(copy) /\ ~ IsGeneric(copy) /\ ~ copy.typed
       /\ copy.result = NoType /\ copy.params = TypesOf(args) /\ copy.name = funcs[g].name
       /\ \A s \in DOMAIN copy.body : copy.body[s].t = NoType /\ AsWritten(copy.body[s].args)
  BY <1>3, <1>12, <1>12a, InstanceFacts
<1>14. g \in GenericFor /\ st \in Statement /\ copy \in Function  BY <1>1, <1>5, <1>13
<1>15. /\ st.fn = stmt.fn /\ st.t = NoType /\ st.fn # NoFunc /\ st.callee = stmt.callee
       /\ st.ret = stmt.ret
       /\ copy.name = stmt.fn /\ copy.params = TypesOf(st.args)
       /\ \A k \in DOMAIN st.args :
            funcs[g].params[k] # Untyped => Passes(st.args[k].t, funcs[g].params[k])
       /\ Len(st.args) = Len(funcs[g].params)
       /\ KeepsArgs(callArgs, st.args)
  BY <1>3, <1>4, <1>5, <1>8, <1>10, <1>11, <1>13
<1>16. /\ InBody /\ Len(stack) < MaxNesting /\ GoodStatement(st, fun)
       /\ GoodFunction(copy) /\ ~ IsGeneric(copy) /\ ~ copy.typed /\ copy.result = NoType
       /\ \A s \in DOMAIN copy.body : copy.body[s].t = NoType /\ AsWritten(copy.body[s].args)
       /\ g \in DOMAIN funcs
       /\ funcs' = Append(SetStatement(st), copy)
       /\ stack' = Append(stack, Frame(Len(funcs) + 1, TRUE))
       /\ UNCHANGED <<order, tables, walk, unresolved, errors>>
  BY <1>1, <1>3, <1>5, <1>9, <1>13
<1> QED  BY <1>14, <1>15, <1>16

LEMMA SeqAppend ==
  ASSUME NEW S, NEW q \in Seq(S), NEW x \in S
  PROVE  LET now == Append(q, x)
         IN /\ now \in Seq(S) /\ Len(now) = Len(q) + 1 /\ DOMAIN now = 1 .. Len(q) + 1
            /\ Len(q) \in Nat /\ DOMAIN q = 1 .. Len(q)
            /\ now[Len(q) + 1] = x /\ \A j \in DOMAIN q : now[j] = q[j]
OBVIOUS

(* The functions after a call of a generic function.                       *)
LEMMA CopyAdded ==
  ASSUME FunctionsInv, StackInv, InBody, NEW st \in Statement, GoodStatement(st, fun),
         NEW copy \in Function, GoodFunction(copy),
         funcs' = Append(SetStatement(st), copy)
  PROVE  /\ FunctionsInv' /\ HeadsKept
         /\ Len(funcs) \in Nat /\ DOMAIN funcs = 1 .. Len(funcs)
         /\ DOMAIN funcs' = 1 .. Len(funcs) + 1 /\ Len(funcs') = Len(funcs) + 1
         /\ (funcs')[Len(funcs) + 1] = copy
         /\ \A i \in DOMAIN funcs : i # top.f => (funcs')[i] = funcs[i]
         /\ SameHead(fun, (funcs')[top.f]) /\ ~ IsGeneric((funcs')[top.f])
         /\ (funcs')[top.f].body = [fun.body EXCEPT ![top.s] = st]
         /\ \A i \in DOMAIN funcs : SameHead(funcs[i], (funcs')[i])
<1>1. /\ fun = funcs[top.f] /\ fun \in Function /\ GoodFunction(fun) /\ ~ IsGeneric(fun)
      /\ top.s \in DOMAIN fun.body /\ top.f \in DOMAIN funcs
  BY BodyFacts, StackFacts
<1> DEFINE mid == SetStatement(st)
<1>2. mid = WithStatement(funcs, top.f, top.s, st)  BY DEF SetStatement, WithStatement
<1>3. funcs \in Seq(Function)  BY DEF FunctionsInv
<1>4. /\ mid \in Seq(Function) /\ Len(mid) = Len(funcs) /\ DOMAIN mid = DOMAIN funcs
      /\ \A i \in DOMAIN funcs : i # top.f => mid[i] = funcs[i]
      /\ SameHead(fun, mid[top.f])
      /\ mid[top.f].body = [fun.body EXCEPT ![top.s] = st]
  BY <1>1, <1>2, <1>3, WithStatementFacts
<1>5. GoodFunction(mid[top.f]) /\ ~ IsGeneric(mid[top.f])
  BY <1>1, <1>4, GoodWritten
<1>6. funcs' = Append(mid, copy)  OBVIOUS
<1> HIDE DEF mid
<1>7. /\ funcs' \in Seq(Function) /\ Len(funcs') = Len(mid) + 1 /\ DOMAIN funcs' = 1 .. Len(mid) + 1
      /\ Len(mid) \in Nat /\ DOMAIN mid = 1 .. Len(mid)
      /\ (funcs')[Len(mid) + 1] = copy /\ \A i \in DOMAIN mid : (funcs')[i] = mid[i]
  BY <1>4, <1>6, SeqAppend
<1>8. ASSUME NEW i \in DOMAIN funcs'  PROVE GoodFunction((funcs')[i])
  <2>1. CASE i = top.f  BY <1>1, <1>4, <1>5, <1>7, <2>1
  <2>2. CASE i \in DOMAIN funcs /\ i # top.f
    BY <1>4, <1>7, <2>2 DEF FunctionsInv
  <2>3. CASE i = Len(mid) + 1  BY <1>7, <2>3
  <2> QED  BY <1>4, <1>7, <2>1, <2>2, <2>3
<1>9. ASSUME NEW i \in DOMAIN funcs  PROVE SameHead(funcs[i], (funcs')[i])
  <2>1. (funcs')[i] = mid[i]  BY <1>4, <1>7
  <2> QED  BY <1>1, <1>4, <2>1 DEF SameHead
<1>10. HeadsKept  BY <1>3, <1>4, <1>7, <1>9 DEF HeadsKept, SameHead
<1>11. FunctionsInv'  BY <1>7, <1>8 DEF FunctionsInv
<1>12. (funcs')[top.f] = mid[top.f]  BY <1>1, <1>4, <1>7
<1> QED  BY <1>4, <1>5, <1>7, <1>9, <1>10, <1>11, <1>12

LEMMA CallGenericTypes == TypeInv /\ CallGeneric => TypeInv'
<1> SUFFICES ASSUME TypeInv, CallGeneric  PROVE TypeInv'
  OBVIOUS
<1>1. PICK st \in Statement, copy \in Function :
        /\ InBody /\ Len(stack) < MaxNesting
        /\ GoodStatement(st, fun) /\ st.t = NoType /\ st.fn # NoFunc
        /\ GoodFunction(copy) /\ ~ IsGeneric(copy)
        /\ funcs' = Append(SetStatement(st), copy)
        /\ stack' = Append(stack, Frame(Len(funcs) + 1, TRUE))
        /\ UNCHANGED <<order, tables, walk, unresolved, errors>>
  BY CallGenericFacts, Zenon
<1> DEFINE m == Len(funcs)
           n == Len(stack)
           fr == Frame(m + 1, TRUE)
<1>2. /\ FunctionsInv' /\ HeadsKept
      /\ m \in Nat /\ DOMAIN funcs = 1 .. m
      /\ DOMAIN funcs' = 1 .. m + 1
      /\ (funcs')[m + 1] = copy
      /\ \A i \in DOMAIN funcs : i # top.f => (funcs')[i] = funcs[i]
      /\ SameHead(fun, (funcs')[top.f]) /\ ~ IsGeneric((funcs')[top.f])
      /\ (funcs')[top.f].body = [fun.body EXCEPT ![top.s] = st]
      /\ \A i \in DOMAIN funcs : SameHead(funcs[i], (funcs')[i])
  BY <1>1, CopyAdded DEF TypeInv
<1>3. TablesInv'  BY <1>1, <1>2, TablesKept DEF TypeInv
<1>4. WalkInv'  BY <1>1, <1>2 DEF TypeInv, WalkInv, walk
<1>5. /\ n \in Nat \ {0} /\ DOMAIN stack = 1 .. n /\ n \in DOMAIN stack /\ top = stack[n]
      /\ pass \in Walks /\ next <= Len(order) /\ stack[1].f = order[next]
      /\ top.f \in DOMAIN funcs /\ top.s \in Nat \ {0}
  BY <1>1, StackFacts DEF TypeInv, InBody
<1>6. /\ fun = funcs[top.f] /\ fun \in Function /\ top.s \in DOMAIN fun.body
  BY <1>1, BodyFacts DEF TypeInv
<1>7. stack \in Seq(Frames)  BY DEF TypeInv, StackInv
<1> HIDE DEF m
<1>8. fr \in Frames /\ fr.f = m + 1 /\ fr.s = 1 /\ fr.tried = 0 /\ fr.generated = TRUE
  BY <1>2 DEF Frames, Frame
<1>9. stack' = Append(stack, fr)  BY <1>1 DEF m
<1> HIDE DEF fr, n
<1>10. /\ stack' \in Seq(Frames) /\ Len(stack') = n + 1 /\ DOMAIN stack' = 1 .. n + 1
       /\ (stack')[n + 1] = fr /\ \A k \in DOMAIN stack : (stack')[k] = stack[k]
  BY <1>7, <1>8, <1>9, SeqAppend DEF n
<1>11. ASSUME NEW k \in 1 .. n
       PROVE  /\ (stack')[k] = stack[k] /\ stack[k].f \in DOMAIN funcs
              /\ stack[k].f \in DOMAIN funcs' /\ ~ IsGeneric((funcs')[stack[k].f])
              /\ stack[k].generated <=> k > 1
              /\ \A j \in DOMAIN stack : j # k => stack[j].f # stack[k].f
  <2>1. /\ stack[k].f \in DOMAIN funcs /\ ~ IsGeneric(funcs[stack[k].f])
        /\ stack[k].generated <=> k > 1
        /\ \A j \in DOMAIN stack : j # k => stack[j].f # stack[k].f
    BY <1>5 DEF TypeInv, StackInv
  <2>2. DOMAIN funcs \subseteq DOMAIN funcs'  BY <1>2
  <2> QED  BY <1>2, <1>5, <1>10, <2>1, <2>2, SMTT(30) DEF SameHead, IsGeneric
<1>12. ASSUME NEW k \in 1 .. n
       PROVE  /\ stack[k].s <= Len((funcs')[stack[k].f].body)
              /\ (funcs')[stack[k].f].body[stack[k].s].fn # NoFunc
              /\ (funcs')[stack[k].f].body[stack[k].s].t = NoType
  <2>1. CASE k = n
    <3> DEFINE b == (funcs')[top.f].body
    <3>1. b = [fun.body EXCEPT ![top.s] = st]  BY <1>2
    <3>2. fun.body \in Seq(Statement) /\ Len(fun.body) \in Nat /\ DOMAIN fun.body = 1 .. Len(fun.body)
      BY <1>6, FunctionFields
    <3> HIDE DEF b
    <3>3. Len(b) = Len(fun.body) /\ b[top.s] = st  BY <1>6, <3>1, <3>2
    <3>4. top.s <= Len(fun.body)  BY <1>6, <3>2
    <3> QED  BY <1>1, <1>5, <2>1, <3>3, <3>4 DEF b
  <2>2. CASE k # n
    <3>0. k < n  BY <1>5, <2>2
    <3>1. k < Len(stack)  BY <3>0 DEF n
    <3>2. /\ stack[k].s <= Len(funcs[stack[k].f].body)
          /\ funcs[stack[k].f].body[stack[k].s].fn # NoFunc
          /\ funcs[stack[k].f].body[stack[k].s].t = NoType
      BY <1>5, <3>1 DEF TypeInv, StackInv
    <3>3. stack[k].f # top.f  BY <1>5, <1>11, <2>2
    <3>4. (funcs')[stack[k].f] = funcs[stack[k].f]  BY <1>2, <1>11, <3>3
    <3> QED  BY <3>2, <3>4
  <2> QED  BY <2>1, <2>2
<1>13. ASSUME NEW k \in 1 .. n
       PROVE  stack[k].s <= Len((funcs')[stack[k].f].body) + 1
  <2>1. stack[k] \in Frames  BY <1>5, <1>7
  <2>2. (funcs')[stack[k].f] \in Function  BY <1>2, <1>11 DEF FunctionsInv
  <2>3. Len((funcs')[stack[k].f].body) \in Nat  BY <2>2, FunctionFields
  <2> QED  BY <1>12, <2>1, <2>3 DEF Frames
<1>14. ASSUME NEW k \in DOMAIN stack'
       PROVE  /\ (stack')[k].f \in DOMAIN funcs' /\ ~ IsGeneric((funcs')[(stack')[k].f])
              /\ (stack')[k].generated <=> k > 1
              /\ (stack')[k].s <= Len((funcs')[(stack')[k].f].body) + 1
              /\ k < Len(stack') \/ (stack')[k].tried > 0 =>
                   /\ (stack')[k].s <= Len((funcs')[(stack')[k].f].body)
                   /\ (funcs')[(stack')[k].f].body[(stack')[k].s].fn # NoFunc
                   /\ (funcs')[(stack')[k].f].body[(stack')[k].s].t = NoType
              /\ \A j \in DOMAIN stack' : j # k => (stack')[j].f # (stack')[k].f
  <2>1. CASE k \in 1 .. n
    <3>1. ASSUME NEW j \in DOMAIN stack', j # k  PROVE (stack')[j].f # stack[k].f
      <4>1. CASE j \in 1 .. n  BY <1>5, <1>11, <2>1, <3>1, <4>1
      <4>2. CASE j = n + 1  BY <1>2, <1>8, <1>10, <1>11, <2>1, <4>2
      <4> QED  BY <1>5, <1>10, <4>1, <4>2
    <3> QED  BY <1>11, <1>12, <1>13, <2>1, <3>1
  <2>2. CASE k = n + 1
    <3>1. (stack')[k] = fr /\ (funcs')[fr.f] = copy /\ fr.f \in DOMAIN funcs'
      BY <1>2, <1>8, <1>10, <2>2
    <3>2. fr.s <= Len(copy.body) + 1
      <4>1. Len(copy.body) \in Nat  BY FunctionFields
      <4> QED  BY <1>8, <4>1
    <3>3. ~ (k < Len(stack') \/ fr.tried > 0)  BY <1>5, <1>8, <1>10, <2>2
    <3>4. k > 1  BY <1>5, <2>2
    <3>5. ASSUME NEW j \in DOMAIN stack', j # k  PROVE (stack')[j].f # fr.f
      <4>1. j \in 1 .. n  BY <1>5, <1>10, <2>2, <3>5
      <4> QED  BY <1>2, <1>8, <1>11, <4>1
    <3> QED  BY <1>1, <1>8, <3>1, <3>2, <3>3, <3>4, <3>5, ZenonT(60)
  <2> QED  BY <1>5, <1>10, <2>1, <2>2, SMTT(30)
<1>15. Len(stack') <= MaxNesting
  <2>1. n < MaxNesting  BY <1>1 DEF n
  <2> QED  BY <1>5, <1>10, <2>1, FuncDeclsAssumption
<1>16. pass' \in Walks /\ next' <= Len(order') /\ (stack')[1].f = order'[next']
  <2>1. pass' = pass /\ next' = next /\ order' = order  BY <1>1 DEF walk
  <2>2. (stack')[1] = stack[1]  BY <1>5, <1>11
  <2> QED  BY <1>5, <2>1, <2>2
<1>17. StackInv'  BY <1>10, <1>14, <1>15, <1>16 DEF StackInv
<1> QED  BY <1>2, <1>3, <1>4, <1>17 DEF TypeInv

-----------------------------------------------------------------------------
(* Type correctness: the steps that open and end walks and compilations.   *)

LEMMA Unstacked ==
  ASSUME stack' = <<>>
  PROVE  StackInv'
<1>1. MaxNesting \in Nat \ {0}  BY FuncDeclsAssumption
<1> QED  BY <1>1 DEF StackInv

LEMMA GenericEndTypes == TypeInv /\ (GenericMismatch \/ GenericOverflow) => TypeInv'
<1> SUFFICES ASSUME TypeInv, GenericMismatch \/ GenericOverflow  PROVE TypeInv'
  OBVIOUS
<1>1. pass' \in Ended /\ stack' = <<>> /\ UNCHANGED <<funcs, order, tables, sub, next, unresolved, errors>>
  BY DEF GenericMismatch, GenericOverflow, Ended
<1>2. FunctionsInv'  BY <1>1 DEF TypeInv, FunctionsInv
<1>3. HeadsKept
  <2>1. Len(funcs) \in Nat  BY DEF TypeInv, FunctionsInv
  <2> QED  BY <1>1, <2>1 DEF TypeInv, FunctionsInv, HeadsKept
<1>4. TablesInv'  BY <1>1, <1>3, TablesKept DEF TypeInv
<1>5. WalkInv'  BY <1>1 DEF TypeInv, WalkInv
<1> QED  BY <1>1, <1>2, <1>4, <1>5, Unstacked DEF TypeInv

LEMMA ChildFacts ==
  ASSUME TypeInv, AtChild
  PROVE  /\ pass \in Walks /\ stack = <<>>
         /\ next \in DOMAIN order /\ next + 1 \in Nat \ {0}
         /\ order[next] \in DOMAIN funcs /\ order[next] \in Nat
         /\ child = funcs[order[next]] /\ child \in Function /\ child.name \in Names
<1>1. pass \in Walks /\ stack = <<>> /\ next <= Len(order)  BY DEF AtChild, Visiting, Walks
<1>2. next \in Nat \ {0} /\ order \in Seq(DOMAIN funcs)  BY DEF TypeInv, WalkInv, TablesInv
<1>3. next \in DOMAIN order /\ next + 1 \in Nat \ {0}  BY <1>1, <1>2
<1>4. order[next] \in DOMAIN funcs  BY <1>2, <1>3
<1>5. funcs[order[next]] \in Function /\ order[next] \in Nat
  BY <1>4, FuncsFacts DEF TypeInv
<1> QED  BY <1>1, <1>3, <1>4, <1>5, FunctionFields DEF child

LEMMA HeadsSame ==
  ASSUME FunctionsInv, funcs' = funcs
  PROVE  FunctionsInv' /\ HeadsKept
<1>1. funcs \in Seq(Function) /\ Len(funcs) \in Nat  BY DEF FunctionsInv
<1> QED  BY <1>1 DEF FunctionsInv, HeadsKept

LEMMA Entered ==
  ASSUME TypeInv, AtChild, ~ IsGeneric(child), Enter, UNCHANGED <<funcs, order, pass, next>>
  PROVE  StackInv'
<1> DEFINE fr == Frame(order[next], FALSE)
<1>1. /\ pass \in Walks /\ next \in DOMAIN order /\ order[next] \in DOMAIN funcs
      /\ order[next] \in Nat /\ child = funcs[order[next]] /\ child \in Function
  BY ChildFacts
<1>2. fr \in Frames /\ fr.f = order[next] /\ fr.s = 1 /\ fr.tried = 0 /\ fr.generated = FALSE
  BY <1>1 DEF Frames, Frame
<1>3. stack' = <<fr>>  BY DEF Enter
<1>4. Len(child.body) \in Nat  BY <1>1, FunctionFields
<1>5. next <= Len(order)
  <2>1. order \in Seq(DOMAIN funcs)  BY DEF TypeInv, TablesInv
  <2> QED  BY <1>1, <2>1
<1> HIDE DEF fr
<1>6. stack' \in Seq(Frames) /\ Len(stack') = 1 /\ DOMAIN stack' = {1} /\ (stack')[1] = fr
  BY <1>2, <1>3
<1>7. Len(stack') <= MaxNesting  BY <1>6, FuncDeclsAssumption
<1>8. fr.s <= Len(child.body) + 1  BY <1>2, <1>4
<1>9. ASSUME NEW k \in DOMAIN stack'
      PROVE  /\ (stack')[k].f \in DOMAIN funcs' /\ ~ IsGeneric((funcs')[(stack')[k].f])
             /\ (stack')[k].generated <=> k > 1
             /\ (stack')[k].s <= Len((funcs')[(stack')[k].f].body) + 1
             /\ ~ (k < Len(stack') \/ (stack')[k].tried > 0)
             /\ \A j \in DOMAIN stack' : j = k
  BY <1>1, <1>2, <1>6, <1>8
<1>10. pass' \in Walks /\ next' <= Len(order') /\ (stack')[1].f = order'[next']
  BY <1>1, <1>2, <1>5, <1>6
<1> QED  BY <1>6, <1>7, <1>9, <1>10 DEF StackInv

LEMMA RegisterFuncTypes == TypeInv /\ RegisterFunc => TypeInv'
<1> SUFFICES ASSUME TypeInv, RegisterFunc  PROVE TypeInv'
  OBVIOUS
<1>1. /\ AtChild /\ ~ IsGeneric(child) /\ Enter /\ bases' = bases \cup {child.name}
      /\ UNCHANGED <<funcs, order, overloads, generics, symbols, pass, sub, next, unresolved, errors>>
  BY DEF RegisterFunc, walk
<1>2. FunctionsInv'  BY <1>1 DEF TypeInv, FunctionsInv
<1>3. TablesInv'
  <2>1. bases' \subseteq Names  BY <1>1, ChildFacts DEF TypeInv, TablesInv
  <2>2. Placed' = Placed  BY <1>1 DEF Placed
  <2> QED  BY <1>1, <2>1, <2>2 DEF TypeInv, TablesInv
<1>4. WalkInv'  BY <1>1 DEF TypeInv, WalkInv
<1> QED  BY <1>1, <1>2, <1>3, <1>4, Entered DEF TypeInv

LEMMA VisitFuncTypes == TypeInv /\ VisitFunc => TypeInv'
<1> SUFFICES ASSUME TypeInv, VisitFunc  PROVE TypeInv'
  OBVIOUS
<1>1. /\ AtChild /\ ~ IsGeneric(child) /\ Enter
      /\ UNCHANGED <<funcs, order, tables, pass, sub, next, unresolved, errors>>
  BY DEF VisitFunc, walk
<1>2. FunctionsInv' /\ HeadsKept  BY <1>1, HeadsSame DEF TypeInv
<1>3. TablesInv'  BY <1>1, <1>2, TablesKept DEF TypeInv
<1>4. WalkInv'  BY <1>1 DEF TypeInv, WalkInv
<1> QED  BY <1>1, <1>2, <1>3, <1>4, Entered DEF TypeInv

LEMMA SkipGenericTypes == TypeInv /\ SkipGeneric => TypeInv'
<1> SUFFICES ASSUME TypeInv, SkipGeneric  PROVE TypeInv'
  OBVIOUS
<1>1. /\ AtChild /\ next' = next + 1
      /\ UNCHANGED <<funcs, order, tables, pass, sub, stack, unresolved, errors>>
  BY DEF SkipGeneric
<1>2. FunctionsInv' /\ HeadsKept  BY <1>1, HeadsSame DEF TypeInv
<1>3. TablesInv'  BY <1>1, <1>2, TablesKept DEF TypeInv
<1>4. stack = <<>> /\ next + 1 \in Nat \ {0}  BY <1>1, ChildFacts
<1>5. WalkInv'  BY <1>1, <1>4 DEF TypeInv, WalkInv
<1> QED  BY <1>1, <1>2, <1>3, <1>4, <1>5, Unstacked DEF TypeInv

LEMMA RegisterGenericTypes == TypeInv /\ RegisterGeneric => TypeInv'
<1> SUFFICES ASSUME TypeInv, RegisterGeneric  PROVE TypeInv'
  OBVIOUS
<1> DEFINE n == child.name
           g == order[next]
<1>1. /\ AtChild /\ next' = next + 1 /\ IsGeneric(child) /\ bases' = bases \cup {n}
      /\ generics' = generics \/ generics' = [generics EXCEPT ![n] = Append(@, g)]
      /\ UNCHANGED <<funcs, order, overloads, symbols, pass, sub, stack, unresolved, errors>>
  BY DEF RegisterGeneric
<1>2. /\ stack = <<>> /\ next + 1 \in Nat \ {0} /\ g \in DOMAIN funcs /\ n \in Names
      /\ child = funcs[g]
  BY <1>1, ChildFacts
<1>3. FunctionsInv' /\ HeadsKept  BY <1>1, HeadsSame DEF TypeInv
<1>4. /\ generics' \in [Names -> Seq(DOMAIN funcs)]
      /\ \A m \in Names : \A k \in DOMAIN generics'[m] :
           IsGeneric(funcs[generics'[m][k]]) /\ funcs[generics'[m][k]].name = m
  <2>1. CASE generics' = generics  BY <2>1 DEF TypeInv, TablesInv
  <2>2. CASE generics' = [generics EXCEPT ![n] = Append(@, g)]
    <3>1. IsGeneric(funcs[g]) /\ funcs[g].name = n  BY <1>1, <1>2
    <3>2. generics \in [Names -> Seq(DOMAIN funcs)]  BY DEF TypeInv, TablesInv
    <3>3. generics[n] \in Seq(DOMAIN funcs)  BY <1>2, <3>2
    <3> DEFINE q == Append(generics[n], g)
    <3>4. /\ q \in Seq(DOMAIN funcs) /\ DOMAIN q = 1 .. Len(generics[n]) + 1
          /\ Len(generics[n]) \in Nat /\ DOMAIN generics[n] = 1 .. Len(generics[n])
          /\ q[Len(generics[n]) + 1] = g /\ \A j \in DOMAIN generics[n] : q[j] = generics[n][j]
      BY <1>2, <3>3, SeqAppend
    <3>5. generics' = [generics EXCEPT ![n] = q]  BY <2>2
    <3> HIDE DEF q, n, g
    <3>6. generics' \in [Names -> Seq(DOMAIN funcs)]  BY <1>2, <3>2, <3>4, <3>5
    <3>7. ASSUME NEW m \in Names, NEW k \in DOMAIN generics'[m]
          PROVE  IsGeneric(funcs[generics'[m][k]]) /\ funcs[generics'[m][k]].name = m
      <4>1. CASE m = n
        <5>1. generics'[m] = q  BY <1>2, <3>2, <3>5, <4>1
        <5>2. k = Len(generics[n]) + 1 \/ k \in DOMAIN generics[n]  BY <3>4, <3>7, <5>1
        <5>3. \A j \in DOMAIN generics[n] :
                IsGeneric(funcs[generics[n][j]]) /\ funcs[generics[n][j]].name = n
          BY <1>2 DEF TypeInv, TablesInv
        <5> QED  BY <3>1, <3>4, <4>1, <5>1, <5>2, <5>3
      <4>2. CASE m # n
        <5>1. generics'[m] = generics[m]  BY <3>2, <3>5, <4>2
        <5> QED  BY <3>7, <5>1 DEF TypeInv, TablesInv
      <4> QED  BY <4>1, <4>2
    <3> QED  BY <3>6, <3>7
  <2> QED  BY <1>1, <2>1, <2>2
<1>5. TablesInv'
  <2>1. bases' \subseteq Names  BY <1>1, <1>2 DEF TypeInv, TablesInv
  <2>2. Placed' = Placed  BY <1>1 DEF Placed
  <2> HIDE DEF n, g
  <2> QED  BY <1>1, <1>4, <2>1, <2>2 DEF TypeInv, TablesInv
<1>6. WalkInv'  BY <1>1, <1>2 DEF TypeInv, WalkInv
<1> QED  BY <1>1, <1>2, <1>3, <1>5, <1>6, Unstacked DEF TypeInv

LEMMA EndWalkTypes == TypeInv /\ EndWalk => TypeInv'
<1> SUFFICES ASSUME TypeInv, EndWalk  PROVE TypeInv'
  OBVIOUS
<1>1. /\ AtEnd /\ next' = 1 /\ unresolved' = FALSE
      /\ UNCHANGED <<funcs, order, tables, stack, errors>>
  BY DEF EndWalk
<1>2. sub \in Nat /\ PassLimit \in Nat \ {0}  BY FuncDeclsAssumption DEF TypeInv, WalkInv
<1>3. pass' \in Walks \cup Ended /\ sub' \in 0 .. PassLimit
  BY <1>2 DEF EndWalk, Walks, Ended
<1>4. FunctionsInv' /\ HeadsKept  BY <1>1, HeadsSame DEF TypeInv
<1>5. TablesInv'  BY <1>1, <1>4, TablesKept DEF TypeInv
<1>6. stack = <<>>  BY <1>1 DEF AtEnd, Visiting
<1>7. WalkInv'
  <2>1. next' = 1 /\ unresolved' = FALSE /\ errors' = errors /\ funcs' = funcs  BY <1>1
  <2>2. errors \subseteq DOMAIN funcs  BY DEF TypeInv, WalkInv
  <2>3. (errors \subseteq DOMAIN funcs)'  BY <2>1, <2>2
  <2>4. next' \in Nat \ {0}  BY <2>1
  <2>5. unresolved' \in BOOLEAN  BY <2>1, Zenon
  <2> QED  BY <1>3, <2>3, <2>4, <2>5 DEF WalkInv
<1> QED  BY <1>1, <1>4, <1>5, <1>6, <1>7, Unstacked DEF TypeInv

-----------------------------------------------------------------------------
(* What a function is known to return.                                     *)

(* A set of places in a sequence that is not empty has a last one.         *)
LEMMA MaxFacts ==
  ASSUME NEW n \in Nat, NEW S, S \subseteq 1 .. n, S # {}
  PROVE  Max(S) \in S /\ \A s \in S : s <= Max(S)
<1> DEFINE R == OpToRel(<, Nat)
           T == {n - s : s \in S}
<1>1. T \subseteq Nat /\ T # {}
  <2>1. ASSUME NEW s \in S  PROVE n - s \in Nat
    <3>1. s \in 1 .. n  OBVIOUS
    <3> QED  BY <3>1
  <2>2. PICK s \in S : TRUE  OBVIOUS
  <2>3. n - s \in T  OBVIOUS
  <2> QED  BY <2>1, <2>3
<1>2. IsWellFoundedOn(R, Nat)  BY NatLessThanWellFounded, Zenon
<1> HIDE DEF R, T
<1>3. PICK x \in T : \A y \in T : ~ (<<y, x>> \in R)  BY <1>1, <1>2, WFMin
<1>4. \A y \in T : y \in Nat /\ x \in Nat /\ ~ (y < x)
  <2>1. ASSUME NEW y \in T, y < x  PROVE <<y, x>> \in R
    BY <1>1, <2>1 DEF R, OpToRel
  <2> QED  BY <1>1, <1>3, <2>1
<1>5. PICK m \in S : x = n - m  BY <1>3 DEF T
<1>6. \A s \in S : m >= s
  <2> TAKE s \in S
  <2>1. n - s \in T  BY DEF T
  <2>2. ~ (n - s < n - m)  BY <1>4, <1>5, <2>1
  <2>3. s \in 1 .. n /\ m \in 1 .. n  OBVIOUS
  <2> QED  BY <2>2, <2>3
<1>7. Max(S) \in S /\ \A s \in S : Max(S) >= s  BY <1>5, <1>6 DEF Max
<1> QED  BY <1>7

LEMMA DeductionFacts ==
  ASSUME NEW f \in Function
  PROVE  /\ Deduction(f) \in Types \cup {NoType}
         /\ Known(f) \subseteq Returns(f) /\ Returns(f) \subseteq DOMAIN f.body
         /\ Known(f) # {} => /\ Max(Known(f)) \in Known(f)
                             /\ \A s \in Known(f) : s <= Max(Known(f))
         /\ Returns(f) # {} /\ Deduction(f) # NoType =>
              Known(f) # {} /\ GoTogether(f) /\ Deduction(f) = f.body[Max(Known(f))].t
         /\ Known(f) # {} /\ GoTogether(f) => Deduction(f) = f.body[Max(Known(f))].t
         /\ Known(f) # {} /\ GoTogether(f) => Deduction(f) # NoType
<1>1. Known(f) \subseteq Returns(f) /\ Returns(f) \subseteq DOMAIN f.body
  BY DEF Known, Returns
<1>2. Len(f.body) \in Nat /\ DOMAIN f.body = 1 .. Len(f.body)
      /\ \A s \in DOMAIN f.body : f.body[s] \in Statement
  BY FunctionFields
<1>3. Known(f) # {} => Max(Known(f)) \in Known(f) /\ \A s \in Known(f) : s <= Max(Known(f))
  BY <1>1, <1>2, MaxFacts
<1>4. Known(f) # {} => f.body[Max(Known(f))].t \in Types
  <2>1. \A s \in Known(f) : f.body[s].t \in Types
    <3> TAKE s \in Known(f)
    <3>1. f.body[s] \in Statement  BY <1>1, <1>2
    <3>2. f.body[s].t # NoType  BY DEF Known
    <3> QED  BY <3>1, <3>2, StatementFields
  <2> QED  BY <1>3, <2>1
<1>5. Known(f) # {} => Returns(f) # {}  BY <1>1
<1> QED  BY <1>1, <1>3, <1>4, <1>5, TypesAssumption DEF Deduction

(* What resolve_func_type makes of a function.                             *)
LEMMA ResolvedFacts ==
  ASSUME NEW f \in Function, GoodFunction(f), ~ IsGeneric(f), NEW registering \in BOOLEAN,
         NEW g, g = Resolved(f, registering)
  PROVE  /\ g \in Function /\ GoodFunction(g) /\ ~ IsGeneric(g)
         /\ g.name = f.name /\ g.params = f.params /\ g.ret = f.ret /\ g.pos = f.pos /\ g.body = f.body
         /\ f.typed => g.typed /\ g.result = f.result
         /\ ~ f.typed /\ g.typed => ~ registering /\ g.result = ResultType(f)
         /\ ~ f.typed /\ ~ g.typed => registering \/ ResultType(f) = NoType
<1>1. /\ f.typed \in BOOLEAN /\ f.ret \in Types \cup {NoType} /\ f.result \in Types \cup {NoType}
      /\ f.typed <=> f.result # NoType
  BY FunctionFields DEF GoodFunction
<1>2. ResultType(f) \in Types \cup {NoType}  BY <1>1, DeductionFacts DEF ResultType
<1>3. CASE f.typed \/ registering \/ ResultType(f) = NoType
  <2>1. g = [f EXCEPT !.argsUnresolved = registering]  BY <1>3 DEF Resolved
  <2>2. g \in Function  BY <2>1 DEF Function
  <2>3. /\ g.name = f.name /\ g.params = f.params /\ g.ret = f.ret /\ g.pos = f.pos
        /\ g.body = f.body /\ g.typed = f.typed /\ g.result = f.result
    BY <2>1 DEF Function
  <2>4. ~ IsGeneric(g)  BY <2>3 DEF IsGeneric
  <2>5. GoodFunction(g)
    <3>1. \A s \in DOMAIN g.body : GoodStatement(g.body[s], g)
      BY <2>3 DEF GoodFunction, GoodStatement, GoodArg
    <3> QED  BY <1>1, <2>3, <2>4, <3>1 DEF GoodFunction
  <2> QED  BY <1>3, <2>2, <2>3, <2>4, <2>5
<1>4. CASE ~ (f.typed \/ registering \/ ResultType(f) = NoType)
  <2> DEFINE t == ResultType(f)
  <2>1. g = [f EXCEPT !.argsUnresolved = FALSE, !.typed = TRUE, !.result = t]
    BY <1>4 DEF Resolved
  <2>2. t \in Types /\ ~ f.typed /\ ~ registering  BY <1>2, <1>4
  <2> HIDE DEF t
  <2>3. g \in Function  BY <2>1, <2>2 DEF Function
  <2>4. /\ g.name = f.name /\ g.params = f.params /\ g.ret = f.ret /\ g.pos = f.pos
        /\ g.body = f.body /\ g.result = t
    BY <2>1 DEF Function
  <2>5. g.typed  BY <2>1 DEF Function
  <2>6. ~ IsGeneric(g)  BY <2>4 DEF IsGeneric
  <2>7. GoodFunction(g)
    <3>1. \A s \in DOMAIN g.body : GoodStatement(g.body[s], g)
      BY <2>4 DEF GoodFunction, GoodStatement, GoodArg
    <3> QED  BY <2>2, <2>4, <2>5, <2>6, <3>1, TypesAssumption DEF GoodFunction
  <2> QED  BY <2>2, <2>3, <2>4, <2>5, <2>6, <2>7 DEF t
<1> QED  BY <1>3, <1>4

-----------------------------------------------------------------------------
(* Type correctness: a function is left.                                   *)

LEMMA Replaced ==
  ASSUME FunctionsInv, NEW i \in DOMAIN funcs, NEW g \in Function, GoodFunction(g),
         g.name = funcs[i].name, g.params = funcs[i].params, funcs[i].typed => g.typed,
         funcs' = [funcs EXCEPT ![i] = g]
  PROVE  /\ FunctionsInv' /\ HeadsKept /\ DOMAIN funcs' = DOMAIN funcs
         /\ (funcs')[i] = g /\ \A j \in DOMAIN funcs : j # i => (funcs')[j] = funcs[j]
<1>1. funcs \in Seq(Function)  BY DEF FunctionsInv
<1>2. /\ funcs' \in Seq(Function) /\ Len(funcs') = Len(funcs) /\ DOMAIN funcs' = DOMAIN funcs
      /\ (funcs')[i] = g /\ \A j \in DOMAIN funcs : j # i => (funcs')[j] = funcs[j]
  <2>1. funcs' = Put(funcs, i, g)  BY DEF Put
  <2>3. DiffersAt(Function, funcs, i, g, Put(funcs, i, g))  BY <1>1, SeqPut
  <2>2. DiffersAt(Function, funcs, i, g, funcs')  BY <2>1, <2>3
  <2> QED  BY <2>2 DEF DiffersAt
<1>3. ASSUME NEW j \in DOMAIN funcs
      PROVE  /\ GoodFunction((funcs')[j])
             /\ (funcs')[j].name = funcs[j].name /\ (funcs')[j].params = funcs[j].params
             /\ funcs[j].typed => (funcs')[j].typed
  <2>1. CASE j = i  BY <1>2, <2>1
  <2>2. CASE j # i  BY <1>2, <2>2 DEF FunctionsInv
  <2> QED  BY <2>1, <2>2
<1>4. Len(funcs) \in Nat  BY <1>1
<1>5. HeadsKept
  <2>1. Len(funcs) <= Len(funcs')  BY <1>2, <1>4
  <2> QED  BY <1>1, <1>2, <1>3, <2>1 DEF HeadsKept
<1> QED  BY <1>2, <1>3, <1>5 DEF FunctionsInv

(* What the end of a visit does to the tables and to the errors.           *)
LEMMA DeclaredTables ==
  ASSUME TypeInv, Visiting, NEW g, g.typed => (funcs')[top.f].typed, ResolveFuncType(fun, g),
         HeadsKept, order' \in Seq(DOMAIN funcs'), Placed \subseteq Placed', top.f \in Placed',
         UNCHANGED <<bases, generics>>
  PROVE  TablesInv' /\ errors' \subseteq DOMAIN funcs /\ errors \subseteq errors'
<1> DEFINE n == fun.name
<1>1. /\ top.f \in DOMAIN funcs /\ fun = funcs[top.f] /\ fun \in Function /\ n \in Names
  BY StackFacts, FuncsFacts, FunctionFields DEF TypeInv, fun
<1>2. /\ DOMAIN funcs \subseteq DOMAIN funcs'
      /\ \A i \in DOMAIN funcs : /\ IsGeneric(funcs'[i]) <=> IsGeneric(funcs[i])
                                 /\ Signature(funcs'[i]) = Signature(funcs[i])
                                 /\ (funcs')[i].name = funcs[i].name
                                 /\ funcs[i].typed => (funcs')[i].typed
  BY HeadsFacts DEF HeadsKept
<1>3. errors' \subseteq DOMAIN funcs /\ errors \subseteq errors'
  BY FailFacts DEF ResolveFuncType
<1>4. overloads \in [Names -> Seq(DOMAIN funcs')]
  <2>1. ASSUME NEW m \in Names  PROVE overloads[m] \in Seq(DOMAIN funcs')
    BY <1>2, SeqWider DEF TypeInv, TablesInv
  <2> QED  BY <2>1 DEF TypeInv, TablesInv
<1>5. ASSUME NEW m \in Names, NEW k \in DOMAIN overloads[m]
      PROVE  LET h == overloads[m][k]
             IN (funcs')[h].typed /\ (funcs')[h].name = m /\ h \in Placed'
  <2>1. overloads[m] \in Seq(DOMAIN funcs)  BY DEF TypeInv, TablesInv
  <2>2. overloads[m][k] \in DOMAIN funcs  BY <2>1
  <2> QED  BY <1>2, <2>2 DEF TypeInv, TablesInv
<1>6. ASSUME NEW k \in DOMAIN symbols
      PROVE  LET h == symbols[k]
             IN h \in DOMAIN funcs' /\ (funcs')[h].typed /\ Signature((funcs')[h]) = k /\ h \in Placed'
  BY <1>2 DEF TypeInv, TablesInv
<1>7. \/ UNCHANGED <<overloads, symbols>>
      \/ /\ g.typed
         /\ overloads' = [overloads EXCEPT ![n] = Append(@, top.f)]
         /\ \/ symbols' = symbols
            \/ symbols' = [k \in DOMAIN symbols \cup {Signature(fun)} |->
                             IF k \in DOMAIN symbols THEN symbols[k] ELSE top.f]
  BY DEF ResolveFuncType, Declare
<1>8. /\ overloads' \in [Names -> Seq(DOMAIN funcs')]
      /\ \A m \in Names : \A k \in DOMAIN overloads'[m] :
           LET h == overloads'[m][k]
           IN (funcs')[h].typed /\ (funcs')[h].name = m /\ h \in Placed'
  <2>1. CASE overloads' = overloads  BY <1>4, <1>5, <2>1
  <2>2. CASE g.typed /\ overloads' = [overloads EXCEPT ![n] = Append(@, top.f)]
    <3> DEFINE q == Append(overloads[n], top.f)
    <3>1. overloads[n] \in Seq(DOMAIN funcs') /\ top.f \in DOMAIN funcs'  BY <1>1, <1>2, <1>4
    <3>2. /\ q \in Seq(DOMAIN funcs') /\ DOMAIN q = 1 .. Len(overloads[n]) + 1
          /\ Len(overloads[n]) \in Nat /\ DOMAIN overloads[n] = 1 .. Len(overloads[n])
          /\ q[Len(overloads[n]) + 1] = top.f
          /\ \A j \in DOMAIN overloads[n] : q[j] = overloads[n][j]
      BY <3>1, SeqAppend
    <3>3. overloads' = [overloads EXCEPT ![n] = q]  BY <2>2
    <3>4. (funcs')[top.f].typed /\ (funcs')[top.f].name = n  BY <1>1, <1>2, <2>2
    <3> HIDE DEF q, n
    <3>5. overloads' \in [Names -> Seq(DOMAIN funcs')]  BY <1>1, <1>4, <3>2, <3>3
    <3>6. ASSUME NEW m \in Names, NEW k \in DOMAIN overloads'[m]
          PROVE  LET h == overloads'[m][k]
                 IN (funcs')[h].typed /\ (funcs')[h].name = m /\ h \in Placed'
      <4>1. CASE m = n
        <5>1. overloads'[m] = q  BY <1>1, <1>4, <3>3, <4>1
        <5>2. k = Len(overloads[n]) + 1 \/ k \in DOMAIN overloads[n]  BY <3>2, <3>6, <5>1
        <5> QED  BY <1>1, <1>5, <3>2, <3>4, <4>1, <5>1, <5>2
      <4>2. CASE m # n
        <5>1. overloads'[m] = overloads[m]  BY <1>4, <3>3, <4>2
        <5> QED  BY <1>5, <3>6, <5>1
      <4> QED  BY <4>1, <4>2
    <3> QED  BY <3>5, <3>6
  <2> QED  BY <1>7, <2>1, <2>2
<1>9. \A k \in DOMAIN symbols' :
        LET h == symbols'[k]
        IN h \in DOMAIN funcs' /\ (funcs')[h].typed /\ Signature((funcs')[h]) = k /\ h \in Placed'
  <2>1. CASE symbols' = symbols  BY <1>6, <2>1
  <2>2. CASE g.typed /\ symbols' = [k \in DOMAIN symbols \cup {Signature(fun)} |->
                                      IF k \in DOMAIN symbols THEN symbols[k] ELSE top.f]
    <3>1. /\ top.f \in DOMAIN funcs' /\ (funcs')[top.f].typed
          /\ Signature((funcs')[top.f]) = Signature(fun)
      BY <1>1, <1>2, <2>2
    <3> DEFINE key == Signature(fun)
    <3> HIDE DEF key
    <3>2. symbols' = [k \in DOMAIN symbols \cup {key} |->
                        IF k \in DOMAIN symbols THEN symbols[k] ELSE top.f]
      BY <2>2 DEF key
    <3> TAKE k \in DOMAIN symbols'
    <3>3. CASE k \in DOMAIN symbols
      <4>1. symbols'[k] = symbols[k]  BY <3>2, <3>3
      <4> QED  BY <1>6, <3>3, <4>1
    <3>4. CASE k \notin DOMAIN symbols
      <4>1. k = key /\ symbols'[k] = top.f  BY <3>2, <3>4
      <4> QED  BY <3>1, <4>1 DEF key
    <3> QED  BY <3>3, <3>4
  <2> QED  BY <1>7, <2>1, <2>2
<1>10. /\ generics' \in [Names -> Seq(DOMAIN funcs')]
       /\ \A m \in Names : \A k \in DOMAIN generics'[m] :
            IsGeneric((funcs')[generics'[m][k]]) /\ (funcs')[generics'[m][k]].name = m
  <2>1. ASSUME NEW m \in Names  PROVE generics[m] \in Seq(DOMAIN funcs')
    BY <1>2, SeqWider DEF TypeInv, TablesInv
  <2>2. generics \in [Names -> Seq(DOMAIN funcs')]  BY <2>1 DEF TypeInv, TablesInv
  <2>3. ASSUME NEW m \in Names, NEW k \in DOMAIN generics[m]
        PROVE  IsGeneric((funcs')[generics[m][k]]) /\ (funcs')[generics[m][k]].name = m
    <3>1. generics[m] \in Seq(DOMAIN funcs)  BY DEF TypeInv, TablesInv
    <3>2. generics[m][k] \in DOMAIN funcs  BY <3>1
    <3>3. IsGeneric(funcs[generics[m][k]]) /\ funcs[generics[m][k]].name = m
      BY DEF TypeInv, TablesInv
    <3> QED  BY <1>2, <3>2, <3>3
  <2> QED  BY <2>2, <2>3
<1>11. bases' \subseteq Names  BY DEF TypeInv, TablesInv
<1>12. TablesInv'  BY <1>8, <1>9, <1>10, <1>11 DEF TablesInv
<1> QED  BY <1>3, <1>12

LEMMA FinishFuncTypes == TypeInv /\ FinishFunc => TypeInv'
<1> SUFFICES ASSUME TypeInv, FinishFunc  PROVE TypeInv'
  OBVIOUS
<1> DEFINE g == Resolved(fun, pass = "register")
<1>1. /\ BodyDone /\ ~ top.generated /\ ResolveFuncType(fun, g)
      /\ funcs' = [funcs EXCEPT ![top.f] = g]
      /\ unresolved' = (unresolved \/ ~ g.typed)
      /\ stack' = <<>> /\ next' = next + 1
      /\ UNCHANGED <<order, bases, generics, pass, sub>>
  BY DEF FinishFunc
<1>2. /\ Visiting /\ top = stack[Len(stack)] /\ Len(stack) \in Nat \ {0}
      /\ top.f \in DOMAIN funcs /\ ~ IsGeneric(fun) /\ fun = funcs[top.f]
      /\ top.generated <=> Len(stack) > 1
      /\ next <= Len(order) /\ stack[1].f = order[next]
  BY <1>1, StackFacts DEF BodyDone, TypeInv, fun
<1>3. fun \in Function /\ GoodFunction(fun)  BY <1>2, FuncsFacts DEF TypeInv
<1>4. /\ g \in Function /\ GoodFunction(g) /\ g.name = fun.name /\ g.params = fun.params
      /\ fun.typed => g.typed
  <2> DEFINE r == pass = "register"
  <2>1. g = Resolved(fun, r) /\ r \in BOOLEAN  OBVIOUS
  <2> HIDE DEF g, r
  <2> QED  BY <1>2, <1>3, <2>1, ResolvedFacts
<1> HIDE DEF g
<1>5. /\ FunctionsInv' /\ HeadsKept /\ DOMAIN funcs' = DOMAIN funcs /\ (funcs')[top.f] = g
  BY <1>1, <1>2, <1>4, Replaced DEF TypeInv
<1>6. next \in DOMAIN order /\ next + 1 \in Nat \ {0} /\ order \in Seq(DOMAIN funcs)
  BY <1>2 DEF TypeInv, WalkInv, TablesInv
<1>7. top.f \in Placed
  <2>1. ~ (Len(stack) > 1)  BY <1>1, <1>2, Zenon
  <2>2. Len(stack) = 1
    <3> DEFINE n == Len(stack)
    <3>1. n \in Nat \ {0} /\ ~ (n > 1)  BY <1>2, <2>1
    <3> HIDE DEF n
    <3>2. n = 1  BY <3>1
    <3> QED  BY <3>2 DEF n
  <2> QED  BY <1>2, <1>6, <2>2 DEF Placed
<1>8. Placed' = Placed  BY <1>1 DEF Placed
<1>9. TablesInv' /\ errors' \subseteq DOMAIN funcs
  BY <1>1, <1>2, <1>5, <1>6, <1>7, <1>8, DeclaredTables
<1>10. WalkInv'
  <2>1. unresolved' \in BOOLEAN  BY <1>1, Zenon
  <2>2. pass' \in Walks \cup Ended /\ sub' \in 0 .. PassLimit  BY <1>1 DEF TypeInv, WalkInv
  <2>3. next' \in Nat \ {0}  BY <1>1, <1>6, Zenon
  <2> QED  BY <1>5, <1>9, <2>1, <2>2, <2>3 DEF WalkInv
<1> QED  BY <1>1, <1>5, <1>9, <1>10, Unstacked DEF TypeInv

(* The frame of the call that waits for the copy on top, and the call.     *)
Caller == stack[Len(stack) - 1]
Waiting == funcs[Caller.f].body[Caller.s]
Orphan == Caller.generated /\ Waiting.ret

LEMMA CallerFacts ==
  ASSUME FunctionsInv, StackInv, Visiting, top.generated
  PROVE  /\ Len(stack) \in Nat /\ Len(stack) > 1 /\ Len(stack) - 1 \in DOMAIN stack
         /\ Caller \in Frames /\ Caller.f \in DOMAIN funcs /\ Caller.f # top.f
         /\ Caller.s \in Nat \ {0}
         /\ funcs[Caller.f] \in Function /\ GoodFunction(funcs[Caller.f])
         /\ ~ IsGeneric(funcs[Caller.f])
         /\ Caller.s \in DOMAIN funcs[Caller.f].body
         /\ Waiting \in Statement /\ GoodStatement(Waiting, funcs[Caller.f])
         /\ Waiting.fn # NoFunc /\ Waiting.t = NoType
         /\ \A k \in DOMAIN stack : k < Len(stack) - 1 =>
              stack[k].f # top.f /\ stack[k].f # Caller.f
<1> DEFINE n == Len(stack)
           m == n - 1
<1>1. n \in Nat \ {0} /\ n > 1 /\ DOMAIN stack = 1 .. n /\ top = stack[n]
  BY StackFacts
<1>3. stack \in Seq(Frames)  BY DEF StackInv
<1>4. Caller = stack[m]  BY DEF Caller
<1> HIDE DEF n
<1>2. m \in DOMAIN stack /\ m < n /\ m # n /\ n \in DOMAIN stack  BY <1>1
<1> HIDE DEF m
<1>5. n \in DOMAIN stack /\ m < Len(stack)  BY <1>2 DEF n
<1>6. /\ Caller.f \in DOMAIN funcs /\ ~ IsGeneric(funcs[Caller.f]) /\ Caller.f # top.f
      /\ Caller.s <= Len(funcs[Caller.f].body) /\ Waiting.fn # NoFunc /\ Waiting.t = NoType
  BY <1>1, <1>2, <1>4, <1>5 DEF StackInv, Waiting
<1>7. Caller \in Frames  BY <1>2, <1>3, <1>4
<1>8. Caller.s \in Nat \ {0}  BY <1>7 DEF Frames
<1>9. funcs[Caller.f] \in Function /\ GoodFunction(funcs[Caller.f])  BY <1>6, FuncsFacts
<1>10. Caller.s \in DOMAIN funcs[Caller.f].body  BY <1>6, <1>8, <1>9, FunctionFields
<1>11. Waiting \in Statement /\ GoodStatement(Waiting, funcs[Caller.f])
  BY <1>9, <1>10, FunctionFields DEF GoodFunction, Waiting
<1>12. ASSUME NEW k \in DOMAIN stack, k < m
       PROVE  stack[k].f # top.f /\ stack[k].f # Caller.f
  <2>1. k # n /\ k # m  BY <1>1, <1>2, <1>12 DEF m
  <2> QED  BY <1>1, <1>2, <1>4, <1>5, <2>1 DEF StackInv
<1> QED  BY <1>1, <1>2, <1>6, <1>7, <1>8, <1>9, <1>10, <1>11, <1>12, Zenon DEF m, n

(* The functions when a copy is left.                                      *)
LEMMA FinishedFuncs ==
  ASSUME TypeInv, FinishInstance, NEW g, g = Resolved(fun, FALSE)
  PROVE  /\ Visiting /\ top.generated /\ top.f \in DOMAIN funcs
         /\ fun = funcs[top.f] /\ fun \in Function /\ GoodFunction(fun) /\ ~ IsGeneric(fun)
         /\ ResolveFuncType(fun, g)
         /\ FunctionsInv' /\ HeadsKept /\ DOMAIN funcs' = DOMAIN funcs
         /\ g \in Function /\ (funcs')[top.f] = g
         /\ SameHead(funcs[Caller.f], (funcs')[Caller.f])
         /\ WithCallee(Waiting, top.f, g.result) \in Statement
         /\ (funcs')[Caller.f].body
              = [funcs[Caller.f].body EXCEPT ![Caller.s] = WithCallee(Waiting, top.f, g.result)]
         /\ \A j \in DOMAIN funcs : j # top.f /\ j # Caller.f => (funcs')[j] = funcs[j]
<1> DEFINE st == WithCallee(Waiting, top.f, g.result)
           mid == [funcs EXCEPT ![top.f] = g]
<1>1. /\ BodyDone /\ top.generated /\ ResolveFuncType(fun, g)
      /\ funcs' = [funcs EXCEPT ![top.f] = g,
                                ![Caller.f].body[Caller.s] = [@ EXCEPT !.callee = top.f, !.t = g.result]]
  BY DEF FinishInstance, Caller
<1>2. /\ Visiting /\ top.f \in DOMAIN funcs /\ top.f \in Nat /\ ~ IsGeneric(fun)
      /\ fun = funcs[top.f] /\ fun \in Function /\ GoodFunction(fun)
  BY <1>1, StackFacts, FuncsFacts DEF BodyDone, TypeInv, fun
<1>3. /\ g \in Function /\ GoodFunction(g) /\ g.name = fun.name /\ g.params = fun.params
      /\ fun.typed => g.typed
  BY <1>2, ResolvedFacts
<1>4. /\ Caller.f \in DOMAIN funcs /\ Caller.f # top.f
      /\ funcs[Caller.f] \in Function /\ GoodFunction(funcs[Caller.f])
      /\ ~ IsGeneric(funcs[Caller.f]) /\ Caller.s \in DOMAIN funcs[Caller.f].body
      /\ Waiting \in Statement /\ GoodStatement(Waiting, funcs[Caller.f])
  BY <1>1, <1>2, CallerFacts DEF TypeInv
<1>5. g.result \in Types \cup {NoType}  BY <1>3, FunctionFields
<1>6. st \in Statement /\ st.args = Waiting.args /\ st.fn = Waiting.fn /\ st.ret = Waiting.ret
  <2>1. top.f \in Nat /\ Waiting \in Statement  BY <1>2, <1>4
  <2> DEFINE w == Waiting
  <2>2. w \in Statement  BY <2>1
  <2> HIDE DEF w
  <2>3. WithCallee(w, top.f, g.result) \in Statement
        /\ WithCallee(w, top.f, g.result).args = w.args
        /\ WithCallee(w, top.f, g.result).fn = w.fn /\ WithCallee(w, top.f, g.result).ret = w.ret
    BY <2>1, <2>2, <1>5, StatementWithCallee, ZenonT(60)
  <2> QED  BY <2>3 DEF w
<1>7. GoodStatement(st, funcs[Caller.f])
  <2> HIDE DEF st
  <2> QED  BY <1>4, <1>6 DEF GoodStatement
<1>8. funcs \in Seq(Function)  BY DEF TypeInv, FunctionsInv
<1>9. /\ mid \in Seq(Function) /\ Len(mid) = Len(funcs) /\ DOMAIN mid = DOMAIN funcs
      /\ mid[top.f] = g /\ \A j \in DOMAIN funcs : j # top.f => mid[j] = funcs[j]
  <2>1. mid = [funcs EXCEPT ![top.f] = g]  OBVIOUS
  <2> HIDE DEF mid
  <2> DEFINE i == top.f
  <2>2. g \in Function /\ i \in DOMAIN funcs /\ mid = Put(funcs, i, g)
    BY <1>2, <1>3, <2>1 DEF Put
  <2> HIDE DEF i
  <2>3. DiffersAt(Function, funcs, i, g, mid)  BY <1>8, <2>2, SeqPut
  <2> QED  BY <2>3 DEF i, DiffersAt
<1>10. funcs' = WithStatement(mid, Caller.f, Caller.s, st)
  <2>1. mid[Caller.f] = funcs[Caller.f]  BY <1>4, <1>9
  <2>2. mid[Caller.f].body[Caller.s] = Waiting  BY <2>1 DEF Waiting
  <2>3. funcs' = [mid EXCEPT ![Caller.f].body[Caller.s] = st]
    BY <1>1, <2>2 DEF WithCallee, Waiting
  <2> QED  BY <2>3 DEF WithStatement
<1>11. mid[Caller.f] = funcs[Caller.f]  BY <1>4, <1>9
<1> HIDE DEF mid, st
<1>12. /\ funcs' \in Seq(Function) /\ Len(funcs') = Len(mid) /\ DOMAIN funcs' = DOMAIN mid
       /\ \A j \in DOMAIN mid : j # Caller.f => (funcs')[j] = mid[j]
       /\ SameHead(funcs[Caller.f], (funcs')[Caller.f])
       /\ (funcs')[Caller.f].body = [funcs[Caller.f].body EXCEPT ![Caller.s] = st]
  BY <1>4, <1>6, <1>9, <1>10, <1>11, WithStatementFacts
<1>13. /\ (funcs')[top.f] = g
       /\ \A j \in DOMAIN funcs : j # top.f /\ j # Caller.f => (funcs')[j] = funcs[j]
  BY <1>2, <1>4, <1>9, <1>12
<1>14. GoodFunction((funcs')[Caller.f])
  BY <1>4, <1>7, <1>12, GoodWritten
<1>15. ASSUME NEW j \in DOMAIN funcs
       PROVE  /\ GoodFunction((funcs')[j])
              /\ (funcs')[j].name = funcs[j].name /\ (funcs')[j].params = funcs[j].params
              /\ funcs[j].typed => (funcs')[j].typed
  <2>1. CASE j = top.f  BY <1>2, <1>3, <1>13, <2>1
  <2>2. CASE j = Caller.f  BY <1>12, <1>14, <2>2 DEF SameHead
  <2>3. CASE j # top.f /\ j # Caller.f  BY <1>13, <2>3 DEF TypeInv, FunctionsInv
  <2> QED  BY <2>1, <2>2, <2>3
<1>16. FunctionsInv'  BY <1>9, <1>12, <1>15 DEF FunctionsInv
<1>17. HeadsKept
  <2>1. Len(funcs) \in Nat /\ Len(funcs) <= Len(funcs')  BY <1>8, <1>9, <1>12
  <2> QED  BY <1>8, <1>12, <1>15, <2>1 DEF HeadsKept
<1>18. DOMAIN funcs' = DOMAIN funcs  BY <1>9, <1>12
<1> QED  BY <1>1, <1>2, <1>3, <1>6, <1>12, <1>13, <1>16, <1>17, <1>18 DEF st

(* The stack when a copy is left: the frame of the call moves on.          *)
LEMMA FinishedStack ==
  ASSUME FunctionsInv, StackInv, Visiting, top.generated,
         stack' = [Front(stack) EXCEPT ![Len(stack) - 1].s = @ + 1, ![Len(stack) - 1].tried = 0]
  PROVE  LET m == Len(stack) - 1 IN
         /\ stack' \in Seq(Frames) /\ m \in Nat \ {0} /\ Len(stack') = m /\ DOMAIN stack' = 1 .. m
         /\ (stack')[m].f = Caller.f /\ (stack')[m].s = Caller.s + 1 /\ (stack')[m].tried = 0
         /\ (stack')[m].generated = Caller.generated
         /\ \A k \in 1 .. m : k # m => (stack')[k] = stack[k]
<1> DEFINE m == Len(stack) - 1
           s2 == Caller.s + 1
           fr == [Caller EXCEPT !.s = s2, !.tried = 0]
           rest == Front(stack)
<1>1. stack \in Seq(Frames) /\ m \in Nat \ {0} /\ m + 1 = Len(stack) /\ Caller = stack[m]
  BY CallerFacts DEF StackInv, Caller
<1>2. Caller \in Frames /\ s2 \in Nat \ {0}  BY CallerFacts
<1>3. rest \in Seq(Frames) /\ Len(rest) = m /\ DOMAIN rest = 1 .. m
      /\ \A k \in 1 .. m : rest[k] = stack[k]
  BY <1>1 DEF Front
<1>4. m \in DOMAIN rest /\ rest[m] = Caller  BY <1>1, <1>3
<1>5. stack' = [rest EXCEPT ![m].s = @ + 1, ![m].tried = 0]  OBVIOUS
<1> HIDE DEF m, rest
<1>6. stack' = Put(rest, m, fr)  BY <1>4, <1>5 DEF Put
<1> HIDE DEF s2
<1>7. fr \in Frames /\ fr.f = Caller.f /\ fr.s = s2 /\ fr.tried = 0 /\ fr.generated = Caller.generated
  BY <1>2 DEF Frames
<1> HIDE DEF fr
<1>8. DiffersAt(Frames, rest, m, fr, Put(rest, m, fr))  BY <1>3, <1>4, <1>7, SeqPut
<1>9. DiffersAt(Frames, rest, m, fr, stack')  BY <1>6, <1>8
<1>10. /\ stack' \in Seq(Frames) /\ Len(stack') = m /\ DOMAIN stack' = 1 .. m
       /\ (stack')[m] = fr /\ \A k \in 1 .. m : k # m => (stack')[k] = stack[k]
  BY <1>3, <1>9 DEF DiffersAt
<1> QED  BY <1>1, <1>7, <1>10, Zenon DEF m, s2

LEMMA FinishInstanceTypes == TypeInv /\ FinishInstance => TypeInv'
<1> SUFFICES ASSUME TypeInv, FinishInstance  PROVE TypeInv'
  OBVIOUS
<1>0. \E g : g = Resolved(fun, FALSE)  BY Zenon
<1>1. PICK g : g = Resolved(fun, FALSE)  BY <1>0, Zenon
<1>2. /\ Visiting /\ top.generated /\ top.f \in DOMAIN funcs
      /\ fun = funcs[top.f] /\ fun \in Function
      /\ ResolveFuncType(fun, g)
      /\ FunctionsInv' /\ HeadsKept /\ DOMAIN funcs' = DOMAIN funcs
      /\ g \in Function /\ (funcs')[top.f] = g
      /\ SameHead(funcs[Caller.f], (funcs')[Caller.f])
      /\ WithCallee(Waiting, top.f, g.result) \in Statement
      /\ (funcs')[Caller.f].body
           = [funcs[Caller.f].body EXCEPT ![Caller.s] = WithCallee(Waiting, top.f, g.result)]
      /\ \A j \in DOMAIN funcs : j # top.f /\ j # Caller.f => (funcs')[j] = funcs[j]
  BY <1>1, FinishedFuncs, Zenon
<1>3. /\ unresolved' = (unresolved \/ ~ g.typed)
      /\ order' = Append(order, top.f)
      /\ UNCHANGED <<bases, generics, sub, next>>
      /\ \/ pass' = "crashed" /\ stack' = <<>>
         \/ /\ pass' = pass
            /\ stack' = [Front(stack) EXCEPT ![Len(stack) - 1].s = @ + 1, ![Len(stack) - 1].tried = 0]
  BY <1>1 DEF FinishInstance
<1>4. /\ order \in Seq(DOMAIN funcs) /\ Len(order) \in Nat /\ DOMAIN order = 1 .. Len(order)
      /\ order' \in Seq(DOMAIN funcs) /\ Len(order') = Len(order) + 1
      /\ DOMAIN order' = 1 .. Len(order) + 1
      /\ (order')[Len(order) + 1] = top.f
      /\ \A k \in DOMAIN order : (order')[k] = order[k]
  BY <1>2, <1>3, SeqAppend DEF TypeInv, TablesInv
<1>5. Placed \subseteq Placed' /\ top.f \in Placed'
  <2>1. ASSUME NEW k \in DOMAIN order  PROVE order[k] \in Placed'
    <3>1. k \in DOMAIN order' /\ (order')[k] = order[k]  BY <1>4
    <3> QED  BY <3>1 DEF Placed
  <2>2. Len(order) + 1 \in DOMAIN order'  BY <1>4
  <2> QED  BY <1>4, <2>1, <2>2 DEF Placed
<1>6. TablesInv' /\ errors' \subseteq DOMAIN funcs
  BY <1>2, <1>3, <1>4, <1>5, DeclaredTables
<1>7. pass \in Walks /\ next <= Len(order) /\ stack[1].f = order[next]
  BY <1>2, StackFacts DEF TypeInv
<1>8. WalkInv'
  <2>1. unresolved' \in BOOLEAN  BY <1>3, Zenon
  <2>2. pass' \in Walks \cup Ended  BY <1>3, <1>7 DEF Ended
  <2>3. sub' \in 0 .. PassLimit /\ next' \in Nat \ {0}  BY <1>3 DEF TypeInv, WalkInv
  <2>4. errors' \subseteq DOMAIN funcs'  BY <1>2, <1>6
  <2> QED  BY <2>1, <2>2, <2>3, <2>4 DEF WalkInv
<1>9. CASE stack' = <<>>  BY <1>2, <1>6, <1>8, <1>9, Unstacked DEF TypeInv
<1>10. CASE /\ pass' = pass
            /\ stack' = [Front(stack) EXCEPT ![Len(stack) - 1].s = @ + 1, ![Len(stack) - 1].tried = 0]
  <2> DEFINE m == Len(stack) - 1
  <2>1. /\ stack' \in Seq(Frames) /\ m \in Nat \ {0} /\ Len(stack') = m /\ DOMAIN stack' = 1 .. m
        /\ (stack')[m].f = Caller.f /\ (stack')[m].s = Caller.s + 1 /\ (stack')[m].tried = 0
        /\ (stack')[m].generated = Caller.generated
        /\ \A k \in 1 .. m : k # m => (stack')[k] = stack[k]
    BY <1>2, <1>10, FinishedStack DEF TypeInv
  <2>2. /\ Len(stack) \in Nat /\ m + 1 = Len(stack) /\ DOMAIN stack = 1 .. m + 1
        /\ Caller = stack[m] /\ Caller.f \in DOMAIN funcs
        /\ Caller.s \in DOMAIN funcs[Caller.f].body /\ funcs[Caller.f] \in Function
        /\ \A k \in DOMAIN stack : k < m => stack[k].f # top.f /\ stack[k].f # Caller.f
    <3>1. Len(stack) \in Nat /\ DOMAIN stack = 1 .. Len(stack)
      BY <1>2, StackFacts DEF TypeInv
    <3> QED  BY <1>2, <3>1, CallerFacts DEF TypeInv, Caller
  <2> HIDE DEF m
  <2>3. \A k \in 1 .. m : (stack')[k].f = stack[k].f /\ (stack')[k].generated = stack[k].generated
    BY <2>1, <2>2
  <2>4. ASSUME NEW k \in 1 .. m
        PROVE  /\ (stack')[k].f \in DOMAIN funcs' /\ ~ IsGeneric((funcs')[(stack')[k].f])
               /\ (stack')[k].generated <=> k > 1
               /\ \A j \in 1 .. m : j # k => (stack')[j].f # (stack')[k].f
    <3>1. k \in DOMAIN stack  BY <2>1, <2>2
    <3>2. /\ stack[k].f \in DOMAIN funcs /\ ~ IsGeneric(funcs[stack[k].f])
          /\ stack[k].generated <=> k > 1
          /\ \A j \in 1 .. m : j # k => stack[j].f # stack[k].f
      <4>1. /\ stack[k].f \in DOMAIN funcs /\ ~ IsGeneric(funcs[stack[k].f])
            /\ stack[k].generated <=> k > 1
            /\ \A j \in DOMAIN stack : j # k => stack[j].f # stack[k].f
        BY <3>1 DEF TypeInv, StackInv
      <4>2. \A j \in 1 .. m : j \in DOMAIN stack  BY <2>1, <2>2
      <4> QED  BY <4>1, <4>2
    <3>3. ~ IsGeneric((funcs')[stack[k].f])
      BY <1>2, <3>2, HeadsFacts
    <3> QED  BY <1>2, <2>3, <3>2, <3>3
  <2>5. ASSUME NEW k \in 1 .. m, k < m
        PROVE  /\ (stack')[k].s <= Len((funcs')[(stack')[k].f].body)
               /\ (funcs')[(stack')[k].f].body[(stack')[k].s].fn # NoFunc
               /\ (funcs')[(stack')[k].f].body[(stack')[k].s].t = NoType
    <3>1. k \in DOMAIN stack /\ k < Len(stack) /\ (stack')[k] = stack[k]  BY <2>1, <2>2, <2>5
    <3>2. /\ stack[k].f \in DOMAIN funcs
          /\ stack[k].s <= Len(funcs[stack[k].f].body)
          /\ funcs[stack[k].f].body[stack[k].s].fn # NoFunc
          /\ funcs[stack[k].f].body[stack[k].s].t = NoType
      BY <3>1 DEF TypeInv, StackInv
    <3>3. stack[k].f # top.f /\ stack[k].f # Caller.f  BY <2>2, <2>5, <3>1
    <3>4. (funcs')[stack[k].f] = funcs[stack[k].f]  BY <1>2, <3>2, <3>3
    <3> QED  BY <3>1, <3>2, <3>4
  <2>6. ASSUME NEW k \in 1 .. m
        PROVE  (stack')[k].s <= Len((funcs')[(stack')[k].f].body) + 1
    <3>1. CASE k = m
      <4> DEFINE b == funcs[Caller.f].body
                 c == (funcs')[Caller.f].body
                 st == WithCallee(Waiting, top.f, g.result)
      <4>1. b \in Seq(Statement) /\ Caller.s \in DOMAIN b /\ Len(b) \in Nat /\ DOMAIN b = 1 .. Len(b)
        BY <2>2, FunctionFields
      <4>2. c = [b EXCEPT ![Caller.s] = st]  BY <1>2
      <4> HIDE DEF b, c, st
      <4>3. Len(c) = Len(b)  BY <4>1, <4>2
      <4>4. Caller.s + 1 <= Len(c) + 1  BY <4>1, <4>3
      <4> QED  BY <2>1, <3>1, <4>4 DEF c
    <3>2. CASE k # m
      <4>1. k < m  BY <2>1, <3>2
      <4>2. (stack')[k] \in Frames  BY <2>1
      <4>3. (stack')[k].s \in Nat  BY <4>2 DEF Frames
      <4>4. (funcs')[(stack')[k].f] \in Function  BY <1>2, <2>4 DEF FunctionsInv
      <4>5. Len((funcs')[(stack')[k].f].body) \in Nat  BY <4>4, FunctionFields
      <4> QED  BY <2>5, <4>1, <4>3, <4>5
    <3> QED  BY <3>1, <3>2
  <2>7. ASSUME NEW k \in DOMAIN stack'
        PROVE  /\ (stack')[k].f \in DOMAIN funcs' /\ ~ IsGeneric((funcs')[(stack')[k].f])
               /\ (stack')[k].generated <=> k > 1
               /\ (stack')[k].s <= Len((funcs')[(stack')[k].f].body) + 1
               /\ k < Len(stack') \/ (stack')[k].tried > 0 =>
                    /\ (stack')[k].s <= Len((funcs')[(stack')[k].f].body)
                    /\ (funcs')[(stack')[k].f].body[(stack')[k].s].fn # NoFunc
                    /\ (funcs')[(stack')[k].f].body[(stack')[k].s].t = NoType
               /\ \A j \in DOMAIN stack' : j # k => (stack')[j].f # (stack')[k].f
    <3>1. k \in 1 .. m /\ (k < m \/ k = m)  BY <2>1
    <3>2. k = m => ~ ((stack')[k].tried > 0)  BY <2>1
    <3> QED  BY <2>1, <2>4, <2>5, <2>6, <3>1, <3>2
  <2>8. Len(stack') <= MaxNesting
    <3>1. Len(stack) <= MaxNesting  BY DEF TypeInv, StackInv
    <3> QED  BY <2>1, <2>2, <3>1, FuncDeclsAssumption
  <2>9. pass' \in Walks /\ next' <= Len(order') /\ (stack')[1].f = order'[next']
    <3>1. next \in DOMAIN order  BY <1>4, <1>7 DEF TypeInv, WalkInv
    <3>2. (stack')[1].f = stack[1].f  BY <2>1, <2>3
    <3>3. next' = next /\ pass' = pass  BY <1>3, <1>10
    <3> QED  BY <1>4, <1>7, <3>1, <3>2, <3>3
  <2>10. StackInv'  BY <2>1, <2>7, <2>8, <2>9 DEF StackInv
  <2> QED  BY <1>2, <1>6, <1>8, <2>10 DEF TypeInv
<1> QED  BY <1>3, <1>9, <1>10

-----------------------------------------------------------------------------
(* The types are kept.                                                     *)

LEMMA ParsedGood ==
  ASSUME NEW f \in Function, Parsed(f)
  PROVE  GoodFunction(f)
<1>1. ~ f.typed /\ f.result = NoType  BY DEF Parsed
<1>2. IsGeneric(f) => Parsed(f)  OBVIOUS
<1>3. ASSUME NEW s \in DOMAIN f.body  PROVE GoodStatement(f.body[s], f)
  <2>1. f.body[s].fn = NoFunc => f.body[s].ret  BY <1>3 DEF Parsed
  <2>2. ASSUME NEW i \in DOMAIN f.body[s].args  PROVE GoodArg(f.body[s].args[i], f)
    <3> DEFINE a == f.body[s].args[i]
    <3>1. ~ a.cast /\ IF a.lit THEN a.t \in {"int", "nil"} ELSE a.v \in DOMAIN f.params
      BY <1>3, <2>2 DEF Parsed
    <3>2. {"int", "nil"} \subseteq Types  BY TypesAssumption, FuncDeclsAssumption
    <3> HIDE DEF a
    <3>3. GoodArg(a, f)  BY <3>1, <3>2 DEF GoodArg
    <3> QED  BY <3>3 DEF a
  <2> QED  BY <2>1, <2>2 DEF GoodStatement
<1>4. f.typed <=> f.result # NoType  BY <1>1, Zenon
<1> QED  BY <1>2, <1>3, <1>4 DEF GoodFunction

LEMMA InitTypes == Init => TypeInv
<1> SUFFICES ASSUME Init  PROVE TypeInv  OBVIOUS
<1>1. funcs \in Seq(Function) /\ \A i \in DOMAIN funcs : Parsed(funcs[i])
  BY FuncDeclsAssumption DEF Init
<1>2. DOMAIN funcs = 1 .. Len(funcs) /\ Len(funcs) \in Nat /\ \A i \in DOMAIN funcs : funcs[i] \in Function
  BY <1>1
<1>3. FunctionsInv  BY <1>1, <1>2, ParsedGood DEF FunctionsInv
<1>4. order = [i \in DOMAIN funcs |-> i] /\ bases = {} /\ symbols = <<>> /\ stack = <<>>
      /\ overloads = [n \in Names |-> <<>>] /\ generics = [n \in Names |-> <<>>]
  BY DEF Init
<1>5. TablesInv
  <2>1. order \in Seq(DOMAIN funcs)  BY <1>2, <1>4
  <2>2. \A n \in Names : overloads[n] = <<>> /\ generics[n] = <<>>  BY <1>4
  <2>3. <<>> \in Seq(DOMAIN funcs) /\ DOMAIN <<>> = {}  OBVIOUS
  <2>4. overloads \in [Names -> Seq(DOMAIN funcs)] /\ generics \in [Names -> Seq(DOMAIN funcs)]
    BY <1>4, <2>3
  <2> QED  BY <1>4, <2>1, <2>2, <2>3, <2>4 DEF TablesInv
<1>6. WalkInv
  <2>1. pass = "register" /\ sub = 0 /\ next = 1 /\ unresolved = FALSE /\ errors = {}  BY DEF Init
  <2>2. PassLimit \in Nat  BY FuncDeclsAssumption
  <2>3. unresolved \in BOOLEAN  BY <2>1, Zenon
  <2>4. pass \in Walks \cup Ended  BY <2>1 DEF Walks
  <2>5. sub \in 0 .. PassLimit /\ next \in Nat \ {0}  BY <2>1, <2>2
  <2>6. errors \subseteq DOMAIN funcs  BY <2>1
  <2> QED  BY <2>3, <2>4, <2>5, <2>6 DEF WalkInv
<1>7. StackInv  BY <1>4, FuncDeclsAssumption DEF StackInv
<1> QED  BY <1>3, <1>5, <1>6, <1>7 DEF TypeInv

LEMMA StutterTypes == TypeInv /\ UNCHANGED vars => TypeInv'
<1> SUFFICES ASSUME TypeInv, UNCHANGED vars  PROVE TypeInv'  OBVIOUS
<1>1. UNCHANGED <<tables, order, funcs, stack, pass, next, sub, unresolved, errors>>
  BY DEF vars, walk
<1>2. FunctionsInv' /\ HeadsKept  BY <1>1, HeadsSame DEF TypeInv
<1>3. TablesInv'  BY <1>1, <1>2, TablesKept DEF TypeInv
<1>4. WalkInv'  BY <1>1 DEF TypeInv, WalkInv
<1>5. StackInv'  BY <1>1 DEF TypeInv, StackInv
<1> QED  BY <1>2, <1>3, <1>4, <1>5 DEF TypeInv

LEMMA NextTypes == TypeInv /\ [Next]_vars => TypeInv'
<1> SUFFICES ASSUME TypeInv, [Next]_vars  PROVE TypeInv'  OBVIOUS
<1>1. CASE RegisterFunc  BY <1>1, RegisterFuncTypes
<1>2. CASE RegisterGeneric  BY <1>2, RegisterGenericTypes
<1>3. CASE VisitFunc  BY <1>3, VisitFuncTypes
<1>4. CASE SkipGeneric  BY <1>4, SkipGenericTypes
<1>5. CASE ReturnValue  BY <1>5, ReturnValueTypes
<1>6. CASE CallExact  BY <1>6, CallExactTypes
<1>7. CASE CallKept  BY <1>7, CallKeptTypes
<1>8. CASE CallOverload  BY <1>8, CallOverloadTypes
<1>9. CASE NextOverload  BY <1>9, NextOverloadTypes
<1>10. CASE CallFails  BY <1>10, CallFailsTypes
<1>11. CASE CallGeneric  BY <1>11, CallGenericTypes
<1>12. CASE GenericMismatch \/ GenericOverflow  BY <1>12, GenericEndTypes
<1>13. CASE FinishFunc  BY <1>13, FinishFuncTypes
<1>14. CASE FinishInstance  BY <1>14, FinishInstanceTypes
<1>15. CASE EndWalk  BY <1>15, EndWalkTypes
<1>16. CASE UNCHANGED vars  BY <1>16, StutterTypes
<1> QED
  BY <1>1, <1>2, <1>3, <1>4, <1>5, <1>6, <1>7, <1>8, <1>9, <1>10, <1>11, <1>12, <1>13, <1>14, <1>15, <1>16
  DEF Next

LEMMA TypesInvariant == Spec => []TypeInv
<1>1. Init => TypeInv  BY InitTypes
<1>2. TypeInv /\ [Next]_vars => TypeInv'  BY NextTypes
<1> QED  BY <1>1, <1>2, PTL DEF Spec

(* The tables of names, overloads and mangled names speak of functions     *)
(* there are, and a mangled name of the function that has it, whatever the *)
(* walks, the copies and the ends of the compiler do to them.              *)
THEOREM FuncDeclsTypeCorrect == Spec => []TypeOK
<1>1. TypeInv => TypeOK
  <2> SUFFICES ASSUME TypeInv  PROVE TypeOK  OBVIOUS
  <2>1. funcs \in Seq(Function)  BY DEF TypeInv, FunctionsInv
  <2>2. /\ order \in Seq(DOMAIN funcs) /\ bases \subseteq Names
        /\ overloads \in [Names -> Seq(DOMAIN funcs)] /\ generics \in [Names -> Seq(DOMAIN funcs)]
        /\ \A k \in DOMAIN symbols : symbols[k] \in DOMAIN funcs /\ Signature(funcs[symbols[k]]) = k
    BY DEF TypeInv, TablesInv
  <2>3. /\ pass \in {"register", "resolve", "check"} \cup Ended
        /\ sub \in 0 .. PassLimit /\ next \in Nat \ {0}
        /\ unresolved \in BOOLEAN /\ errors \subseteq DOMAIN funcs
    BY DEF TypeInv, WalkInv, Walks
  <2>4. Len(stack) <= MaxNesting  BY DEF TypeInv, StackInv
  <2> QED  BY <2>1, <2>2, <2>3, <2>4 DEF TypeOK
<1> QED  BY <1>1, TypesInvariant, PTL

-----------------------------------------------------------------------------
(* What the visit of a statement writes.                                   *)

(* The arguments stay the ones that are written, with their casts.         *)
ArgsStay(args, now) ==
  /\ Len(now) = Len(args)
  /\ \A k \in DOMAIN args : /\ now[k].lit = args[k].lit /\ now[k].v = args[k].v
                            /\ args[k].cast => now[k].cast

Wrote(st) ==
  /\ InBody /\ st \in Statement /\ GoodStatement(st, fun) /\ funcs' = SetStatement(st)
  /\ st.fn = stmt.fn /\ st.ret = stmt.ret
  /\ ArgsStay(stmt.args, st.args)
  /\ stmt.t # NoType => st.t # NoType
  /\ UNCHANGED <<order, tables, sub, next>>

LEMMA ArgsStayFacts ==
  ASSUME TypeInv, InBody, NEW args, KeepsArgs(callArgs, args)
  PROVE  ArgsStay(stmt.args, args)
<1>1. /\ Len(callArgs) = Len(stmt.args)
      /\ \A k \in DOMAIN stmt.args :
           /\ callArgs[k].lit = stmt.args[k].lit /\ callArgs[k].v = stmt.args[k].v
           /\ callArgs[k].cast = stmt.args[k].cast
      /\ callArgs \in Seq(Arg)
  BY TypedsFacts DEF TypeInv, TypedArgs
<1>2. DOMAIN callArgs = DOMAIN stmt.args
  BY <1>1, BodyFacts, StatementFields DEF TypeInv
<1>3. Len(args) = Len(stmt.args)  BY <1>1 DEF KeepsArgs
<1>4. ASSUME NEW k \in DOMAIN stmt.args
      PROVE  /\ args[k].lit = stmt.args[k].lit /\ args[k].v = stmt.args[k].v
             /\ stmt.args[k].cast => args[k].cast
  <2>1. KeepsArg(callArgs[k], args[k])  BY <1>2 DEF KeepsArgs
  <2> QED  BY <1>1, <2>1 DEF KeepsArg
<1> QED  BY <1>3, <1>4 DEF ArgsStay

LEMMA CallArgsStay ==
  ASSUME TypeInv, InBody
  PROVE  KeepsArgs(callArgs, callArgs) /\ ArgsStay(stmt.args, callArgs)
<1>1. TypedArgs(callArgs)  BY TypedsFacts DEF TypeInv
<1>2. KeepsArgs(callArgs, callArgs)  BY <1>1 DEF TypedArgs, KeepsArgs, KeepsArg
<1> QED  BY <1>2, ArgsStayFacts

(* The arguments of a call as they are passed have the types a later visit *)
(* finds.                                                                  *)
LEMMA KeptArgsStayTyped ==
  ASSUME TypeInv, InBody, NEW st, KeepsArgs(callArgs, st.args)
  PROVE  ArgsTyped(st, fun)
<1>1. ArgsStay(stmt.args, st.args)  BY ArgsStayFacts
<1>2. /\ Len(callArgs) = Len(stmt.args)
      /\ \A k \in DOMAIN stmt.args :
           /\ callArgs[k].lit = stmt.args[k].lit /\ callArgs[k].v = stmt.args[k].v
           /\ callArgs[k].cast = stmt.args[k].cast
           /\ ~ stmt.args[k].lit /\ ~ stmt.args[k].cast => callArgs[k].t = fun.params[stmt.args[k].v]
      /\ callArgs \in Seq(Arg)
  BY TypedsFacts DEF TypeInv, TypedArgs
<1>3. DOMAIN callArgs = DOMAIN stmt.args /\ DOMAIN st.args = DOMAIN stmt.args
  <2>1. DOMAIN stmt.args = 1 .. Len(stmt.args)  BY BodyFacts, StatementFields DEF TypeInv
  <2>2. st.args \in Seq(Arg) /\ Len(st.args) = Len(stmt.args)  BY <1>2 DEF KeepsArgs
  <2> QED  BY <1>2, <2>1, <2>2
<1> SUFFICES ASSUME NEW k \in DOMAIN st.args, ~ st.args[k].lit, ~ st.args[k].cast
             PROVE  st.args[k].t = fun.params[st.args[k].v]
  BY DEF ArgsTyped
<1>4. KeepsArg(callArgs[k], st.args[k])  BY <1>3 DEF KeepsArgs
<1>5. st.args[k].lit = callArgs[k].lit /\ st.args[k].v = callArgs[k].v
      /\ st.args[k].t = callArgs[k].t /\ ~ callArgs[k].cast
  BY <1>4 DEF KeepsArg
<1> QED  BY <1>2, <1>3, <1>5

LEMMA ReturnValueFacts ==
  ASSUME TypeInv, ReturnValue
  PROVE  \E st : /\ Wrote(st) /\ st.fn = NoFunc /\ st.args = callArgs
                 /\ st.t = (IF callArgs = <<>> THEN "void" ELSE callArgs[1].t) /\ st.t \in Types
                 /\ pass' = pass /\ stack' = NextStatement
                 /\ UNCHANGED <<unresolved, errors>>
<1> DEFINE t == IF callArgs = <<>> THEN "void" ELSE callArgs[1].t
           st == WithReturn(stmt, callArgs, t)
<1>1. InBody /\ stmt.fn = NoFunc /\ funcs' = SetStatement(st) /\ stack' = NextStatement
      /\ UNCHANGED <<order, tables, sub, next, pass, unresolved, errors>>
  BY DEF ReturnValue, callArgs, walk, WithReturn
<1>2. TypedArgs(callArgs) /\ stmt \in Statement
  BY <1>1, TypedsFacts, BodyFacts DEF TypeInv
<1>3. t \in Types
  <2>1. CASE callArgs = <<>>  BY <2>1, TypesAssumption
  <2>2. CASE callArgs # <<>>
    <3>1. 1 \in DOMAIN callArgs  BY <1>2, <2>2 DEF TypedArgs
    <3> QED  BY <1>2, <2>2, <3>1 DEF TypedArgs
  <2> QED  BY <2>1, <2>2
<1> HIDE DEF t
<1>4. callArgs \in Seq(Arg)  BY <1>2 DEF TypedArgs
<1>5. st \in Statement /\ st.args = callArgs /\ st.fn = stmt.fn /\ st.ret = stmt.ret /\ st.t = t
  BY <1>2, <1>3, <1>4, StatementWithArgsType
<1>6. GoodStatement(st, fun)
  <2>1. GoodStatement([stmt EXCEPT !.args = callArgs], fun)  BY <1>1, CallArgsKept
  <2> DEFINE plain == [stmt EXCEPT !.args = callArgs]
  <2>2. plain.args = callArgs /\ plain.fn = stmt.fn /\ plain.ret = stmt.ret
    BY <1>2, <1>4, StatementWithArgs
  <2> HIDE DEF plain, st
  <2>3. GoodStatement(plain, fun)  BY <2>1 DEF plain
  <2> QED  BY <1>5, <2>2, <2>3 DEF GoodStatement
<1>7. NoType \notin Types  BY TypesAssumption
<1> HIDE DEF st
<1>8. ArgsStay(stmt.args, st.args)  BY <1>1, <1>5, CallArgsStay
<1>9. Wrote(st)  BY <1>1, <1>3, <1>5, <1>6, <1>7, <1>8 DEF Wrote
<1> QED  BY <1>1, <1>3, <1>5, <1>9 DEF t

(* Where the walk goes after a call.                                       *)
Leaves == \/ pass' = "crashed" /\ stack' = <<>>
          \/ pass' = pass /\ stack' = NextStatement

LEMMA CallExactFacts ==
  ASSUME TypeInv, CallExact
  PROVE  \E st : /\ Wrote(st) /\ st.fn # NoFunc /\ st.args = callArgs
                 /\ exact \in DOMAIN symbols /\ st.callee = symbols[exact]
                 /\ st.callee \in DOMAIN funcs /\ st.callee \in Placed /\ funcs[st.callee].typed
                 /\ Signature(funcs[st.callee]) = exact
                 /\ st.t = funcs[st.callee].result /\ st.t # NoType
                 /\ Leaves /\ UNCHANGED <<unresolved, errors>>
<1> DEFINE g == symbols[exact]
           st == WithCall(stmt, callArgs, g, funcs[g].result)
<1>1. InBody /\ stmt.fn # NoFunc /\ exact \in DOMAIN symbols /\ funcs' = SetStatement(st) /\ CallEnds
      /\ UNCHANGED <<order, tables, sub, next, unresolved, errors>>
  BY DEF CallExact, LookingUp, WithCall
<1>2. g \in DOMAIN funcs /\ g \in Placed /\ funcs[g].typed /\ Signature(funcs[g]) = exact
  BY <1>1 DEF TypeInv, TablesInv
<1>3. g \in Nat /\ funcs[g].result \in Types \cup {NoType} /\ funcs[g].result # NoType
  <2>1. funcs[g] \in Function /\ DOMAIN funcs = 1 .. Len(funcs) /\ GoodFunction(funcs[g])
    BY <1>2, FuncsFacts DEF TypeInv
  <2>2. funcs[g].result # NoType  BY <1>2, <2>1, Zenon DEF GoodFunction
  <2> QED  BY <1>2, <2>1, <2>2, FunctionFields
<1>4. st \in Statement /\ GoodStatement(st, fun)  BY <1>1, <1>3, CallArgsKept
<1>5. stmt \in Statement /\ callArgs \in Seq(Arg)
  BY <1>1, BodyFacts, TypedsFacts DEF TypeInv, TypedArgs
<1>6. st.args = callArgs /\ st.fn = stmt.fn /\ st.ret = stmt.ret /\ st.callee = g
      /\ st.t = funcs[g].result
  BY <1>3, <1>5, StatementWith
<1> HIDE DEF st, g
<1>7. ArgsStay(stmt.args, st.args)  BY <1>1, <1>6, CallArgsStay
<1>8. Wrote(st)  BY <1>1, <1>3, <1>4, <1>6, <1>7 DEF Wrote
<1>9. Leaves  BY <1>1 DEF CallEnds, Leaves
<1>10. g = symbols[exact]  BY DEF g
<1> QED  BY <1>1, <1>2, <1>3, <1>6, <1>8, <1>9, <1>10

LEMMA CallKeptFacts ==
  ASSUME TypeInv, CallKept
  PROVE  \E st : /\ Wrote(st) /\ st.fn # NoFunc /\ st.args = callArgs
                 /\ exact \notin DOMAIN symbols
                 /\ st.callee = stmt.callee /\ st.t = stmt.t /\ st.t # NoType
                 /\ Leaves /\ UNCHANGED <<unresolved, errors>>
<1> DEFINE st == [stmt EXCEPT !.args = callArgs]
<1>1. InBody /\ stmt.fn # NoFunc /\ exact \notin DOMAIN symbols /\ stmt.t # NoType
      /\ funcs' = SetStatement(st) /\ CallEnds
      /\ UNCHANGED <<order, tables, sub, next, unresolved, errors>>
  BY DEF CallKept, LookingUp
<1>2. st \in Statement /\ GoodStatement(st, fun)  BY <1>1, CallArgsKept
<1>3. stmt \in Statement /\ callArgs \in Seq(Arg)
  BY <1>1, BodyFacts, TypedsFacts DEF TypeInv, TypedArgs
<1>4. st.args = callArgs /\ st.fn = stmt.fn /\ st.ret = stmt.ret /\ st.callee = stmt.callee
      /\ st.t = stmt.t
  BY <1>3, StatementWithArgs
<1> HIDE DEF st
<1>5. ArgsStay(stmt.args, st.args)  BY <1>1, <1>4, CallArgsStay
<1>6. Wrote(st)  BY <1>1, <1>2, <1>4, <1>5 DEF Wrote
<1>7. Leaves  BY <1>1 DEF CallEnds, Leaves
<1> QED  BY <1>1, <1>4, <1>6, <1>7

LEMMA CallOverloadFacts ==
  ASSUME TypeInv, CallOverload
  PROVE  \E st : /\ Wrote(st) /\ st.fn # NoFunc /\ stmt.t = NoType
                 /\ Comparing /\ st.callee = candidate
                 /\ KeepsArgs(callArgs, st.args)
                 /\ Len(st.args) = Len(funcs[candidate].params)
                 /\ \A k \in DOMAIN st.args : Passes(st.args[k].t, funcs[candidate].params[k])
                 /\ st.t = funcs[candidate].result /\ st.t # NoType
                 /\ Leaves /\ UNCHANGED <<unresolved, errors>>
<1> DEFINE g == candidate
           m == Match(funcs[g].params, callArgs)
           st == WithCall(stmt, m.args, g, funcs[g].result)
<1>1. Comparing /\ SameLength /\ m.ok /\ funcs' = SetStatement(st) /\ CallEnds
      /\ UNCHANGED <<order, tables, sub, next, unresolved, errors>>
  BY DEF CallOverload, WithCall
<1>2. /\ InBody /\ g \in Nat /\ g \in DOMAIN funcs
      /\ funcs[g].params \in Seq(Types \cup {Untyped})
      /\ funcs[g].result \in Types \cup {NoType} /\ funcs[g].typed
  BY <1>1, CandidateFacts
<1>3. Len(funcs[g].params) = Len(stmt.args)  BY <1>1 DEF SameLength
<1>4. stmt.fn # NoFunc /\ stmt.t = NoType
  <2>1. Searching  BY <1>1 DEF Comparing
  <2> QED  BY <2>1, UntypedCall DEF TypeInv
<1>5. stmt \in Statement /\ TypedArgs(callArgs) /\ Len(callArgs) = Len(stmt.args)
      /\ callArgs \in Seq(Arg)
  BY <1>2, BodyFacts, TypedsFacts DEF TypeInv, TypedArgs
<1>6. funcs[g].result # NoType /\ ~ IsGeneric(funcs[g])
  <2>1. funcs[g] \in Function /\ GoodFunction(funcs[g])  BY <1>2, FuncsFacts DEF TypeInv
  <2>2. funcs[g].result # NoType  BY <1>2, <2>1, Zenon DEF GoodFunction
  <2>3. ~ IsGeneric(funcs[g])  BY <1>2, <2>1 DEF GoodFunction, Parsed
  <2> QED  BY <2>2, <2>3
<1> HIDE DEF g
<1>7. st \in Statement /\ GoodStatement(st, fun)  BY <1>2, <1>3, MatchKept
<1>8. KeepsArgs(callArgs, m.args)  BY <1>2, <1>3, MatchKept
<1>9. \A k \in DOMAIN callArgs :
        funcs[g].params[k] # Untyped => Passes(m.args[k].t, funcs[g].params[k])
  BY <1>1, <1>2, <1>3, <1>5, MatchFacts
<1> HIDE DEF m
<1>10. m.args \in Seq(Arg) /\ Len(m.args) = Len(stmt.args)  BY <1>5, <1>8 DEF KeepsArgs
<1>11. st.args = m.args /\ st.fn = stmt.fn /\ st.ret = stmt.ret /\ st.callee = g
       /\ st.t = funcs[g].result
  BY <1>2, <1>5, <1>10, StatementWith
<1> HIDE DEF st
<1>12. ASSUME NEW k \in DOMAIN st.args  PROVE Passes(st.args[k].t, funcs[g].params[k])
  <2>1. k \in DOMAIN callArgs /\ k \in DOMAIN funcs[g].params
    BY <1>2, <1>3, <1>5, <1>10, <1>11, <1>12
  <2>2. funcs[g].params[k] # Untyped  BY <1>6, <2>1 DEF IsGeneric
  <2> QED  BY <1>9, <1>11, <2>1, <2>2
<1>13. ArgsStay(stmt.args, st.args)  BY <1>2, <1>8, <1>11, ArgsStayFacts
<1>14. Wrote(st)  BY <1>1, <1>2, <1>4, <1>7, <1>11, <1>13 DEF Wrote
<1>15. Leaves  BY <1>1 DEF CallEnds, Leaves
<1>16. g = candidate  BY DEF g
<1> HIDE DEF Match
<1> QED  BY <1>1, <1>3, <1>4, <1>6, <1>8, <1>10, <1>11, <1>12, <1>14, <1>15, <1>16

LEMMA CallFailsFacts ==
  ASSUME TypeInv, CallFails
  PROVE  \E st : /\ Wrote(st) /\ st.fn # NoFunc /\ st.args = callArgs
                 /\ stmt.t = NoType /\ st.t = NoType
                 /\ Leaves /\ Fail(TRUE)
<1> DEFINE st == [stmt EXCEPT !.args = callArgs]
<1>1. InBody /\ Searching
      /\ funcs' = SetStatement(st) /\ CallEnds /\ Fail(TRUE)
      /\ UNCHANGED <<order, tables, sub, next>>
  BY DEF CallFails, AllTried, Searching
<1>0. stmt.fn # NoFunc /\ stmt.t = NoType  BY <1>1, UntypedCall DEF TypeInv
<1>2. st \in Statement /\ GoodStatement(st, fun)  BY <1>1, CallArgsKept
<1>3. stmt \in Statement /\ callArgs \in Seq(Arg)
  BY <1>1, BodyFacts, TypedsFacts DEF TypeInv, TypedArgs
<1>4. st.args = callArgs /\ st.fn = stmt.fn /\ st.ret = stmt.ret /\ st.callee = stmt.callee
      /\ st.t = stmt.t
  BY <1>3, StatementWithArgs
<1> HIDE DEF st
<1>5. ArgsStay(stmt.args, st.args)  BY <1>1, <1>4, CallArgsStay
<1>6. Wrote(st)  BY <1>0, <1>1, <1>2, <1>4, <1>5 DEF Wrote
<1>7. Leaves  BY <1>1 DEF CallEnds, Leaves
<1> QED  BY <1>0, <1>1, <1>4, <1>6, <1>7

(* What an attempt that fails changes: literals without a cast, which may  *)
(* take another type.                                                      *)
Literal(a) == a.lit /\ ~ a.cast

LeftOver(a, b) ==
  /\ b.lit = a.lit /\ b.v = a.v /\ b.cast = a.cast
  /\ ~ Literal(a) => b = a
  /\ b.t # a.t => Kind(a.t) = "integral" /\ Kind(b.t) \in {"integral", "ptr"}

LEMMA LeftFacts ==
  ASSUME NEW a \in Arg, a.t \in Types, NEW to \in Types \cup {Untyped}
  PROVE  LeftOver(a, Attempt(a, to).left)
<1>1. CASE to = Untyped
  <2>1. Attempt(a, to).left = a  BY <1>1 DEF Attempt
  <2> QED  BY <2>1 DEF LeftOver
<1>2. CASE to # Untyped
  <2> DEFINE c == Coerced(a, to)
  <2>1. Attempt(a, to).left = c  BY <1>2 DEF Attempt
  <2>2. c = a \/ (/\ a.lit /\ ~ a.cast /\ Coercible(a.v, a.t, to)
                  /\ c = [a EXCEPT !.t = to])
    BY DEF Coerced
  <2>3. CASE c = a  BY <2>1, <2>3 DEF LeftOver
  <2>4. CASE /\ a.lit /\ ~ a.cast /\ Coercible(a.v, a.t, to)
             /\ c = [a EXCEPT !.t = to]
    <3>1. c.lit = a.lit /\ c.v = a.v /\ c.cast = a.cast /\ c.t = to  BY <2>4 DEF Arg
    <3>2. Kind(a.t) = "integral" /\ Kind(to) \in {"integral", "ptr"}  BY <2>4 DEF Coercible
    <3> HIDE DEF c
    <3> QED  BY <2>1, <2>4, <3>1, <3>2 DEF LeftOver, Literal
  <2> QED  BY <2>2, <2>3, <2>4
<1> QED  BY <1>1, <1>2

LEMMA FailedMatch ==
  ASSUME NEW args, TypedArgs(args), NEW params \in Seq(Types \cup {Untyped}),
         Len(params) = Len(args), ~ Match(params, args).ok
  PROVE  \A k \in DOMAIN args : LeftOver(args[k], Match(params, args).args[k])
<1> DEFINE tries == [i \in DOMAIN args |-> Attempt(args[i], params[i])]
           bad == {i \in DOMAIN args : ~ tries[i].fits}
           now == [i \in DOMAIN args |->
                     IF bad = {} THEN tries[i].passed
                     ELSE IF \A j \in bad : i <= j THEN tries[i].left ELSE args[i]]
<1>1. args \in Seq(Arg) /\ Len(args) \in Nat /\ DOMAIN args = 1 .. Len(args)
  BY DEF TypedArgs
<1>2. ASSUME NEW i \in DOMAIN args
      PROVE  LeftOver(args[i], tries[i].left) /\ LeftOver(args[i], args[i])
  <2>1. args[i] \in Arg /\ args[i].t \in Types  BY <1>1, <1>2 DEF TypedArgs
  <2>2. params[i] \in Types \cup {Untyped}
    <3>1. DOMAIN params = 1 .. Len(params)  OBVIOUS
    <3> QED  BY <1>1, <1>2, <3>1
  <2>3. tries[i] = Attempt(args[i], params[i])  BY <1>2
  <2>4. LeftOver(args[i], args[i])  BY DEF LeftOver
  <2> HIDE DEF tries
  <2> QED  BY <2>1, <2>2, <2>3, <2>4, LeftFacts
<1>3. Match(params, args) = [ok |-> bad = {}, args |-> now]
  <2>1. Match(params, args) = Outcome(tries, args)  BY DEF Match
  <2> HIDE DEF tries
  <2> QED  BY <2>1 DEF Outcome
<1>4. bad # {}
  <2>1. Match(params, args).ok = (bad = {})  BY <1>3
  <2> HIDE DEF bad
  <2> QED  BY <2>1
<1>5. ASSUME NEW i \in DOMAIN args  PROVE LeftOver(args[i], now[i])
  <2> HIDE DEF tries, bad
  <2>1. now[i] \in {tries[i].left, args[i]}  BY <1>4, <1>5
  <2> QED  BY <1>2, <2>1
<1>6. Match(params, args).args = now  BY <1>3
<1> HIDE DEF now, Match
<1> QED  BY <1>5, <1>6

(* What the next visit of a call makes of its arguments, unless an attempt *)
(* that has failed changed a literal.                                      *)
AttemptLeaves(args, now) ==
  /\ Len(now) = Len(args)
  /\ \A k \in DOMAIN args : LeftOver(args[k], now[k])

LEMMA NextOverloadFacts ==
  ASSUME TypeInv, NextOverload
  PROVE  \E st : /\ Wrote(st) /\ st.fn # NoFunc /\ stmt.t = NoType /\ st.t = NoType
                 /\ Comparing
                 /\ \/ st = stmt
                    \/ AttemptLeaves(callArgs, st.args) /\ KeepsArgs(callArgs, st.args)
                 /\ SameLength => ~ Match(funcs[candidate].params, callArgs).ok
                 /\ pass' = pass /\ stack' = [stack EXCEPT ![Len(stack)].tried = @ + 1]
                 /\ UNCHANGED <<unresolved, errors>>
<1> DEFINE g == candidate
           m == Match(funcs[g].params, callArgs)
           st == [stmt EXCEPT !.args = m.args]
<1>1. Comparing /\ UNCHANGED <<order, tables, pass, sub, next, unresolved, errors>>
      /\ stack' = [stack EXCEPT ![Len(stack)].tried = @ + 1]
      /\ \/ SameLength /\ ~ m.ok /\ funcs' = SetStatement(st)
         \/ ~ SameLength /\ funcs' = funcs
  BY DEF NextOverload, walk
<1>2. /\ InBody /\ g \in Nat /\ g \in DOMAIN funcs
      /\ funcs[g].params \in Seq(Types \cup {Untyped})
  BY <1>1, CandidateFacts
<1>3. stmt.fn # NoFunc /\ stmt.t = NoType
  <2>1. Searching  BY <1>1 DEF Comparing
  <2> QED  BY <2>1, UntypedCall DEF TypeInv
<1>4. stmt \in Statement /\ TypedArgs(callArgs) /\ Len(callArgs) = Len(stmt.args)
      /\ callArgs \in Seq(Arg) /\ GoodStatement(stmt, fun)
  BY <1>2, BodyFacts, TypedsFacts DEF TypeInv, TypedArgs
<1>5. CASE SameLength /\ ~ m.ok /\ funcs' = SetStatement(st)
  <2>1. Len(funcs[g].params) = Len(stmt.args)  BY <1>5 DEF SameLength
  <2>2. g = candidate  OBVIOUS
  <2> HIDE DEF g
  <2>3. st \in Statement /\ GoodStatement(st, fun)  BY <1>2, <2>1, MatchKept
  <2>4. KeepsArgs(callArgs, m.args)  BY <1>2, <2>1, MatchKept
  <2>5. \A k \in DOMAIN callArgs : LeftOver(callArgs[k], m.args[k])
    BY <1>2, <1>4, <1>5, <2>1, FailedMatch
  <2>6. ~ Match(funcs[g].params, callArgs).ok  BY <1>5
  <2> HIDE DEF m
  <2>7. m.args \in Seq(Arg) /\ Len(m.args) = Len(callArgs)  BY <1>4, <2>4 DEF KeepsArgs
  <2>8. st.args = m.args /\ st.fn = stmt.fn /\ st.ret = stmt.ret /\ st.t = stmt.t
    BY <1>4, <2>7, StatementWithArgs
  <2> HIDE DEF st
  <2>9. ArgsStay(stmt.args, st.args)  BY <1>2, <2>4, <2>8, ArgsStayFacts
  <2>10. Wrote(st)  BY <1>1, <1>2, <1>3, <1>5, <2>3, <2>8, <2>9 DEF Wrote
  <2>11. AttemptLeaves(callArgs, st.args)  BY <2>5, <2>7, <2>8 DEF AttemptLeaves
  <2> HIDE DEF Match
  <2>12. KeepsArgs(callArgs, st.args)  BY <2>4, <2>8
  <2> QED  BY <1>1, <1>3, <2>2, <2>6, <2>8, <2>10, <2>11, <2>12
<1>6. CASE ~ SameLength /\ funcs' = funcs
  <2>1. funcs' = SetStatement(stmt)  BY <1>2, <1>6, SameStatement DEF TypeInv
  <2>2. ArgsStay(stmt.args, stmt.args)  BY DEF ArgsStay
  <2>3. Wrote(stmt)  BY <1>1, <1>2, <1>4, <2>1, <2>2 DEF Wrote
  <2> HIDE DEF Match
  <2> QED  BY <1>1, <1>3, <1>6, <2>3
<1> QED  BY <1>1, <1>5, <1>6

-----------------------------------------------------------------------------
(* A call that has a type agrees with the function it calls.               *)

CalleesKept ==
  /\ HeadsKept /\ Placed \subseteq Placed'
  /\ \A i \in DOMAIN funcs : funcs[i].typed => (funcs')[i].result = funcs[i].result

LEMMA AgreesKept ==
  ASSUME CalleesKept, NEW st, Agrees(st, funcs, Placed)
  PROVE  Agrees(st, funcs', Placed')
<1>1. st.callee \in DOMAIN funcs /\ funcs[st.callee].typed /\ st.callee \in Placed
      /\ funcs[st.callee].name = st.fn /\ st.t = funcs[st.callee].result
      /\ Len(st.args) = Len(funcs[st.callee].params)
      /\ \A k \in DOMAIN st.args : Passes(st.args[k].t, funcs[st.callee].params[k])
  BY DEF Agrees
<1>2. DOMAIN funcs \subseteq DOMAIN funcs'  BY HeadsFacts DEF CalleesKept
<1>3. /\ (funcs')[st.callee].name = funcs[st.callee].name
      /\ (funcs')[st.callee].params = funcs[st.callee].params
      /\ (funcs')[st.callee].typed /\ (funcs')[st.callee].result = funcs[st.callee].result
      /\ st.callee \in Placed'
  BY <1>1 DEF CalleesKept, HeadsKept
<1> QED  BY <1>1, <1>2, <1>3 DEF Agrees

(* Every call has its type as before, or agrees with its function.         *)
LEMMA CallsKept ==
  ASSUME CallInv, CalleesKept,
         \A i \in DOMAIN funcs' : \A s \in DOMAIN (funcs')[i].body :
           \/ (funcs')[i].body[s].fn = NoFunc
           \/ (funcs')[i].body[s].t = NoType
           \/ Agrees((funcs')[i].body[s], funcs', Placed') /\ ArgsTyped((funcs')[i].body[s], (funcs')[i])
           \/ /\ i \in DOMAIN funcs /\ s \in DOMAIN funcs[i].body
              /\ (funcs')[i].body[s] = funcs[i].body[s]
  PROVE  CallInv'
<1> SUFFICES ASSUME NEW i \in DOMAIN funcs', NEW s \in DOMAIN (funcs')[i].body,
                    (funcs')[i].body[s].fn # NoFunc, (funcs')[i].body[s].t # NoType
             PROVE  Agrees((funcs')[i].body[s], funcs', Placed') /\ ArgsTyped((funcs')[i].body[s], (funcs')[i])
  BY DEF CallInv
<1>1. CASE Agrees((funcs')[i].body[s], funcs', Placed') /\ ArgsTyped((funcs')[i].body[s], (funcs')[i])
  BY <1>1
<1>2. CASE /\ i \in DOMAIN funcs /\ s \in DOMAIN funcs[i].body
           /\ (funcs')[i].body[s] = funcs[i].body[s]
  <2> DEFINE st == funcs[i].body[s]
  <2>1. Agrees(st, funcs, Placed) /\ ArgsTyped(st, funcs[i])  BY <1>2 DEF CallInv
  <2>2. (funcs')[i].params = funcs[i].params  BY <1>2 DEF CalleesKept, HeadsKept
  <2>3. ArgsTyped(st, (funcs')[i])  BY <2>1, <2>2 DEF ArgsTyped
  <2>4. (funcs')[i].body[s] = st  BY <1>2
  <2> HIDE DEF st
  <2>5. Agrees(st, funcs', Placed')  BY <2>1, AgreesKept
  <2> QED  BY <2>3, <2>4, <2>5
<1> QED  BY <1>1, <1>2

LEMMA WroteFacts ==
  ASSUME TypeInv, NEW st, Wrote(st)
  PROVE  /\ FunctionsInv' /\ CalleesKept /\ DOMAIN funcs' = DOMAIN funcs
         /\ \A i \in DOMAIN funcs : i # top.f => (funcs')[i] = funcs[i]
         /\ \A i \in DOMAIN funcs : SameHead(funcs[i], (funcs')[i])
         /\ (funcs')[top.f].body = [fun.body EXCEPT ![top.s] = st]
         /\ DOMAIN (funcs')[top.f].body = DOMAIN fun.body
         /\ (funcs')[top.f].body[top.s] = st
         /\ \A s \in DOMAIN fun.body : s # top.s => (funcs')[top.f].body[s] = fun.body[s]
         /\ top.f \in DOMAIN funcs /\ top.s \in DOMAIN fun.body
         /\ fun = funcs[top.f] /\ stmt = fun.body[top.s]
         /\ fun.body \in Seq(Statement)
         /\ order' = order /\ Placed' = Placed
<1>1. InBody /\ st \in Statement /\ GoodStatement(st, fun) /\ funcs' = SetStatement(st)
      /\ UNCHANGED <<order, tables, sub, next>>
  BY DEF Wrote
<1>2. /\ FunctionsInv' /\ HeadsKept /\ DOMAIN funcs' = DOMAIN funcs
      /\ \A i \in DOMAIN funcs : i # top.f => (funcs')[i] = funcs[i]
      /\ \A i \in DOMAIN funcs : SameHead(funcs[i], (funcs')[i])
      /\ (funcs')[top.f].body = [fun.body EXCEPT ![top.s] = st]
  BY <1>1, StatementWritten DEF TypeInv
<1>3. /\ top.f \in DOMAIN funcs /\ top.s \in DOMAIN fun.body
      /\ fun = funcs[top.f] /\ stmt = fun.body[top.s] /\ fun \in Function
  BY <1>1, BodyFacts, StackFacts DEF TypeInv, InBody
<1>4. fun.body \in Seq(Statement)  BY <1>3, FunctionFields
<1>5. order' = order /\ Placed' = Placed  BY <1>1 DEF Placed
<1>6. CalleesKept  BY <1>2, <1>5 DEF CalleesKept, SameHead
<1> DEFINE b == (funcs')[top.f].body
<1>7. b = [fun.body EXCEPT ![top.s] = st]  BY <1>2
<1> HIDE DEF b
<1>8. /\ DOMAIN b = DOMAIN fun.body /\ b[top.s] = st
      /\ \A s \in DOMAIN fun.body : s # top.s => b[s] = fun.body[s]
  BY <1>3, <1>4, <1>7
<1> QED  BY <1>2, <1>3, <1>4, <1>5, <1>6, <1>8 DEF b

LEMMA WroteCall ==
  ASSUME TypeInv, CallInv, NEW st, Wrote(st),
         st.fn = NoFunc \/ st.t = NoType \/ (Agrees(st, funcs, Placed) /\ ArgsTyped(st, fun))
  PROVE  CallInv'
<1>1. /\ CalleesKept /\ DOMAIN funcs' = DOMAIN funcs
      /\ \A i \in DOMAIN funcs : i # top.f => (funcs')[i] = funcs[i]
      /\ \A i \in DOMAIN funcs : SameHead(funcs[i], (funcs')[i])
      /\ DOMAIN (funcs')[top.f].body = DOMAIN fun.body
      /\ (funcs')[top.f].body[top.s] = st
      /\ \A s \in DOMAIN fun.body : s # top.s => (funcs')[top.f].body[s] = fun.body[s]
      /\ top.f \in DOMAIN funcs /\ fun = funcs[top.f]
  BY WroteFacts
<1>2. ASSUME NEW i \in DOMAIN funcs', NEW s \in DOMAIN (funcs')[i].body
      PROVE  \/ (funcs')[i].body[s].fn = NoFunc
             \/ (funcs')[i].body[s].t = NoType
             \/ Agrees((funcs')[i].body[s], funcs', Placed') /\ ArgsTyped((funcs')[i].body[s], (funcs')[i])
             \/ /\ i \in DOMAIN funcs /\ s \in DOMAIN funcs[i].body
                /\ (funcs')[i].body[s] = funcs[i].body[s]
  <2>1. CASE i # top.f  BY <1>1, <1>2, <2>1
  <2>2. CASE i = top.f /\ s # top.s  BY <1>1, <1>2, <2>2
  <2>3. CASE i = top.f /\ s = top.s
    <3>1. (funcs')[i].body[s] = st /\ (funcs')[i].params = fun.params
      BY <1>1, <2>3 DEF SameHead
    <3>2. CASE Agrees(st, funcs, Placed) /\ ArgsTyped(st, fun)
      <4>1. Agrees(st, funcs', Placed')  BY <1>1, <3>2, AgreesKept
      <4>2. ArgsTyped(st, (funcs')[i])  BY <3>1, <3>2 DEF ArgsTyped
      <4> QED  BY <3>1, <4>1, <4>2
    <3> QED  BY <3>1, <3>2
  <2> QED  BY <2>1, <2>2, <2>3
<1> QED  BY <1>1, <1>2, CallsKept

LEMMA WrittenCalls ==
  TypeInv /\ CallInv
  /\ (ReturnValue \/ CallExact \/ CallKept \/ CallOverload \/ NextOverload \/ CallFails) => CallInv'
<1> SUFFICES ASSUME TypeInv, CallInv,
                    ReturnValue \/ CallExact \/ CallKept \/ CallOverload \/ NextOverload \/ CallFails
             PROVE  CallInv'
  OBVIOUS
<1>1. CASE ReturnValue  BY <1>1, ReturnValueFacts, WroteCall
<1>2. CASE CallExact
  <2>1. PICK st : /\ Wrote(st) /\ st.fn # NoFunc /\ st.args = callArgs
                  /\ st.callee \in DOMAIN funcs /\ st.callee \in Placed /\ funcs[st.callee].typed
                  /\ Signature(funcs[st.callee]) = exact
                  /\ st.t = funcs[st.callee].result
    BY <1>2, CallExactFacts
  <2>2. InBody /\ st.fn = stmt.fn  BY <2>1 DEF Wrote
  <2>3. TypedArgs(callArgs)  BY <2>2, TypedsFacts DEF TypeInv
  <2>4. funcs[st.callee].name = st.fn /\ funcs[st.callee].params = TypesOf(callArgs)
    BY <2>1, <2>2 DEF Signature, exact
  <2>5. Len(TypesOf(callArgs)) = Len(callArgs)  BY <2>3, TypesOfFacts
  <2>6. \A k \in DOMAIN callArgs : callArgs[k].t \in Types /\ TypesOf(callArgs)[k] = callArgs[k].t
    BY <2>3 DEF TypedArgs, TypesOf
  <2> DEFINE args == callArgs
  <2> HIDE DEF args
  <2>7. \A k \in DOMAIN st.args : Passes(st.args[k].t, funcs[st.callee].params[k])
    BY <2>1, <2>4, <2>6, SameTypePasses
  <2>8. Agrees(st, funcs, Placed)  BY <2>1, <2>4, <2>5, <2>7 DEF Agrees
  <2>9. ArgsTyped(st, fun)  BY <2>1, <2>2, CallArgsStay, KeptArgsStayTyped
  <2> QED  BY <2>1, <2>8, <2>9, WroteCall
<1>3. CASE CallKept
  <2>1. PICK st : /\ Wrote(st) /\ st.fn # NoFunc /\ st.args = callArgs
                  /\ st.callee = stmt.callee /\ st.t = stmt.t /\ st.t # NoType
    BY <1>3, CallKeptFacts
  <2>2. InBody /\ st.fn = stmt.fn  BY <2>1 DEF Wrote
  <2>3. top.f \in DOMAIN funcs /\ top.s \in DOMAIN fun.body /\ fun = funcs[top.f]
        /\ stmt = fun.body[top.s]
    BY <2>1, WroteFacts
  <2>4. Agrees(stmt, funcs, Placed) /\ ArgsTyped(stmt, fun)
    BY <2>1, <2>2, <2>3 DEF CallInv
  <2>5. /\ Len(callArgs) = Len(stmt.args) /\ callArgs \in Seq(Arg)
        /\ \A k \in DOMAIN stmt.args :
             /\ stmt.args[k].lit \/ stmt.args[k].cast => callArgs[k] = stmt.args[k]
             /\ ~ stmt.args[k].lit /\ ~ stmt.args[k].cast => callArgs[k].t = fun.params[stmt.args[k].v]
    BY <2>2, TypedsFacts DEF TypeInv, TypedArgs
  <2>6. DOMAIN callArgs = DOMAIN stmt.args
    BY <2>2, <2>5, BodyFacts, StatementFields DEF TypeInv
  <2>7. \A k \in DOMAIN stmt.args : callArgs[k].t = stmt.args[k].t
    BY <2>4, <2>5 DEF ArgsTyped
  <2>8. Agrees(st, funcs, Placed)  BY <2>1, <2>2, <2>4, <2>5, <2>6, <2>7 DEF Agrees
  <2>9. ArgsTyped(st, fun)  BY <2>1, <2>2, CallArgsStay, KeptArgsStayTyped
  <2> QED  BY <2>1, <2>8, <2>9, WroteCall
<1>4. CASE CallOverload
  <2>1. PICK st : /\ Wrote(st) /\ st.fn # NoFunc /\ Comparing /\ st.callee = candidate
                  /\ KeepsArgs(callArgs, st.args)
                  /\ Len(st.args) = Len(funcs[candidate].params)
                  /\ \A k \in DOMAIN st.args : Passes(st.args[k].t, funcs[candidate].params[k])
                  /\ st.t = funcs[candidate].result
    BY <1>4, CallOverloadFacts
  <2>2. InBody /\ st.fn = stmt.fn  BY <2>1 DEF Wrote
  <2>3. candidate \in DOMAIN funcs /\ candidate \in Placed /\ funcs[candidate].typed
        /\ funcs[candidate].name = stmt.fn
    BY <2>1, CandidateFacts
  <2>4. Agrees(st, funcs, Placed)  BY <2>1, <2>2, <2>3 DEF Agrees
  <2>5. ArgsTyped(st, fun)  BY <2>1, <2>2, KeptArgsStayTyped
  <2> QED  BY <2>1, <2>4, <2>5, WroteCall
<1>5. CASE NextOverload  BY <1>5, NextOverloadFacts, WroteCall
<1>6. CASE CallFails  BY <1>6, CallFailsFacts, WroteCall
<1> QED  BY <1>1, <1>2, <1>3, <1>4, <1>5, <1>6

LEMMA WaitsKept ==
  ASSUME HeadsKept, NEW st, NEW g, WaitsFor(st, g, funcs),
         NEW h, h.name = g.name, h.params = g.params
  PROVE  WaitsFor(st, h, funcs')
<1>1. PICK i \in DOMAIN funcs : IsGeneric(funcs[i]) /\ funcs[i].name = st.fn  BY DEF WaitsFor
<1>2. i \in DOMAIN funcs' /\ IsGeneric((funcs')[i])  BY <1>1, HeadsFacts
<1>3. (funcs')[i].name = st.fn  BY <1>1 DEF HeadsKept
<1> QED  BY <1>2, <1>3 DEF WaitsFor

(* The calls below the top of the stack go on waiting.                     *)
LEMMA WaitingKept ==
  ASSUME TypeInv, WaitingInv, HeadsKept, NEW k \in DOMAIN stack, k < Len(stack),
         (funcs')[stack[k].f].params = funcs[stack[k].f].params,
         (funcs')[stack[k].f].body[stack[k].s] = funcs[stack[k].f].body[stack[k].s]
  PROVE  /\ k + 1 \in DOMAIN stack
         /\ WaitsFor((funcs')[stack[k].f].body[stack[k].s], (funcs')[stack[k + 1].f], funcs')
         /\ ArgsTyped((funcs')[stack[k].f].body[stack[k].s], (funcs')[stack[k].f])
<1>1. stack \in Seq(Frames)  BY DEF TypeInv, StackInv
<1>2. k + 1 \in DOMAIN stack  BY <1>1
<1>3. stack[k + 1].f \in DOMAIN funcs  BY <1>2 DEF TypeInv, StackInv
<1> DEFINE f == funcs[stack[k].f]
           st == f.body[stack[k].s]
           g == funcs[stack[k + 1].f]
           h == (funcs')[stack[k + 1].f]
<1>4. WaitsFor(st, g, funcs) /\ ArgsTyped(st, f)  BY DEF WaitingInv
<1>5. h.name = g.name /\ h.params = g.params  BY <1>3 DEF HeadsKept
<1>6. (funcs')[stack[k].f].body[stack[k].s] = st  OBVIOUS
<1>7. (funcs')[stack[k].f].params = f.params  OBVIOUS
<1> HIDE DEF f, st, g, h
<1>8. WaitsFor(st, h, funcs')  BY <1>4, <1>5, WaitsKept
<1>9. ArgsTyped(st, (funcs')[stack[k].f])  BY <1>4, <1>7 DEF ArgsTyped
<1> QED  BY <1>2, <1>6, <1>8, <1>9 DEF h

Moved(s) ==
  /\ Len(stack') = Len(stack) /\ DOMAIN stack' = DOMAIN stack /\ Len(stack) \in DOMAIN stack
  /\ \A k \in DOMAIN stack : k # Len(stack) => (stack')[k] = stack[k]
  /\ (stack')[Len(stack)].f = top.f /\ (stack')[Len(stack)].s = s

LEMMA MovedBy ==
  ASSUME StackInv, Visiting, NEW fr \in Frames, fr.f = top.f, stack' = Put(stack, Len(stack), fr)
  PROVE  Moved(fr.s) /\ (stack')[Len(stack)] = fr
<1>1. stack \in Seq(Frames) /\ Len(stack) \in DOMAIN stack  BY StackFacts DEF StackInv
<1>2. DiffersAt(Frames, stack, Len(stack), fr, stack')  BY <1>1, SeqPut
<1> QED  BY <1>1, <1>2 DEF DiffersAt, Moved

LEMMA NextMoves ==
  ASSUME TypeInv, Visiting, stack' = NextStatement
  PROVE  Moved(top.s + 1) /\ (stack')[Len(stack)].tried = 0
<1> DEFINE fr == [top EXCEPT !.s = top.s + 1, !.tried = 0]
<1>1. /\ fr \in Frames /\ stack' = [stack EXCEPT ![Len(stack)] = fr]
      /\ fr.f = top.f /\ fr.s = top.s + 1 /\ fr.tried = 0
  BY NextFrame DEF TypeInv
<1> HIDE DEF fr
<1>2. stack \in Seq(Frames) /\ Len(stack) \in DOMAIN stack  BY StackFacts DEF TypeInv, StackInv
<1> QED  BY <1>1, <1>2 DEF Moved

LEMMA TriedMoves ==
  ASSUME TypeInv, Visiting, stack' = [stack EXCEPT ![Len(stack)].tried = @ + 1]
  PROVE  Moved(top.s) /\ (stack')[Len(stack)].tried = top.tried + 1
<1> DEFINE fr == [top EXCEPT !.tried = top.tried + 1]
<1>1. /\ fr \in Frames /\ stack' = [stack EXCEPT ![Len(stack)] = fr]
      /\ fr.f = top.f /\ fr.s = top.s
  BY TriedFrame DEF TypeInv
<1>2. fr.tried = top.tried + 1
  <2>1. top \in Frames  BY StackFacts DEF TypeInv
  <2> DEFINE n == top.tried + 1
  <2> HIDE DEF n
  <2>2. [top EXCEPT !.tried = n].tried = n  BY <2>1 DEF Frames
  <2>3. fr = [top EXCEPT !.tried = n]  BY DEF n
  <2>4. n = top.tried + 1  BY DEF n
  <2> HIDE DEF fr
  <2> QED  BY <2>2, <2>3, <2>4
<1> HIDE DEF fr
<1>3. stack' = Put(stack, Len(stack), fr)  BY <1>1 DEF Put
<1>4. Moved(fr.s) /\ (stack')[Len(stack)] = fr  BY <1>1, <1>3, MovedBy DEF TypeInv
<1> QED  BY <1>1, <1>2, <1>4

LEMMA WroteWaiting ==
  ASSUME TypeInv, WaitingInv, NEW st, Wrote(st), NEW s, stack' = <<>> \/ Moved(s)
  PROVE  WaitingInv'
<1>1. CASE stack' = <<>>  BY <1>1 DEF WaitingInv
<1>2. CASE Moved(s)
  <2>1. /\ CalleesKept /\ \A i \in DOMAIN funcs : i # top.f => (funcs')[i] = funcs[i]
    BY WroteFacts
  <2>2. HeadsKept  BY <2>1 DEF CalleesKept
  <2>3. Visiting  BY DEF Wrote, InBody
  <2>4. top = stack[Len(stack)] /\ DOMAIN stack = 1 .. Len(stack) /\ Len(stack) \in Nat
    BY <2>3, StackFacts DEF TypeInv
  <2> SUFFICES ASSUME NEW k \in DOMAIN stack', k < Len(stack')
               PROVE  /\ WaitsFor((funcs')[(stack')[k].f].body[(stack')[k].s], (funcs')[(stack')[k + 1].f], funcs')
                      /\ ArgsTyped((funcs')[(stack')[k].f].body[(stack')[k].s], (funcs')[(stack')[k].f])
    BY DEF WaitingInv
  <2>5. k \in DOMAIN stack /\ k < Len(stack) /\ k # Len(stack) /\ (stack')[k] = stack[k]
    BY <1>2, <2>4 DEF Moved
  <2>6. stack[k].f # top.f /\ stack[k].f \in DOMAIN funcs
    <3>1. Len(stack) \in DOMAIN stack  BY <1>2 DEF Moved
    <3> QED  BY <2>4, <2>5, <3>1 DEF TypeInv, StackInv
  <2>7. (funcs')[stack[k].f] = funcs[stack[k].f]  BY <2>1, <2>6
  <2>8. /\ k + 1 \in DOMAIN stack
        /\ WaitsFor((funcs')[stack[k].f].body[stack[k].s], (funcs')[stack[k + 1].f], funcs')
        /\ ArgsTyped((funcs')[stack[k].f].body[stack[k].s], (funcs')[stack[k].f])
    BY <2>2, <2>5, <2>7, WaitingKept
  <2>9. (stack')[k + 1].f = stack[k + 1].f
    <3>1. CASE k + 1 = Len(stack)  BY <1>2, <2>4, <3>1 DEF Moved
    <3>2. CASE k + 1 # Len(stack)  BY <1>2, <2>8, <3>2 DEF Moved
    <3> QED  BY <3>1, <3>2
  <2> QED  BY <2>5, <2>8, <2>9
<1> QED  BY <1>1, <1>2

(* A statement keeps having a type.                                        *)
LEMMA WroteTyped ==
  ASSUME TypeInv, NEW st, Wrote(st), NEW i \in DOMAIN funcs, NEW n, TypedTo(funcs[i], n)
  PROVE  TypedTo((funcs')[i], n)
<1>1. /\ \A j \in DOMAIN funcs : j # top.f => (funcs')[j] = funcs[j]
      /\ DOMAIN (funcs')[top.f].body = DOMAIN fun.body
      /\ (funcs')[top.f].body[top.s] = st
      /\ \A s \in DOMAIN fun.body : s # top.s => (funcs')[top.f].body[s] = fun.body[s]
      /\ fun = funcs[top.f] /\ stmt = fun.body[top.s]
  BY WroteFacts
<1>2. stmt.t # NoType => st.t # NoType  BY DEF Wrote
<1>3. CASE i # top.f  BY <1>1, <1>3
<1>4. CASE i = top.f
  <2>1. \A s \in DOMAIN fun.body : s <= n => fun.body[s].t # NoType
    BY <1>1, <1>4 DEF TypedTo
  <2>2. ASSUME NEW s \in DOMAIN (funcs')[top.f].body, s <= n
        PROVE  (funcs')[top.f].body[s].t # NoType
    BY <1>1, <1>2, <2>1, <2>2
  <2> QED  BY <1>4, <2>2 DEF TypedTo
<1> QED  BY <1>3, <1>4

LEMMA WroteChecked ==
  ASSUME TypeInv, CheckInv, NEW st, Wrote(st), NEW s \in Nat, errors \subseteq errors',
         \/ pass' = "crashed" /\ stack' = <<>>
         \/ /\ pass' = pass /\ Moved(s)
            /\ \/ s = top.s
               \/ s = top.s + 1 /\ (st.t = NoType /\ pass = "check" => errors' # {})
  PROVE  CheckInv'
<1>1. CASE pass' = "crashed"  BY <1>1 DEF CheckInv
<1>2. CASE /\ pass' = pass /\ Moved(s)
           /\ \/ s = top.s
              \/ s = top.s + 1 /\ (st.t = NoType /\ pass = "check" => errors' # {})
  <2>0. Visiting  BY DEF Wrote, InBody
  <2>1. pass \in Walks /\ top = stack[Len(stack)] /\ DOMAIN stack = 1 .. Len(stack)
        /\ Len(stack) \in DOMAIN stack /\ top.s \in Nat
    BY <2>0, StackFacts DEF TypeInv
  <2>2. pass # "accepted"  BY <2>1 DEF Walks
  <2> SUFFICES ASSUME pass' = "check", errors' = {}
               PROVE  /\ \A k \in DOMAIN order' :
                           k < next' /\ ~ IsGeneric((funcs')[(order')[k]])
                           => TypedTo((funcs')[(order')[k]], Len((funcs')[(order')[k]].body))
                      /\ \A k \in DOMAIN stack' : TypedTo((funcs')[(stack')[k].f], (stack')[k].s - 1)
    BY <1>2, <2>2 DEF CheckInv
  <2>3. pass = "check" /\ errors = {}  BY <1>2
  <2>4. /\ \A k \in DOMAIN order :
             k < next /\ ~ IsGeneric(funcs[order[k]])
             => TypedTo(funcs[order[k]], Len(funcs[order[k]].body))
        /\ \A k \in DOMAIN stack : TypedTo(funcs[stack[k].f], stack[k].s - 1)
    BY <2>3 DEF CheckInv
  <2>5. /\ CalleesKept /\ DOMAIN funcs' = DOMAIN funcs
        /\ DOMAIN (funcs')[top.f].body = DOMAIN fun.body
        /\ (funcs')[top.f].body[top.s] = st
        /\ \A i \in DOMAIN funcs : i # top.f => (funcs')[i] = funcs[i]
        /\ fun = funcs[top.f] /\ order' = order /\ top.f \in DOMAIN funcs
    BY WroteFacts
  <2>6. next' = next  BY DEF Wrote
  <2>7. ASSUME NEW k \in DOMAIN order', k < next', ~ IsGeneric((funcs')[(order')[k]])
        PROVE  TypedTo((funcs')[(order')[k]], Len((funcs')[(order')[k]].body))
    <3>1. order[k] \in DOMAIN funcs
      <4>1. order \in Seq(DOMAIN funcs)  BY DEF TypeInv, TablesInv
      <4> QED  BY <2>5, <2>7, <4>1
    <3>2. ~ IsGeneric(funcs[order[k]])
      BY <2>5, <2>7, <3>1, HeadsFacts DEF CalleesKept
    <3>3. TypedTo(funcs[order[k]], Len(funcs[order[k]].body))
      BY <2>4, <2>5, <2>6, <2>7, <3>2
    <3>4. TypedTo((funcs')[order[k]], Len(funcs[order[k]].body))
      BY <3>1, <3>3, WroteTyped
    <3>5. Len((funcs')[order[k]].body) = Len(funcs[order[k]].body)
      <4>1. CASE order[k] # top.f  BY <2>5, <3>1, <4>1
      <4>2. CASE order[k] = top.f
        <5>1. (funcs')[top.f].body = [fun.body EXCEPT ![top.s] = st] /\ fun.body \in Seq(Statement)
              /\ top.s \in DOMAIN fun.body
          BY WroteFacts
        <5> QED  BY <2>5, <4>2, <5>1
      <4> QED  BY <4>1, <4>2
    <3> QED  BY <2>5, <3>4, <3>5
  <2>8. ASSUME NEW k \in DOMAIN stack'
        PROVE  TypedTo((funcs')[(stack')[k].f], (stack')[k].s - 1)
    <3>1. k \in DOMAIN stack  BY <1>2, <2>8 DEF Moved
    <3>2. stack[k].f \in DOMAIN funcs  BY <3>1 DEF TypeInv, StackInv
    <3>3. TypedTo((funcs')[stack[k].f], stack[k].s - 1)  BY <2>4, <3>1, <3>2, WroteTyped
    <3>4. CASE k # Len(stack)  BY <1>2, <3>1, <3>3, <3>4 DEF Moved
    <3>5. CASE k = Len(stack)
      <4>1. (stack')[k].f = top.f /\ (stack')[k].s = s  BY <1>2, <3>5 DEF Moved
      <4>2. TypedTo((funcs')[top.f], top.s - 1)  BY <2>1, <3>3, <3>5
      <4>3. CASE s = top.s  BY <4>1, <4>2, <4>3
      <4>4. CASE s = top.s + 1 /\ (st.t = NoType /\ pass = "check" => errors' # {})
        <5>1. st.t # NoType  BY <2>3, <4>4
        <5>2. DOMAIN fun.body = 1 .. Len(fun.body) /\ Len(fun.body) \in Nat
          <6>1. fun.body \in Seq(Statement)  BY WroteFacts
          <6> QED  BY <6>1
        <5>3. ASSUME NEW r \in DOMAIN (funcs')[top.f].body, r <= s - 1
              PROVE  (funcs')[top.f].body[r].t # NoType
          <6>1. r \in Nat /\ (r = top.s \/ r <= top.s - 1)  BY <2>1, <2>5, <4>4, <5>2, <5>3
          <6> QED  BY <2>5, <4>2, <5>1, <5>3, <6>1 DEF TypedTo
        <5> QED  BY <4>1, <5>3 DEF TypedTo
      <4> QED  BY <1>2, <4>3, <4>4
    <3> QED  BY <3>4, <3>5
  <2> QED  BY <2>7, <2>8
<1> QED  BY <1>1, <1>2

(* A visit that ends goes to the next statement or crashes.                *)
LEMMA LeavesFacts ==
  ASSUME TypeInv, Visiting, Leaves \/ (pass' = pass /\ stack' = NextStatement)
  PROVE  \/ pass' = "crashed" /\ stack' = <<>>
         \/ pass' = pass /\ Moved(top.s + 1) /\ (stack')[Len(stack)].tried = 0
<1>1. CASE pass' = "crashed" /\ stack' = <<>>  BY <1>1
<1>2. CASE pass' = pass /\ stack' = NextStatement  BY <1>2, NextMoves
<1> QED  BY <1>1, <1>2 DEF Leaves

LEMMA BodyCalls ==
  TypeInv /\ CallsInv
  /\ (ReturnValue \/ CallExact \/ CallKept \/ CallOverload \/ NextOverload \/ CallFails) => CallsInv'
<1> SUFFICES ASSUME TypeInv, CallInv, WaitingInv, CheckInv,
                    ReturnValue \/ CallExact \/ CallKept \/ CallOverload \/ NextOverload \/ CallFails
             PROVE  CallsInv'
  BY DEF CallsInv
<1>1. CallInv'  BY WrittenCalls
<1>2. ASSUME NEW st, Wrote(st), errors \subseteq errors',
             Leaves \/ (pass' = pass /\ stack' = NextStatement),
             st.t = NoType /\ pass = "check" => errors' # {}
      PROVE  WaitingInv' /\ CheckInv'
  <2>1. Visiting  BY <1>2 DEF Wrote, InBody
  <2> DEFINE s == top.s + 1
  <2>2. \/ pass' = "crashed" /\ stack' = <<>>
        \/ pass' = pass /\ Moved(s)
    BY <1>2, <2>1, LeavesFacts
  <2>3. s \in Nat
    <3>1. top.s \in Nat  BY <2>1, StackFacts DEF TypeInv
    <3> QED  BY <3>1
  <2>4. s = top.s + 1  OBVIOUS
  <2> HIDE DEF s
  <2>5. WaitingInv'  BY <1>2, <2>2, WroteWaiting
  <2>6. CheckInv'  BY <1>2, <2>2, <2>3, <2>4, WroteChecked
  <2> QED  BY <2>5, <2>6
<1>3. NoType \notin Types  BY TypesAssumption
<1>4. CASE ReturnValue
  <2>1. PICK st : Wrote(st) /\ st.t \in Types /\ pass' = pass /\ stack' = NextStatement
                  /\ errors' = errors
    BY <1>4, ReturnValueFacts
  <2> QED  BY <1>1, <1>2, <1>3, <2>1 DEF CallsInv
<1>5. CASE CallExact
  <2>1. PICK st : Wrote(st) /\ st.t # NoType /\ Leaves /\ errors' = errors
    BY <1>5, CallExactFacts
  <2> QED  BY <1>1, <1>2, <2>1 DEF CallsInv
<1>6. CASE CallKept
  <2>1. PICK st : Wrote(st) /\ st.t # NoType /\ Leaves /\ errors' = errors
    BY <1>6, CallKeptFacts
  <2> QED  BY <1>1, <1>2, <2>1 DEF CallsInv
<1>7. CASE CallOverload
  <2>1. PICK st : Wrote(st) /\ st.t # NoType /\ Leaves /\ errors' = errors
    BY <1>7, CallOverloadFacts
  <2> QED  BY <1>1, <1>2, <2>1 DEF CallsInv
<1>8. CASE NextOverload
  <2>1. PICK st : Wrote(st) /\ pass' = pass /\ errors' = errors
                  /\ stack' = [stack EXCEPT ![Len(stack)].tried = @ + 1]
    BY <1>8, NextOverloadFacts
  <2>2. Visiting  BY <2>1 DEF Wrote, InBody
  <2>3. Moved(top.s)  BY <2>1, <2>2, TriedMoves
  <2>4. top.s \in Nat  BY <2>2, StackFacts DEF TypeInv
  <2>5. WaitingInv'  BY <2>1, <2>3, WroteWaiting
  <2>6. CheckInv'  BY <2>1, <2>3, <2>4, WroteChecked
  <2> QED  BY <1>1, <2>5, <2>6 DEF CallsInv
<1>9. CASE CallFails
  <2>1. PICK st : Wrote(st) /\ Leaves /\ Fail(TRUE)
    BY <1>9, CallFailsFacts
  <2>2. errors \subseteq errors'  BY <2>1 DEF Fail
  <2>3. pass = "check" => errors' # {}  BY <2>1 DEF Fail, Checking
  <2> QED  BY <1>1, <1>2, <2>1, <2>2, <2>3 DEF CallsInv
<1> QED  BY <1>4, <1>5, <1>6, <1>7, <1>8, <1>9

(* Steps that only move the walk, or end the compiler.                     *)
LEMMA SameCalls ==
  ASSUME CallInv, funcs' = funcs, order' = order
  PROVE  CallInv'
<1>1. Placed' = Placed  BY DEF Placed
<1>2. ASSUME NEW i \in DOMAIN funcs', NEW s \in DOMAIN (funcs')[i].body,
             (funcs')[i].body[s].fn # NoFunc, (funcs')[i].body[s].t # NoType
      PROVE  Agrees((funcs')[i].body[s], funcs', Placed') /\ ArgsTyped((funcs')[i].body[s], (funcs')[i])
  BY <1>1, <1>2 DEF CallInv
<1> QED  BY <1>2 DEF CallInv

LEMMA EndedCalls ==
  ASSUME CallInv, stack' = <<>>, pass' \in {"aborted", "overflow"}, UNCHANGED <<funcs, order>>
  PROVE  CallsInv'
<1>1. CallInv'  BY SameCalls
<1>2. WaitingInv' /\ CheckInv'  BY DEF WaitingInv, CheckInv
<1> QED  BY <1>1, <1>2 DEF CallsInv

LEMMA ChildCalls ==
  TypeInv /\ CallsInv /\ (RegisterFunc \/ RegisterGeneric \/ VisitFunc \/ SkipGeneric) => CallsInv'
<1> SUFFICES ASSUME TypeInv, CallInv, WaitingInv, CheckInv,
                    RegisterFunc \/ RegisterGeneric \/ VisitFunc \/ SkipGeneric
             PROVE  CallsInv'
  BY DEF CallsInv
<1>1. AtChild /\ UNCHANGED <<funcs, order, pass, errors>>
  BY DEF RegisterFunc, RegisterGeneric, VisitFunc, SkipGeneric, walk
<1>2. /\ pass \in Walks /\ stack = <<>> /\ next \in DOMAIN order
      /\ child = funcs[order[next]]
  BY <1>1, ChildFacts
<1>3. CallInv'  BY <1>1, SameCalls
<1>4. \/ pass = "register" /\ next' = next /\ Enter
      \/ pass = "register" /\ stack' = stack
      \/ next' = next /\ Enter
      \/ next' = next + 1 /\ stack' = stack /\ IsGeneric(child)
  BY DEF RegisterFunc, RegisterGeneric, VisitFunc, SkipGeneric, walk
<1>5. stack' = <<>> \/ (\E fr : fr.s = 1 /\ stack' = <<fr>>)
  BY <1>2, <1>4 DEF Enter, Frame
<1>6. WaitingInv'
  <2>1. ASSUME NEW k \in DOMAIN stack', k < Len(stack')  PROVE FALSE
    <3>1. PICK fr : stack' = <<fr>>  BY <1>5, <2>1
    <3>2. k = 1 /\ Len(stack') = 1  BY <2>1, <3>1
    <3> QED  BY <2>1, <3>2
  <2> QED  BY <2>1 DEF WaitingInv
<1>7. CheckInv'
  <2>1. pass # "accepted"  BY <1>2 DEF Walks
  <2> SUFFICES ASSUME pass = "check", errors = {}
               PROVE  /\ \A k \in DOMAIN order : k < next' /\ ~ IsGeneric(funcs[order[k]])
                           => TypedTo(funcs[order[k]], Len(funcs[order[k]].body))
                      /\ \A k \in DOMAIN stack' : TypedTo(funcs[(stack')[k].f], (stack')[k].s - 1)
    BY <1>1, <2>1 DEF CheckInv
  <2>2. \A k \in DOMAIN order : k < next /\ ~ IsGeneric(funcs[order[k]])
           => TypedTo(funcs[order[k]], Len(funcs[order[k]].body))
    BY DEF CheckInv
  <2>3. next' = next \/ (next' = next + 1 /\ IsGeneric(child))  BY <1>4
  <2>4. order \in Seq(DOMAIN funcs) /\ DOMAIN order = 1 .. Len(order) /\ next \in Nat
    BY <1>2 DEF TypeInv, TablesInv, WalkInv
  <2>5. ASSUME NEW k \in DOMAIN order, k < next', ~ IsGeneric(funcs[order[k]])
        PROVE  k < next
    <3>1. k # next \/ next' = next  BY <1>2, <2>3, <2>5
    <3>2. k \in Nat /\ (next' = next \/ next' = next + 1)  BY <2>3, <2>4
    <3> QED  BY <2>4, <2>5, <3>1, <3>2
  <2>6. ASSUME NEW k \in DOMAIN stack'
        PROVE  TypedTo(funcs[(stack')[k].f], (stack')[k].s - 1)
    <3>1. PICK fr : fr.s = 1 /\ stack' = <<fr>>  BY <1>5, <2>6
    <3>2. k = 1 /\ (stack')[k].s = 1  BY <2>6, <3>1
    <3>3. (stack')[k].f \in DOMAIN funcs
      <4>1. order[next] \in DOMAIN funcs  BY <1>2, <2>4
      <4>2. (stack')[k].f = order[next]  BY <1>2, <1>4, <2>6, <3>2 DEF Enter, Frame
      <4> QED  BY <4>1, <4>2
    <3>4. DOMAIN funcs[(stack')[k].f].body = 1 .. Len(funcs[(stack')[k].f].body)
      BY <3>3, FuncsFacts, FunctionFields DEF TypeInv
    <3> QED  BY <3>2, <3>4 DEF TypedTo
  <2> QED  BY <2>2, <2>5, <2>6
<1> QED  BY <1>3, <1>6, <1>7 DEF CallsInv

LEMMA EndWalkCalls == TypeInv /\ CallsInv /\ EndWalk => CallsInv'
<1> SUFFICES ASSUME TypeInv, CallInv, WaitingInv, CheckInv, EndWalk  PROVE CallsInv'
  BY DEF CallsInv
<1>1. /\ stack = <<>> /\ next > Len(order) /\ next' = 1
      /\ UNCHANGED <<funcs, order, stack, errors>>
      /\ \/ pass' \in {"register", "resolve"}
         \/ pass' = "check"
         \/ pass = "check" /\ pass' = (IF errors = {} THEN "accepted" ELSE "rejected")
  BY DEF EndWalk, AtEnd, Visiting
<1>2. CallInv'  BY <1>1, SameCalls
<1>3. WaitingInv'
  <2>1. DOMAIN stack' = {}  BY <1>1
  <2> QED  BY <2>1 DEF WaitingInv
<1>4. order \in Seq(DOMAIN funcs) /\ DOMAIN order = 1 .. Len(order) /\ Len(order) \in Nat /\ next \in Nat
  BY DEF TypeInv, TablesInv, WalkInv
<1>5. CheckInv'
  <2>1. DOMAIN stack' = {}  BY <1>1
  <2>2. CASE pass' \in {"register", "resolve"}  BY <2>2 DEF CheckInv
  <2>3. CASE pass' = "check"
    <3>1. \A k \in DOMAIN order' : ~ (k < next')  BY <1>1, <1>4
    <3> QED  BY <2>1, <2>3, <3>1 DEF CheckInv
  <2>4. CASE pass = "check" /\ pass' = (IF errors = {} THEN "accepted" ELSE "rejected")
    <3>1. CASE errors = {}
      <4>1. \A k \in DOMAIN order : k < next  BY <1>1, <1>4
      <4>2. \A k \in DOMAIN order : ~ IsGeneric(funcs[order[k]])
              => TypedTo(funcs[order[k]], Len(funcs[order[k]].body))
        BY <2>4, <3>1, <4>1 DEF CheckInv
      <4>3. pass' = "accepted" /\ errors' = {}  BY <1>1, <2>4, <3>1
      <4> QED  BY <1>1, <2>1, <4>2, <4>3 DEF CheckInv
    <3>2. CASE errors # {}
      <4>1. pass' = "rejected"  BY <2>4, <3>2
      <4> QED  BY <4>1 DEF CheckInv
    <3> QED  BY <3>1, <3>2
  <2> QED  BY <1>1, <2>2, <2>3, <2>4
<1> QED  BY <1>2, <1>3, <1>5 DEF CallsInv

LEMMA StutterCalls == TypeInv /\ CallsInv /\ UNCHANGED vars => CallsInv'
<1> SUFFICES ASSUME CallInv, WaitingInv, CheckInv, UNCHANGED vars  PROVE CallsInv'
  BY DEF CallsInv
<1>1. UNCHANGED <<order, funcs, stack, pass, next, errors>>  BY DEF vars, walk
<1>2. CallInv'  BY <1>1, SameCalls
<1>3. WaitingInv'  BY <1>1 DEF WaitingInv
<1>4. CheckInv'  BY <1>1 DEF CheckInv
<1> QED  BY <1>2, <1>3, <1>4 DEF CallsInv

(* A function that is left: its body stays.                                *)
LEMMA FinishFuncFacts ==
  ASSUME TypeInv, FinishFunc, NEW g, g = Resolved(fun, pass = "register")
  PROVE  /\ Visiting /\ top.f \in DOMAIN funcs /\ fun = funcs[top.f]
         /\ fun \in Function /\ GoodFunction(fun) /\ ~ IsGeneric(fun) /\ top.s > Len(fun.body)
         /\ Len(stack) = 1 /\ top = stack[1] /\ top.f = order[next] /\ next \in DOMAIN order
         /\ ResolveFuncType(fun, g)
         /\ g \in Function /\ GoodFunction(g) /\ g.body = fun.body
         /\ g.name = fun.name /\ g.params = fun.params /\ g.ret = fun.ret /\ g.pos = fun.pos
         /\ fun.typed => g.typed /\ g.result = fun.result
         /\ ~ fun.typed /\ g.typed => pass # "register" /\ g.result = ResultType(fun)
         /\ ~ fun.typed /\ ~ g.typed => pass = "register" \/ ResultType(fun) = NoType
         /\ FunctionsInv' /\ CalleesKept /\ DOMAIN funcs' = DOMAIN funcs
         /\ (funcs')[top.f] = g /\ \A i \in DOMAIN funcs : i # top.f => (funcs')[i] = funcs[i]
         /\ \A i \in DOMAIN funcs : (funcs')[i].body = funcs[i].body
         /\ stack' = <<>> /\ next' = next + 1
         /\ UNCHANGED <<order, bases, generics, pass, sub>>
<1>1. /\ BodyDone /\ ~ top.generated /\ ResolveFuncType(fun, g)
      /\ funcs' = [funcs EXCEPT ![top.f] = g]
      /\ stack' = <<>> /\ next' = next + 1
      /\ UNCHANGED <<order, bases, generics, pass, sub>>
  BY DEF FinishFunc
<1>2. /\ Visiting /\ top = stack[Len(stack)] /\ Len(stack) \in Nat \ {0}
      /\ top.f \in DOMAIN funcs /\ ~ IsGeneric(fun) /\ fun = funcs[top.f]
      /\ top.generated <=> Len(stack) > 1
      /\ next <= Len(order) /\ stack[1].f = order[next] /\ top.s > Len(fun.body)
  BY <1>1, StackFacts DEF BodyDone, TypeInv, fun
<1>3. fun \in Function /\ GoodFunction(fun)  BY <1>2, FuncsFacts DEF TypeInv
<1>4. /\ g \in Function /\ GoodFunction(g) /\ g.name = fun.name /\ g.params = fun.params
      /\ g.ret = fun.ret /\ g.pos = fun.pos /\ g.body = fun.body
      /\ fun.typed => g.typed /\ g.result = fun.result
      /\ ~ fun.typed /\ g.typed => pass # "register" /\ g.result = ResultType(fun)
      /\ ~ fun.typed /\ ~ g.typed => pass = "register" \/ ResultType(fun) = NoType
  <2> DEFINE r == pass = "register"
  <2>1. g = Resolved(fun, r) /\ r \in BOOLEAN  OBVIOUS
  <2> HIDE DEF r
  <2>2. /\ g \in Function /\ GoodFunction(g) /\ g.name = fun.name /\ g.params = fun.params
        /\ g.ret = fun.ret /\ g.pos = fun.pos /\ g.body = fun.body
        /\ fun.typed => g.typed /\ g.result = fun.result
        /\ ~ fun.typed /\ g.typed => ~ r /\ g.result = ResultType(fun)
        /\ ~ fun.typed /\ ~ g.typed => r \/ ResultType(fun) = NoType
    BY <1>2, <1>3, <2>1, ResolvedFacts
  <2> QED  BY <2>2 DEF r
<1>5. /\ FunctionsInv' /\ HeadsKept /\ DOMAIN funcs' = DOMAIN funcs /\ (funcs')[top.f] = g
      /\ \A j \in DOMAIN funcs : j # top.f => (funcs')[j] = funcs[j]
  BY <1>1, <1>2, <1>4, Replaced DEF TypeInv
<1>6. next \in DOMAIN order
  BY <1>2 DEF TypeInv, WalkInv, TablesInv
<1>7. Len(stack) = 1
  <2>1. ~ (Len(stack) > 1)  BY <1>1, <1>2, Zenon
  <2> DEFINE n == Len(stack)
  <2>2. n \in Nat \ {0} /\ ~ (n > 1)  BY <1>2, <2>1
  <2> HIDE DEF n
  <2>3. n = 1  BY <2>2
  <2> QED  BY <2>3 DEF n
<1>8. Placed' = Placed  BY <1>1 DEF Placed
<1>9. CalleesKept
  <2>1. \A i \in DOMAIN funcs : funcs[i].typed => (funcs')[i].result = funcs[i].result
    BY <1>2, <1>4, <1>5
  <2> QED  BY <1>5, <1>8, <2>1 DEF CalleesKept
<1>10. \A i \in DOMAIN funcs : (funcs')[i].body = funcs[i].body  BY <1>2, <1>4, <1>5
<1> QED  BY <1>1, <1>2, <1>3, <1>4, <1>5, <1>6, <1>7, <1>9, <1>10

LEMMA FinishFuncCalls == TypeInv /\ CallsInv /\ FinishFunc => CallsInv'
<1> SUFFICES ASSUME TypeInv, CallInv, WaitingInv, CheckInv, FinishFunc  PROVE CallsInv'
  BY DEF CallsInv
<1> DEFINE g == Resolved(fun, pass = "register")
<1>1. g = Resolved(fun, pass = "register")  OBVIOUS
<1> HIDE DEF g
<1>2. /\ Visiting /\ top.f \in DOMAIN funcs /\ fun = funcs[top.f] /\ top.s > Len(fun.body)
      /\ Len(stack) = 1 /\ top = stack[1] /\ top.f = order[next] /\ next \in DOMAIN order
      /\ ResolveFuncType(fun, g)
      /\ CalleesKept /\ DOMAIN funcs' = DOMAIN funcs
      /\ \A i \in DOMAIN funcs : (funcs')[i].body = funcs[i].body
      /\ stack' = <<>> /\ next' = next + 1
      /\ UNCHANGED <<order, pass>>
  BY <1>1, FinishFuncFacts
<1>3. CallInv'
  <2>1. \A i \in DOMAIN funcs' : \A s \in DOMAIN (funcs')[i].body :
          /\ i \in DOMAIN funcs /\ s \in DOMAIN funcs[i].body
          /\ (funcs')[i].body[s] = funcs[i].body[s]
    BY <1>2
  <2> QED  BY <1>2, <2>1, CallsKept
<1>4. DOMAIN stack' = {}  BY <1>2
<1>5. WaitingInv'  BY <1>4 DEF WaitingInv
<1>6. CheckInv'
  <2>1. pass \in Walks /\ top.s \in Nat /\ 1 \in DOMAIN stack
    BY <1>2, StackFacts DEF TypeInv
  <2>2. pass # "accepted"  BY <2>1 DEF Walks
  <2>3. errors \subseteq errors'  BY <1>2, FailFacts DEF ResolveFuncType
  <2> SUFFICES ASSUME pass = "check", errors = {},
                      NEW k \in DOMAIN order, k < next + 1, ~ IsGeneric((funcs')[order[k]])
               PROVE  TypedTo((funcs')[order[k]], Len((funcs')[order[k]].body))
    BY <1>2, <1>4, <2>2, <2>3 DEF CheckInv
  <2>4. order \in Seq(DOMAIN funcs) /\ next \in Nat  BY DEF TypeInv, TablesInv, WalkInv
  <2>5. order[k] \in DOMAIN funcs /\ k \in Nat  BY <2>4
  <2>6. (funcs')[order[k]].body = funcs[order[k]].body  BY <1>2, <2>5
  <2>7. ~ IsGeneric(funcs[order[k]])  BY <1>2, <2>5, HeadsFacts DEF CalleesKept
  <2>8. TypedTo(funcs[order[k]], Len(funcs[order[k]].body))
    <3>1. CASE k < next  BY <2>7, <3>1 DEF CheckInv
    <3>2. CASE k = next
      <4>1. TypedTo(fun, top.s - 1)  BY <1>2, <2>1 DEF CheckInv
      <4>2. DOMAIN fun.body = 1 .. Len(fun.body) /\ Len(fun.body) \in Nat
        BY <1>2, FuncsFacts, FunctionFields DEF TypeInv
      <4>3. \A s \in DOMAIN fun.body : s <= top.s - 1  BY <1>2, <2>1, <4>2
      <4>4. TypedTo(fun, Len(fun.body))  BY <4>1, <4>3 DEF TypedTo
      <4> QED  BY <1>2, <3>2, <4>4
    <3> QED  BY <2>4, <2>5, <3>1, <3>2
  <2> QED  BY <2>6, <2>8 DEF TypedTo
<1> QED  BY <1>3, <1>5, <1>6 DEF CallsInv

LEMMA CallGenericCalls == TypeInv /\ CallsInv /\ CallGeneric => CallsInv'
<1> SUFFICES ASSUME TypeInv, CallInv, WaitingInv, CheckInv, CallGeneric  PROVE CallsInv'
  BY DEF CallsInv
<1>1. PICK g \in GenericFor, st \in Statement, copy \in Function :
        /\ InBody /\ Len(stack) < MaxNesting
        /\ GoodStatement(st, fun) /\ st.fn = stmt.fn /\ st.t = NoType /\ st.fn # NoFunc
        /\ GoodFunction(copy) /\ ~ IsGeneric(copy)
        /\ copy.name = stmt.fn /\ copy.params = TypesOf(st.args)
        /\ \A s \in DOMAIN copy.body : copy.body[s].t = NoType
        /\ KeepsArgs(callArgs, st.args)
        /\ funcs' = Append(SetStatement(st), copy)
        /\ stack' = Append(stack, Frame(Len(funcs) + 1, TRUE))
        /\ UNCHANGED <<order, tables, walk, unresolved, errors>>
  BY CallGenericFacts, ZenonT(60)
<1>2. AllTried /\ Searching  BY DEF CallGeneric, AllTried
<1>3. g \in DOMAIN funcs /\ IsGeneric(funcs[g]) /\ funcs[g].name = stmt.fn
  BY <1>2, GenericFacts
<1>4. stmt.t = NoType  BY <1>2, UntypedCall DEF TypeInv
<1>5. /\ FunctionsInv' /\ HeadsKept
      /\ Len(funcs) \in Nat /\ DOMAIN funcs = 1 .. Len(funcs)
      /\ DOMAIN funcs' = 1 .. Len(funcs) + 1
      /\ (funcs')[Len(funcs) + 1] = copy
      /\ \A i \in DOMAIN funcs : i # top.f => (funcs')[i] = funcs[i]
      /\ (funcs')[top.f].body = [fun.body EXCEPT ![top.s] = st]
      /\ \A i \in DOMAIN funcs : SameHead(funcs[i], (funcs')[i])
  BY <1>1, CopyAdded DEF TypeInv
<1>6. /\ Visiting /\ fun = funcs[top.f] /\ fun \in Function
      /\ top.s \in DOMAIN fun.body /\ stmt = fun.body[top.s]
  BY <1>1, BodyFacts DEF TypeInv
<1>7. /\ Len(stack) \in Nat /\ DOMAIN stack = 1 .. Len(stack) /\ Len(stack) \in DOMAIN stack
      /\ top = stack[Len(stack)] /\ top.f \in DOMAIN funcs /\ pass \in Walks
      /\ stack \in Seq(Frames)
  BY <1>6, StackFacts DEF TypeInv, StackInv
<1>8. /\ DOMAIN (funcs')[top.f].body = DOMAIN fun.body
      /\ (funcs')[top.f].body[top.s] = st
      /\ \A s \in DOMAIN fun.body : s # top.s => (funcs')[top.f].body[s] = fun.body[s]
      /\ Len((funcs')[top.f].body) = Len(fun.body)
  <2> DEFINE b == (funcs')[top.f].body
  <2>1. b = [fun.body EXCEPT ![top.s] = st] /\ fun.body \in Seq(Statement)
    BY <1>5, <1>6, FunctionFields
  <2> HIDE DEF b
  <2>2. /\ DOMAIN b = DOMAIN fun.body /\ b[top.s] = st /\ Len(b) = Len(fun.body)
        /\ \A s \in DOMAIN fun.body : s # top.s => b[s] = fun.body[s]
    BY <1>1, <1>6, <2>1
  <2> QED  BY <2>2 DEF b
<1>9. order' = order /\ Placed' = Placed /\ next' = next /\ pass' = pass /\ errors' = errors
  BY <1>1 DEF Placed, walk
<1>10. CalleesKept
  BY <1>5, <1>9 DEF CalleesKept, SameHead
<1>11. CallInv'
  <2> SUFFICES ASSUME NEW i \in DOMAIN funcs', NEW s \in DOMAIN (funcs')[i].body
               PROVE  \/ (funcs')[i].body[s].t = NoType
                      \/ /\ i \in DOMAIN funcs /\ s \in DOMAIN funcs[i].body
                         /\ (funcs')[i].body[s] = funcs[i].body[s]
    BY <1>10, CallsKept
  <2>1. CASE i = Len(funcs) + 1  BY <1>1, <1>5, <2>1
  <2>2. CASE i = top.f  BY <1>1, <1>6, <1>7, <1>8, <2>2
  <2>3. CASE i # top.f /\ i # Len(funcs) + 1  BY <1>5, <2>3
  <2> QED  BY <2>1, <2>2, <2>3
<1> DEFINE fr == Frame(Len(funcs) + 1, TRUE)
<1>12. /\ Len(stack') = Len(stack) + 1 /\ DOMAIN stack' = 1 .. Len(stack) + 1
       /\ (stack')[Len(stack) + 1] = fr /\ fr.f = Len(funcs) + 1 /\ fr.s = 1
       /\ \A k \in DOMAIN stack : (stack')[k] = stack[k]
  <2>1. fr.f = Len(funcs) + 1 /\ fr.s = 1  BY DEF Frame
  <2>2. stack' = Append(stack, fr)  BY <1>1
  <2> HIDE DEF fr
  <2>3. /\ Len(stack') = Len(stack) + 1 /\ DOMAIN stack' = 1 .. Len(stack) + 1
        /\ (stack')[Len(stack) + 1] = fr
        /\ \A k \in DOMAIN stack : (stack')[k] = stack[k]
    BY <1>7, <2>2
  <2> QED  BY <2>1, <2>3
<1> HIDE DEF fr
<1>13. WaitingInv'
  <2> SUFFICES ASSUME NEW k \in DOMAIN stack', k < Len(stack')
               PROVE  /\ WaitsFor((funcs')[(stack')[k].f].body[(stack')[k].s], (funcs')[(stack')[k + 1].f], funcs')
                      /\ ArgsTyped((funcs')[(stack')[k].f].body[(stack')[k].s], (funcs')[(stack')[k].f])
    BY DEF WaitingInv
  <2>1. k \in DOMAIN stack /\ (stack')[k] = stack[k]  BY <1>7, <1>12
  <2>2. CASE k = Len(stack)
    <3>1. (stack')[k] = top /\ (stack')[k + 1].f = Len(funcs) + 1  BY <1>7, <1>12, <2>1, <2>2
    <3>2. (funcs')[g].name = st.fn /\ IsGeneric((funcs')[g]) /\ g \in DOMAIN funcs'
      <4>1. IsGeneric((funcs')[g]) /\ g \in DOMAIN funcs'  BY <1>3, <1>5, HeadsFacts
      <4>2. (funcs')[g].name = st.fn  BY <1>1, <1>3, <1>5 DEF HeadsKept
      <4> QED  BY <4>1, <4>2
    <3>3. WaitsFor(st, copy, funcs')  BY <1>1, <3>2 DEF WaitsFor
    <3>4. ArgsTyped(st, fun)  BY <1>1, KeptArgsStayTyped
    <3>5. (funcs')[top.f].params = fun.params  BY <1>5, <1>6, <1>7 DEF SameHead
    <3>6. ArgsTyped(st, (funcs')[top.f])  BY <3>4, <3>5 DEF ArgsTyped
    <3> QED  BY <1>5, <1>8, <3>1, <3>3, <3>6
  <2>3. CASE k # Len(stack)
    <3>1. k < Len(stack) /\ k + 1 \in DOMAIN stack  BY <1>7, <2>1, <2>3
    <3>2. stack[k].f # top.f /\ stack[k].f \in DOMAIN funcs
      BY <1>7, <2>1, <2>3 DEF TypeInv, StackInv
    <3>3. (funcs')[stack[k].f] = funcs[stack[k].f]  BY <1>5, <3>2
    <3>4. /\ WaitsFor((funcs')[stack[k].f].body[stack[k].s], (funcs')[stack[k + 1].f], funcs')
          /\ ArgsTyped((funcs')[stack[k].f].body[stack[k].s], (funcs')[stack[k].f])
      BY <1>5, <2>1, <3>1, <3>3, WaitingKept
    <3>5. (stack')[k + 1] = stack[k + 1]  BY <1>12, <3>1
    <3> QED  BY <2>1, <3>4, <3>5
  <2> QED  BY <2>2, <2>3
<1>14. ASSUME NEW i \in DOMAIN funcs, NEW n, TypedTo(funcs[i], n)
       PROVE  TypedTo((funcs')[i], n) /\ Len((funcs')[i].body) = Len(funcs[i].body)
  <2>1. CASE i # top.f  BY <1>5, <1>14, <2>1
  <2>2. CASE i = top.f
    <3>1. \A s \in DOMAIN fun.body : s <= n => fun.body[s].t # NoType
      BY <1>6, <1>14, <2>2 DEF TypedTo
    <3>2. ASSUME NEW s \in DOMAIN (funcs')[top.f].body, s <= n
          PROVE  (funcs')[top.f].body[s].t # NoType
      BY <1>4, <1>6, <1>8, <3>1, <3>2
    <3> QED  BY <1>6, <1>8, <2>2, <3>2 DEF TypedTo
  <2> QED  BY <2>1, <2>2
<1>15. CheckInv'
  <2>1. pass # "accepted"  BY <1>7 DEF Walks
  <2> SUFFICES ASSUME pass = "check", errors = {}
               PROVE  /\ \A k \in DOMAIN order : k < next /\ ~ IsGeneric((funcs')[order[k]])
                           => TypedTo((funcs')[order[k]], Len((funcs')[order[k]].body))
                      /\ \A k \in DOMAIN stack' : TypedTo((funcs')[(stack')[k].f], (stack')[k].s - 1)
    BY <1>9, <2>1 DEF CheckInv
  <2>2. ASSUME NEW k \in DOMAIN order, k < next, ~ IsGeneric((funcs')[order[k]])
        PROVE  TypedTo((funcs')[order[k]], Len((funcs')[order[k]].body))
    <3>1. order[k] \in DOMAIN funcs
      <4>1. order \in Seq(DOMAIN funcs)  BY DEF TypeInv, TablesInv
      <4> QED  BY <2>2, <4>1
    <3>2. ~ IsGeneric(funcs[order[k]])  BY <1>5, <2>2, <3>1, HeadsFacts
    <3>3. TypedTo(funcs[order[k]], Len(funcs[order[k]].body))  BY <2>2, <3>2 DEF CheckInv
    <3>4. /\ TypedTo((funcs')[order[k]], Len(funcs[order[k]].body))
          /\ Len((funcs')[order[k]].body) = Len(funcs[order[k]].body)
      BY <1>14, <3>1, <3>3
    <3> QED  BY <3>4
  <2>3. ASSUME NEW k \in DOMAIN stack'
        PROVE  TypedTo((funcs')[(stack')[k].f], (stack')[k].s - 1)
    <3>1. CASE k \in DOMAIN stack
      <4>1. stack[k].f \in DOMAIN funcs  BY <3>1 DEF TypeInv, StackInv
      <4>2. TypedTo(funcs[stack[k].f], stack[k].s - 1)  BY <3>1 DEF CheckInv
      <4> QED  BY <1>12, <1>14, <3>1, <4>1, <4>2
    <3>2. CASE k = Len(stack) + 1
      <4>1. (funcs')[(stack')[k].f] = copy /\ (stack')[k].s = 1  BY <1>5, <1>12, <3>2
      <4>2. DOMAIN copy.body = 1 .. Len(copy.body)  BY FunctionFields
      <4> QED  BY <4>1, <4>2 DEF TypedTo
    <3> QED  BY <1>7, <1>12, <2>3, <3>1, <3>2
  <2> QED  BY <2>2, <2>3
<1> QED  BY <1>11, <1>13, <1>15 DEF CallsInv

(* Without an error, a function whose returns all have types has a result. *)
LEMMA GoodResult ==
  ASSUME NEW f \in Function, ~ BadResult(f), TypedTo(f, Len(f.body))
  PROVE  ResultType(f) # NoType
<1>1. CASE f.ret # NoType  BY <1>1 DEF ResultType
<1>2. CASE f.ret = NoType
  <2>1. GoTogether(f)  BY <1>2 DEF BadResult
  <2>2. CASE Returns(f) = {}
    <3>1. Deduction(f) = "void"  BY <2>2 DEF Deduction
    <3> QED  BY <1>2, <3>1, TypesAssumption DEF ResultType
  <2>3. CASE Returns(f) # {}
    <3>1. PICK s \in Returns(f) : TRUE  BY <2>3
    <3>2. Returns(f) \subseteq DOMAIN f.body  BY DEF Returns
    <3>3. s \in DOMAIN f.body /\ s <= Len(f.body)  BY <3>2, FunctionFields
    <3>4. s \in Known(f)  BY <3>1, <3>3 DEF TypedTo, Known
    <3>5. Deduction(f) # NoType  BY <2>1, <3>4, DeductionFacts
    <3> QED  BY <1>2, <3>5 DEF ResultType
  <2> QED  BY <2>2, <2>3
<1> QED  BY <1>1, <1>2

(* A copy that is done: what becomes of it, of its caller and of the walk. *)
LEMMA FinishInstanceFacts ==
  ASSUME TypeInv, FinishInstance, NEW g, g = Resolved(fun, FALSE)
  PROVE  /\ g.body = fun.body /\ g.name = fun.name /\ g.params = fun.params /\ g.ret = fun.ret
         /\ g.pos = fun.pos /\ GoodFunction(g)
         /\ fun.typed => g.typed /\ g.result = fun.result
         /\ ~ fun.typed /\ g.typed => g.result = ResultType(fun)
         /\ ~ fun.typed /\ ~ g.typed => ResultType(fun) = NoType
         /\ CalleesKept /\ top.f \in Placed'
         /\ \A i \in DOMAIN funcs : i # Caller.f => (funcs')[i].body = funcs[i].body
         /\ DOMAIN (funcs')[Caller.f].body = DOMAIN funcs[Caller.f].body
         /\ Len((funcs')[Caller.f].body) = Len(funcs[Caller.f].body)
         /\ (funcs')[Caller.f].body[Caller.s] = WithCallee(Waiting, top.f, g.result)
         /\ \A s \in DOMAIN funcs[Caller.f].body :
              s # Caller.s => (funcs')[Caller.f].body[s] = funcs[Caller.f].body[s]
         /\ Len(order') = Len(order) + 1 /\ (order')[Len(order) + 1] = top.f
         /\ DOMAIN order' = 1 .. Len(order) + 1 /\ DOMAIN order = 1 .. Len(order) /\ Len(order) \in Nat
         /\ \A k \in DOMAIN order : (order')[k] = order[k]
         /\ errors \subseteq errors' /\ top.s > Len(fun.body)
         /\ UNCHANGED <<bases, generics, sub, next>>
         /\ \/ pass' = "crashed" /\ stack' = <<>>
            \/ /\ pass' = pass
               /\ stack' = [Front(stack) EXCEPT ![Len(stack) - 1].s = @ + 1, ![Len(stack) - 1].tried = 0]
<1>1. /\ Visiting /\ top.generated /\ top.f \in DOMAIN funcs
      /\ fun = funcs[top.f] /\ fun \in Function /\ GoodFunction(fun) /\ ~ IsGeneric(fun)
      /\ ResolveFuncType(fun, g)
      /\ FunctionsInv' /\ HeadsKept /\ DOMAIN funcs' = DOMAIN funcs
      /\ g \in Function /\ (funcs')[top.f] = g
      /\ SameHead(funcs[Caller.f], (funcs')[Caller.f])
      /\ WithCallee(Waiting, top.f, g.result) \in Statement
      /\ (funcs')[Caller.f].body
           = [funcs[Caller.f].body EXCEPT ![Caller.s] = WithCallee(Waiting, top.f, g.result)]
      /\ \A j \in DOMAIN funcs : j # top.f /\ j # Caller.f => (funcs')[j] = funcs[j]
  BY FinishedFuncs
<1>2. /\ g.body = fun.body /\ g.name = fun.name /\ g.params = fun.params /\ g.ret = fun.ret
      /\ g.pos = fun.pos /\ GoodFunction(g)
      /\ fun.typed => g.typed /\ g.result = fun.result
      /\ ~ fun.typed /\ g.typed => g.result = ResultType(fun)
      /\ ~ fun.typed /\ ~ g.typed => ResultType(fun) = NoType
  <2> DEFINE r == FALSE
  <2>1. g = Resolved(fun, r) /\ r \in BOOLEAN /\ ~ r  OBVIOUS
  <2> HIDE DEF r
  <2>2. fun \in Function /\ GoodFunction(fun) /\ ~ IsGeneric(fun)  BY <1>1, Zenon
  <2> QED  BY <2>1, <2>2, ResolvedFacts
<1>3. order' = Append(order, top.f) /\ UNCHANGED <<bases, generics, sub, next>>
      /\ top.s > Len(fun.body)
      /\ \/ pass' = "crashed" /\ stack' = <<>>
         \/ /\ pass' = pass
            /\ stack' = [Front(stack) EXCEPT ![Len(stack) - 1].s = @ + 1, ![Len(stack) - 1].tried = 0]
  BY DEF FinishInstance, BodyDone
<1>4. order \in Seq(DOMAIN funcs)  BY DEF TypeInv, TablesInv
<1>5. /\ Len(order') = Len(order) + 1 /\ (order')[Len(order) + 1] = top.f
      /\ DOMAIN order' = 1 .. Len(order) + 1 /\ DOMAIN order = 1 .. Len(order) /\ Len(order) \in Nat
      /\ \A k \in DOMAIN order : (order')[k] = order[k]
  BY <1>1, <1>3, <1>4, SeqAppend
<1>6. Placed \subseteq Placed' /\ top.f \in Placed'
  <2>1. ASSUME NEW k \in DOMAIN order  PROVE order[k] \in Placed'
    <3>1. k \in DOMAIN order' /\ (order')[k] = order[k]  BY <1>5
    <3> QED  BY <3>1 DEF Placed
  <2>2. Len(order) + 1 \in DOMAIN order'  BY <1>5
  <2> QED  BY <1>5, <2>1, <2>2 DEF Placed
<1>7. /\ Caller.f \in DOMAIN funcs /\ Caller.f # top.f
      /\ Caller.s \in DOMAIN funcs[Caller.f].body /\ funcs[Caller.f] \in Function
  BY <1>1, CallerFacts DEF TypeInv
<1>8. CalleesKept
  <2>1. ASSUME NEW i \in DOMAIN funcs, funcs[i].typed  PROVE (funcs')[i].result = funcs[i].result
    <3>1. CASE i = top.f  BY <1>1, <1>2, <2>1, <3>1
    <3>2. CASE i = Caller.f  BY <1>1, <3>2 DEF SameHead
    <3>3. CASE i # top.f /\ i # Caller.f  BY <1>1, <3>3
    <3> QED  BY <3>1, <3>2, <3>3
  <2> QED  BY <1>1, <1>6, <2>1 DEF CalleesKept
<1>9. \A i \in DOMAIN funcs : i # Caller.f => (funcs')[i].body = funcs[i].body
  BY <1>1, <1>2
<1> DEFINE st == WithCallee(Waiting, top.f, g.result)
           b == funcs[Caller.f].body
           c == (funcs')[Caller.f].body
<1>10. /\ DOMAIN c = DOMAIN b /\ Len(c) = Len(b) /\ c[Caller.s] = st
       /\ \A s \in DOMAIN b : s # Caller.s => c[s] = b[s]
  <2>1. b \in Seq(Statement) /\ Caller.s \in DOMAIN b  BY <1>7, FunctionFields
  <2>2. c = [b EXCEPT ![Caller.s] = st] /\ st \in Statement  BY <1>1
  <2> HIDE DEF b, c, st
  <2> QED  BY <2>1, <2>2
<1>11. errors \subseteq errors'
  <2>1. Fail(BadResult(fun) \/ (g.typed /\ ~ fun.typed /\ Redeclared(fun)))
    BY <1>1 DEF ResolveFuncType
  <2> QED  BY <1>1, <2>1, FailFacts
<1> QED  BY <1>2, <1>3, <1>5, <1>6, <1>8, <1>9, <1>10, <1>11

LEMMA FinishInstanceCalls == TypeInv /\ CallsInv /\ FinishInstance => CallsInv'
<1> SUFFICES ASSUME TypeInv, CallInv, WaitingInv, CheckInv, FinishInstance  PROVE CallsInv'
  BY DEF CallsInv
<1> DEFINE g == Resolved(fun, FALSE)
           st == WithCallee(Waiting, top.f, g.result)
           m == Len(stack) - 1
<1>0. g = Resolved(fun, FALSE)  OBVIOUS
<1> HIDE DEF g
<1>1. /\ Visiting /\ top.generated /\ top.f \in DOMAIN funcs
      /\ fun = funcs[top.f] /\ fun \in Function /\ GoodFunction(fun) /\ ~ IsGeneric(fun)
      /\ ResolveFuncType(fun, g)
      /\ HeadsKept /\ DOMAIN funcs' = DOMAIN funcs
      /\ g \in Function /\ (funcs')[top.f] = g
      /\ SameHead(funcs[Caller.f], (funcs')[Caller.f])
  BY <1>0, FinishedFuncs
<1>2. /\ g.body = fun.body /\ g.name = fun.name /\ g.params = fun.params /\ GoodFunction(g)
      /\ fun.typed => g.typed
      /\ ~ fun.typed /\ ~ g.typed => ResultType(fun) = NoType
      /\ CalleesKept /\ top.f \in Placed'
      /\ \A i \in DOMAIN funcs : i # Caller.f => (funcs')[i].body = funcs[i].body
      /\ DOMAIN (funcs')[Caller.f].body = DOMAIN funcs[Caller.f].body
      /\ Len((funcs')[Caller.f].body) = Len(funcs[Caller.f].body)
      /\ (funcs')[Caller.f].body[Caller.s] = st
      /\ \A s \in DOMAIN funcs[Caller.f].body :
           s # Caller.s => (funcs')[Caller.f].body[s] = funcs[Caller.f].body[s]
      /\ DOMAIN order' = 1 .. Len(order) + 1 /\ DOMAIN order = 1 .. Len(order) /\ Len(order) \in Nat
      /\ \A k \in DOMAIN order : (order')[k] = order[k]
      /\ errors \subseteq errors' /\ top.s > Len(fun.body) /\ next' = next
      /\ \/ pass' = "crashed" /\ stack' = <<>>
         \/ /\ pass' = pass
            /\ stack' = [Front(stack) EXCEPT ![Len(stack) - 1].s = @ + 1, ![Len(stack) - 1].tried = 0]
  BY <1>0, FinishInstanceFacts
<1>3. /\ Len(stack) \in Nat /\ Len(stack) > 1 /\ m \in DOMAIN stack
      /\ Caller.f \in DOMAIN funcs /\ Caller.f # top.f /\ Caller = stack[m]
      /\ Caller.s \in Nat \ {0}
      /\ Caller.s \in DOMAIN funcs[Caller.f].body /\ funcs[Caller.f] \in Function
      /\ Waiting = funcs[Caller.f].body[Caller.s]
      /\ Waiting \in Statement /\ Waiting.fn # NoFunc /\ Waiting.t = NoType
      /\ \A k \in DOMAIN stack : k < m => stack[k].f # top.f /\ stack[k].f # Caller.f
  BY <1>1, CallerFacts DEF TypeInv, Caller, Waiting
<1>4. /\ pass \in Walks /\ next <= Len(order) /\ top = stack[Len(stack)] /\ top.s \in Nat
      /\ DOMAIN stack = 1 .. Len(stack) /\ Len(stack) \in DOMAIN stack
  BY <1>1, StackFacts DEF TypeInv
<1>5. m \in Nat /\ m + 1 = Len(stack) /\ m < Len(stack)  BY <1>3
<1> HIDE DEF m
<1>6. /\ st.args = Waiting.args /\ st.callee = top.f /\ st.t = g.result /\ st.fn = Waiting.fn
  <2>1. top.f \in Nat  BY <1>1, StackFacts DEF TypeInv
  <2>2. g.result \in Types \cup {NoType}  BY <1>1, FunctionFields
  <2>3. Waiting \in Statement  BY <1>3
  <2> QED  BY <2>1, <2>2, <2>3, StatementWithCallee
<1> HIDE DEF st
<1>7. g.typed <=> g.result # NoType  BY <1>2 DEF GoodFunction
<1>8. CallInv'
  <2>1. ASSUME g.result # NoType
        PROVE  Agrees(st, funcs', Placed') /\ ArgsTyped(st, (funcs')[Caller.f])
    <3>1. WaitsFor(Waiting, fun, funcs) /\ ArgsTyped(Waiting, funcs[Caller.f])
      <4>1. m \in DOMAIN stack /\ m < Len(stack) /\ stack[m + 1] = top  BY <1>3, <1>4, <1>5
      <4> QED  BY <1>1, <1>3, <4>1 DEF WaitingInv
    <3>2. g.name = st.fn /\ g.params = TypesOf(st.args)  BY <1>2, <1>6, <3>1 DEF WaitsFor
    <3>3. \A v \in DOMAIN g.params : g.params[v] \in Types
      <4>1. ~ IsGeneric(g)  BY <1>1, <1>2 DEF IsGeneric
      <4> QED  BY <1>1, <4>1, ParamsTyped
    <3>4. /\ DOMAIN g.params = DOMAIN st.args
          /\ \A k \in DOMAIN st.args : g.params[k] = st.args[k].t
      BY <3>2 DEF TypesOf
    <3>5. \A k \in DOMAIN st.args : Passes(st.args[k].t, g.params[k])
      BY <3>3, <3>4, SameTypePasses
    <3>6. Len(st.args) = Len(g.params)
      <4>1. g.params \in Seq(Types \cup {Untyped}) /\ st.args \in Seq(Arg)
        BY <1>1, <1>3, <1>6, FunctionFields, StatementFields
      <4>2. DOMAIN g.params = 1 .. Len(g.params) /\ DOMAIN st.args = 1 .. Len(st.args)
            /\ Len(g.params) \in Nat /\ Len(st.args) \in Nat
        BY <4>1
      <4> DEFINE p == Len(g.params)
                 q == Len(st.args)
      <4>3. 1 .. p = 1 .. q /\ p \in Nat /\ q \in Nat  BY <3>4, <4>2
      <4> HIDE DEF p, q
      <4>4. p = q  BY <4>3
      <4> QED  BY <4>4 DEF p, q
    <3>7. g.typed  BY <1>7, <2>1
    <3>8. Agrees(st, funcs', Placed')  BY <1>1, <1>2, <1>6, <3>2, <3>5, <3>6, <3>7 DEF Agrees
    <3>9. ArgsTyped(st, (funcs')[Caller.f])
      <4>1. (funcs')[Caller.f].params = funcs[Caller.f].params  BY <1>1 DEF SameHead
      <4> QED  BY <1>6, <3>1, <4>1 DEF ArgsTyped
    <3> QED  BY <3>8, <3>9
  <2> SUFFICES ASSUME NEW i \in DOMAIN funcs', NEW s \in DOMAIN (funcs')[i].body
               PROVE  \/ (funcs')[i].body[s].t = NoType
                      \/ Agrees((funcs')[i].body[s], funcs', Placed') /\ ArgsTyped((funcs')[i].body[s], (funcs')[i])
                      \/ /\ i \in DOMAIN funcs /\ s \in DOMAIN funcs[i].body
                         /\ (funcs')[i].body[s] = funcs[i].body[s]
    BY <1>2, CallsKept
  <2>2. CASE i # Caller.f  BY <1>1, <1>2, <2>2
  <2>3. CASE i = Caller.f /\ s # Caller.s  BY <1>1, <1>2, <2>3
  <2>4. CASE i = Caller.f /\ s = Caller.s  BY <1>2, <1>6, <2>1, <2>4
  <2> QED  BY <2>2, <2>3, <2>4
<1>9. CASE stack' = <<>> /\ pass' = "crashed"
  <2>1. DOMAIN stack' = {}  BY <1>9
  <2> QED  BY <1>8, <1>9, <2>1 DEF CallsInv, WaitingInv, CheckInv
<1>10. CASE /\ pass' = pass
            /\ stack' = [Front(stack) EXCEPT ![Len(stack) - 1].s = @ + 1, ![Len(stack) - 1].tried = 0]
  <2>1. /\ Len(stack') = m /\ DOMAIN stack' = 1 .. m
        /\ (stack')[m].f = Caller.f /\ (stack')[m].s = Caller.s + 1
        /\ \A k \in 1 .. m : k # m => (stack')[k] = stack[k]
    BY <1>1, <1>10, FinishedStack DEF TypeInv, m
  <2>2. WaitingInv'
    <3> SUFFICES ASSUME NEW k \in DOMAIN stack', k < Len(stack')
                 PROVE  /\ WaitsFor((funcs')[(stack')[k].f].body[(stack')[k].s], (funcs')[(stack')[k + 1].f], funcs')
                        /\ ArgsTyped((funcs')[(stack')[k].f].body[(stack')[k].s], (funcs')[(stack')[k].f])
      BY DEF WaitingInv
    <3>1. k \in 1 .. m /\ k < m /\ k \in DOMAIN stack /\ k < Len(stack) /\ k + 1 \in 1 .. m
      BY <1>4, <1>5, <2>1
    <3>2. (stack')[k] = stack[k] /\ (stack')[k + 1].f = stack[k + 1].f  BY <1>3, <2>1, <3>1
    <3>3. stack[k].f # Caller.f /\ stack[k].f \in DOMAIN funcs
      BY <1>3, <3>1 DEF TypeInv, StackInv
    <3>4. (funcs')[stack[k].f].body = funcs[stack[k].f].body  BY <1>2, <3>3
    <3>5. (funcs')[stack[k].f].params = funcs[stack[k].f].params  BY <1>1, <3>3 DEF HeadsKept
    <3>6. /\ WaitsFor((funcs')[stack[k].f].body[stack[k].s], (funcs')[stack[k + 1].f], funcs')
          /\ ArgsTyped((funcs')[stack[k].f].body[stack[k].s], (funcs')[stack[k].f])
      BY <1>1, <3>1, <3>4, <3>5, WaitingKept
    <3> QED  BY <3>2, <3>6
  <2>3. ASSUME NEW i \in DOMAIN funcs, NEW n, TypedTo(funcs[i], n)
        PROVE  TypedTo((funcs')[i], n) /\ Len((funcs')[i].body) = Len(funcs[i].body)
    <3>1. CASE i # Caller.f  BY <1>2, <2>3, <3>1 DEF TypedTo
    <3>2. CASE i = Caller.f
      <4>1. ~ (Caller.s <= n)  BY <1>3, <2>3, <3>2 DEF TypedTo
      <4>2. ASSUME NEW s \in DOMAIN (funcs')[i].body, s <= n
            PROVE  (funcs')[i].body[s].t # NoType
        BY <1>2, <2>3, <3>2, <4>1, <4>2 DEF TypedTo
      <4> QED  BY <1>2, <3>2, <4>2 DEF TypedTo
    <3> QED  BY <3>1, <3>2
  <2>4. CheckInv'
    <3>1. pass # "accepted"  BY <1>4 DEF Walks
    <3> SUFFICES ASSUME pass = "check", errors' = {}
                 PROVE  /\ \A k \in DOMAIN order' : k < next /\ ~ IsGeneric((funcs')[(order')[k]])
                             => TypedTo((funcs')[(order')[k]], Len((funcs')[(order')[k]].body))
                        /\ \A k \in DOMAIN stack' : TypedTo((funcs')[(stack')[k].f], (stack')[k].s - 1)
      BY <1>2, <1>10, <3>1 DEF CheckInv
    <3>2. errors = {}  BY <1>2
    <3>3. ASSUME NEW k \in DOMAIN order', k < next, ~ IsGeneric((funcs')[(order')[k]])
          PROVE  TypedTo((funcs')[(order')[k]], Len((funcs')[(order')[k]].body))
      <4>1. k \in DOMAIN order /\ (order')[k] = order[k]
        <5>1. next \in Nat  BY DEF TypeInv, WalkInv
        <5>2. k \in DOMAIN order  BY <1>2, <1>4, <3>3, <5>1
        <5> QED  BY <1>2, <5>2
      <4>2. order[k] \in DOMAIN funcs
        <5>1. order \in Seq(DOMAIN funcs)  BY DEF TypeInv, TablesInv
        <5> QED  BY <4>1, <5>1
      <4>3. ~ IsGeneric(funcs[order[k]])  BY <1>1, <3>3, <4>1, <4>2, HeadsFacts
      <4>4. TypedTo(funcs[order[k]], Len(funcs[order[k]].body))
        BY <3>2, <3>3, <4>1, <4>3 DEF CheckInv
      <4>5. /\ TypedTo((funcs')[order[k]], Len(funcs[order[k]].body))
            /\ Len((funcs')[order[k]].body) = Len(funcs[order[k]].body)
        BY <2>3, <4>2, <4>4
      <4> QED  BY <4>1, <4>5
    <3>4. ASSUME NEW k \in DOMAIN stack'
          PROVE  TypedTo((funcs')[(stack')[k].f], (stack')[k].s - 1)
      <4>1. k \in 1 .. m /\ k \in DOMAIN stack  BY <1>4, <1>5, <2>1
      <4>2. stack[k].f \in DOMAIN funcs  BY <4>1 DEF TypeInv, StackInv
      <4>3. TypedTo(funcs[stack[k].f], stack[k].s - 1)  BY <3>2, <4>1 DEF CheckInv
      <4>4. TypedTo((funcs')[stack[k].f], stack[k].s - 1)  BY <2>3, <4>2, <4>3
      <4>5. CASE k # m  BY <2>1, <4>1, <4>4, <4>5
      <4>6. CASE k = m
        <5>1. TypedTo((funcs')[Caller.f], Caller.s - 1)  BY <1>3, <4>4, <4>6
        <5>2. st.t # NoType
          <6>1. ~ BadResult(fun)
            <7>1. Fail(BadResult(fun) \/ (g.typed /\ ~ fun.typed /\ Redeclared(fun)))
              BY <1>1 DEF ResolveFuncType
            <7> QED  BY <7>1 DEF Fail, Checking
          <6>2. TypedTo(fun, top.s - 1)  BY <1>1, <1>4, <3>2 DEF CheckInv
          <6>3. \A s \in DOMAIN fun.body : s <= Len(fun.body) /\ s <= top.s - 1
            BY <1>1, <1>2, <1>4, FunctionFields
          <6>4. TypedTo(fun, Len(fun.body))  BY <6>2, <6>3 DEF TypedTo
          <6>5. ResultType(fun) # NoType  BY <1>1, <6>1, <6>4, GoodResult
          <6>6. g.typed  BY <1>2, <6>5
          <6> QED  BY <1>6, <1>7, <6>6
        <5>3. DOMAIN funcs[Caller.f].body = 1 .. Len(funcs[Caller.f].body)
              /\ Len(funcs[Caller.f].body) \in Nat
          BY <1>3, FunctionFields
        <5> DEFINE b == (funcs')[Caller.f].body
                   n == Caller.s + 1
                   j == (stack')[k].f
                   h == (stack')[k].s
        <5>9. n - 1 = Caller.s /\ Caller.s \in Nat  BY <1>3
        <5>4. ASSUME NEW r \in DOMAIN b, r <= Caller.s
              PROVE  b[r].t # NoType
          <6>1. r \in Nat /\ (r = Caller.s \/ r <= Caller.s - 1)  BY <1>2, <1>3, <5>3, <5>4
          <6> QED  BY <1>2, <5>1, <5>2, <5>4, <6>1 DEF TypedTo
        <5> HIDE DEF b
        <5>5. \A r \in DOMAIN b : r <= n - 1 => b[r].t # NoType
          <6> HIDE DEF n
          <6> QED  BY <5>4, <5>9
        <5> USE DEF b
        <5>6. j = Caller.f /\ h = n  BY <2>1, <4>6
        <5> HIDE DEF n, h, j
        <5>7. (funcs')[j].body = b  BY <5>6
        <5> HIDE DEF b
        <5>8. TypedTo((funcs')[j], h - 1)  BY <5>5, <5>6, <5>7 DEF TypedTo
        <5> QED  BY <5>8 DEF h, j
      <4> QED  BY <4>5, <4>6
    <3> QED  BY <3>3, <3>4
  <2> QED  BY <1>8, <2>2, <2>4 DEF CallsInv
<1> QED  BY <1>2, <1>9, <1>10

LEMMA InitCalls == Init => CallsInv
<1> SUFFICES ASSUME Init  PROVE CallsInv  OBVIOUS
<1>1. \A i \in DOMAIN funcs : Parsed(funcs[i])  BY FuncDeclsAssumption DEF Init
<1>2. CallInv  BY <1>1 DEF CallInv, Parsed
<1>3. stack = <<>> /\ pass = "register"  BY DEF Init
<1>4. DOMAIN stack = {}  BY <1>3
<1>5. WaitingInv  BY <1>4 DEF WaitingInv
<1>6. CheckInv  BY <1>3 DEF CheckInv
<1> QED  BY <1>2, <1>5, <1>6 DEF CallsInv

LEMMA NextCalls == TypeInv /\ CallsInv /\ [Next]_vars => CallsInv'
<1> SUFFICES ASSUME TypeInv, CallsInv, [Next]_vars  PROVE CallsInv'  OBVIOUS
<1>1. CASE RegisterFunc \/ RegisterGeneric \/ VisitFunc \/ SkipGeneric  BY <1>1, ChildCalls
<1>2. CASE ReturnValue \/ CallExact \/ CallKept \/ CallOverload \/ NextOverload \/ CallFails
  BY <1>2, BodyCalls
<1>3. CASE CallGeneric  BY <1>3, CallGenericCalls
<1>4. CASE GenericMismatch \/ GenericOverflow
  <2>1. stack' = <<>> /\ pass' \in {"aborted", "overflow"} /\ UNCHANGED <<funcs, order>>
    BY <1>4 DEF GenericMismatch, GenericOverflow
  <2> QED  BY <2>1, EndedCalls DEF CallsInv
<1>5. CASE FinishFunc  BY <1>5, FinishFuncCalls
<1>6. CASE FinishInstance  BY <1>6, FinishInstanceCalls
<1>7. CASE EndWalk  BY <1>7, EndWalkCalls
<1>8. CASE UNCHANGED vars  BY <1>8, StutterCalls
<1> QED  BY <1>1, <1>2, <1>3, <1>4, <1>5, <1>6, <1>7, <1>8 DEF Next

LEMMA CallsInvariant == Spec => [](TypeInv /\ CallsInv)
<1>1. Init => TypeInv /\ CallsInv  BY InitTypes, InitCalls
<1>2. TypeInv /\ CallsInv /\ [Next]_vars => (TypeInv /\ CallsInv)'  BY NextTypes, NextCalls
<1> QED  BY <1>1, <1>2, PTL DEF Spec

(* Every call of an accepted program has a function to call, with a type,  *)
(* that takes the arguments as they are passed, and has its result: the    *)
(* casts an overload's match or a copy's types put around the arguments    *)
(* survive whatever is declared, generated and deduced afterwards.         *)
THEOREM CalleesTakeTheirArguments == Spec => []CallsAgree
<1>1. TypeInv /\ CallsInv => CallsAgree
  <2> SUFFICES ASSUME TypeInv, CallInv, CheckInv, Accepted, NEW c \in Calls
               PROVE  /\ At(c).callee \in Declared
                      /\ LET g == funcs[At(c).callee] IN
                         /\ g.typed /\ At(c).t = g.result
                         /\ Len(At(c).args) = Len(g.params)
                         /\ \A i \in DOMAIN At(c).args : Passes(At(c).args[i].t, g.params[i])
    BY DEF CallsInv, CallsAgree
  <2>0. PICK i \in Declared : c \in {<<i, s>> : s \in {k \in DOMAIN funcs[i].body : funcs[i].body[k].fn # NoFunc}}
    BY DEF Calls
  <2>1. PICK s \in DOMAIN funcs[i].body : c = <<i, s>> /\ funcs[i].body[s].fn # NoFunc
    BY <2>0
  <2>2. At(c) = funcs[i].body[s]  BY <2>1 DEF At
  <2>3. i \in DOMAIN funcs /\ i \in ToSet(order) /\ ~ IsGeneric(funcs[i])  BY DEF Declared
  <2>4. PICK k \in DOMAIN order : order[k] = i  BY <2>3 DEF ToSet
  <2>5. TypedTo(funcs[i], Len(funcs[i].body))
    <3>1. pass = "accepted" /\ errors = {}  BY DEF CheckInv, Accepted
    <3> QED  BY <2>3, <2>4, <3>1 DEF CheckInv
  <2>6. s <= Len(funcs[i].body)
    BY <2>3, FuncsFacts, FunctionFields DEF TypeInv
  <2>7. funcs[i].body[s].t # NoType  BY <2>5, <2>6 DEF TypedTo
  <2> DEFINE st == funcs[i].body[s]
  <2>8. Agrees(st, funcs, Placed)  BY <2>1, <2>3, <2>7 DEF CallInv
  <2>9. At(c) = st  BY <2>2
  <2> HIDE DEF st
  <2>10. st.callee \in Declared
    <3>1. funcs[st.callee].typed /\ st.callee \in DOMAIN funcs /\ st.callee \in Placed
      BY <2>8 DEF Agrees
    <3>2. ~ IsGeneric(funcs[st.callee])  BY <3>1, FuncsFacts DEF TypeInv, GoodFunction, Parsed
    <3>3. st.callee \in ToSet(order)  BY <3>1 DEF Placed, ToSet
    <3> QED  BY <3>1, <3>2, <3>3 DEF Declared
  <2> QED  BY <2>8, <2>9, <2>10 DEF Agrees
<1> QED  BY <1>1, CallsInvariant, PTL

-----------------------------------------------------------------------------
(* A call keeps the overload it has.  Where the overloads of a name are    *)
(* known all at once, all of them are declared before the first call to    *)
(* one gets its type, so that no declaration after it is mangled as the    *)
(* call is; and an overload matches only a call that none is mangled like. *)
(* An attempt that fails does not change that, if the arguments have been  *)
(* left alone.                                                             *)
WrittenTypes(st, f) == [k \in DOMAIN st.args |-> f.params[st.args[k].v]]

Met(i) ==
  /\ i \in DOMAIN order /\ order[i] = i /\ \A k \in DOMAIN order : order[k] = i => k = i
  /\ pass = "register" => ~ funcs[i].typed
  /\ pass = "resolve" /\ sub = 0 => (funcs[i].typed <=> i < next)
  /\ (pass = "resolve" /\ sub > 0) \/ pass = "check" => funcs[i].typed

KnownInv == \A n \in Names : Together(n) => \A i \in Named(n) : Met(i)

PinnedCall(st, syms) ==
  Untouched(st) /\ <<st.fn, TypesOf(st.args)>> \in DOMAIN syms
  => syms[<<st.fn, TypesOf(st.args)>>] = st.callee

PinInv ==
  \A n \in Names : Together(n) =>
    \A i \in DOMAIN funcs : \A s \in DOMAIN funcs[i].body :
      LET st == funcs[i].body[s] IN
      st.fn = n /\ st.t # NoType => PinnedCall(st, symbols) /\ \A j \in Named(n) : funcs[j].typed

TriedInv ==
  Visiting /\ top.tried > 0 /\ Untouched(stmt) => <<stmt.fn, WrittenTypes(stmt, fun)>> \notin DOMAIN symbols

PinsInv == KnownInv /\ PinInv /\ TriedInv

(* What every step keeps: what a body calls and with what, and that new    *)
(* functions are copies.                                                   *)
StaysAs(st, now) == now.fn = st.fn /\ now.ret = st.ret /\ ArgsStay(st.args, now.args)

BodiesKept ==
  \A i \in DOMAIN funcs :
    /\ (funcs')[i].ret = funcs[i].ret
    /\ DOMAIN (funcs')[i].body = DOMAIN funcs[i].body
    /\ \A s \in DOMAIN funcs[i].body : StaysAs(funcs[i].body[s], (funcs')[i].body[s])

GenericNamed(n) == \E h \in DOMAIN funcs : IsGeneric(funcs[h]) /\ funcs[h].name = n

Grown == \A i \in DOMAIN funcs' : i \in DOMAIN funcs \/ GenericNamed((funcs')[i].name)

WritingKept == HeadsKept /\ BodiesKept /\ Grown

LEMMA SameStays == \A st : StaysAs(st, st)
BY DEF StaysAs, ArgsStay

LEMMA NothingWritten ==
  ASSUME TypeInv, funcs' = funcs
  PROVE  WritingKept
<1>1. HeadsKept  BY HeadsSame DEF TypeInv
<1> QED  BY <1>1, SameStays DEF WritingKept, BodiesKept, Grown

LEMMA WroteWriting ==
  ASSUME TypeInv, NEW st, Wrote(st)
  PROVE  WritingKept
<1>1. /\ CalleesKept /\ DOMAIN funcs' = DOMAIN funcs
      /\ \A i \in DOMAIN funcs : i # top.f => (funcs')[i] = funcs[i]
      /\ \A i \in DOMAIN funcs : SameHead(funcs[i], (funcs')[i])
      /\ DOMAIN (funcs')[top.f].body = DOMAIN fun.body
      /\ (funcs')[top.f].body[top.s] = st
      /\ \A s \in DOMAIN fun.body : s # top.s => (funcs')[top.f].body[s] = fun.body[s]
      /\ fun = funcs[top.f] /\ stmt = fun.body[top.s]
  BY WroteFacts
<1>2. StaysAs(stmt, st)  BY DEF Wrote, StaysAs
<1>3. ASSUME NEW i \in DOMAIN funcs
      PROVE  /\ (funcs')[i].ret = funcs[i].ret
             /\ DOMAIN (funcs')[i].body = DOMAIN funcs[i].body
             /\ \A s \in DOMAIN funcs[i].body : StaysAs(funcs[i].body[s], (funcs')[i].body[s])
  <2>1. CASE i # top.f  BY <1>1, <2>1, SameStays
  <2>2. CASE i = top.f
    <3>1. ASSUME NEW s \in DOMAIN fun.body  PROVE StaysAs(fun.body[s], (funcs')[top.f].body[s])
      <4>1. CASE s = top.s  BY <1>1, <1>2, <4>1
      <4>2. CASE s # top.s  BY <1>1, <4>2, SameStays
      <4> QED  BY <4>1, <4>2
    <3> QED  BY <1>1, <2>2, <3>1 DEF SameHead
  <2> QED  BY <2>1, <2>2
<1>4. Grown  BY <1>1 DEF Grown
<1> QED  BY <1>1, <1>3, <1>4 DEF WritingKept, BodiesKept, CalleesKept

LEMMA TogetherBefore ==
  ASSUME WritingKept, NEW n \in Names, Together(n)'
  PROVE  Together(n) /\ Named(n)' = Named(n) /\ ~ GenericNamed(n)
<1>1. /\ DOMAIN funcs \subseteq DOMAIN funcs'
      /\ \A i \in DOMAIN funcs : IsGeneric((funcs')[i]) <=> IsGeneric(funcs[i])
      /\ \A i \in DOMAIN funcs : (funcs')[i].name = funcs[i].name
  BY HeadsFacts DEF WritingKept, HeadsKept
<1>2. \A i \in DOMAIN funcs' : (funcs')[i].name = n =>
        /\ ~ IsGeneric((funcs')[i]) /\ (funcs')[i].ret # NoType
        /\ \A s \in DOMAIN (funcs')[i].body : (funcs')[i].body[s].fn = NoFunc
        /\ \A j \in DOMAIN funcs' : (funcs')[j].name = n =>
             \A k \in i .. j : k \in DOMAIN funcs' /\ (funcs')[k].name = n
  BY DEF Together, Named
<1>3. ~ GenericNamed(n)  BY <1>1, <1>2 DEF GenericNamed
<1>4. \A i \in DOMAIN funcs' : (funcs')[i].name = n => i \in DOMAIN funcs
  BY <1>3 DEF WritingKept, Grown
<1>5. Named(n)' = Named(n)  BY <1>1, <1>4 DEF Named
<1>6. ASSUME NEW i \in Named(n)
      PROVE  /\ ~ IsGeneric(funcs[i]) /\ funcs[i].ret # NoType
             /\ \A s \in DOMAIN funcs[i].body : funcs[i].body[s].fn = NoFunc
             /\ \A j \in Named(n) : \A k \in i .. j : k \in Named(n)
  <2>1. i \in DOMAIN funcs /\ i \in DOMAIN funcs' /\ (funcs')[i].name = n  BY <1>1 DEF Named
  <2>2. ~ IsGeneric(funcs[i]) /\ funcs[i].ret # NoType
    BY <1>1, <1>2, <2>1 DEF WritingKept, BodiesKept
  <2>3. \A s \in DOMAIN funcs[i].body : funcs[i].body[s].fn = NoFunc
    BY <1>2, <2>1 DEF WritingKept, BodiesKept, StaysAs
  <2>4. ASSUME NEW j \in Named(n), NEW k \in i .. j  PROVE k \in Named(n)
    <3>1. j \in DOMAIN funcs' /\ (funcs')[j].name = n  BY <1>1 DEF Named
    <3>2. k \in DOMAIN funcs' /\ (funcs')[k].name = n  BY <1>2, <2>1, <3>1
    <3>3. k \in DOMAIN funcs  BY <1>4, <3>2
    <3> QED  BY <1>1, <3>2, <3>3 DEF Named
  <2> QED  BY <2>2, <2>3, <2>4
<1>7. Together(n)  BY <1>6 DEF Together
<1> QED  BY <1>3, <1>5, <1>7

LEMMA KnownKept ==
  ASSUME TypeInv, KnownInv, WritingKept,
         \A k \in DOMAIN order : k \in DOMAIN order' /\ (order')[k] = order[k],
         \A k \in DOMAIN order' : k \in DOMAIN order \/ GenericNamed(funcs[(order')[k]].name),
         \A i \in DOMAIN funcs : (funcs')[i].typed => funcs[i].typed \/ GenericNamed(funcs[i].name),
         \/ pass' \notin Walks
         \/ UNCHANGED <<pass, sub, next>>
         \/ UNCHANGED <<pass, sub>> /\ next' = next + 1 /\ IsGeneric(funcs[order[next]])
  PROVE  KnownInv'
<1> SUFFICES ASSUME NEW n \in Names, Together(n)', NEW i \in Named(n)'
             PROVE  Met(i)'
  BY DEF KnownInv
<1>1. Together(n) /\ Named(n)' = Named(n) /\ ~ GenericNamed(n)  BY TogetherBefore
<1>2. i \in Named(n) /\ i \in DOMAIN funcs /\ funcs[i].name = n  BY <1>1 DEF Named
<1>3. Met(i)  BY <1>1, <1>2 DEF KnownInv
<1>4. /\ i \in DOMAIN order' /\ (order')[i] = i
      /\ \A k \in DOMAIN order' : (order')[k] = i => k = i
  BY <1>1, <1>2, <1>3 DEF Met
<1>5. (funcs')[i].typed <=> funcs[i].typed
  <2>1. (funcs')[i].typed => funcs[i].typed  BY <1>1, <1>2
  <2>2. funcs[i].typed => (funcs')[i].typed  BY <1>2 DEF WritingKept, HeadsKept
  <2> QED  BY <2>1, <2>2
<1>6. CASE pass' \notin Walks  BY <1>4, <1>6 DEF Met, Walks
<1>7. CASE UNCHANGED <<pass, sub, next>>  BY <1>3, <1>4, <1>5, <1>7 DEF Met
<1>8. CASE UNCHANGED <<pass, sub>> /\ next' = next + 1 /\ IsGeneric(funcs[order[next]])
  <2>1. i # next
    <3>1. ~ IsGeneric(funcs[i])  BY <1>1, <1>2 DEF Together
    <3>2. order[i] = i  BY <1>3 DEF Met
    <3> QED  BY <1>8, <3>1, <3>2
  <2>2. i \in Nat /\ next \in Nat
    <3>1. DOMAIN funcs = 1 .. Len(funcs)  BY <1>2, FuncsFacts DEF TypeInv
    <3> QED  BY <1>2, <3>1 DEF TypeInv, WalkInv
  <2>3. i < next' <=> i < next  BY <1>8, <2>1, <2>2
  <2> QED  BY <1>3, <1>4, <1>5, <1>8, <2>3 DEF Met
<1> QED  BY <1>6, <1>7, <1>8

(* No function of that name enters the symbols.                            *)
SymbolsStay(n) ==
  \A types : <<n, types>> \in DOMAIN symbols' =>
    <<n, types>> \in DOMAIN symbols /\ (symbols')[<<n, types>>] = symbols[<<n, types>>]

AllTyped(n) == \A j \in Named(n) : funcs[j].typed

LEMMA PinKept ==
  ASSUME PinInv, WritingKept,
         \A n \in Names : Together(n) => SymbolsStay(n) \/ ~ AllTyped(n),
         \A i \in DOMAIN funcs' : \A s \in DOMAIN (funcs')[i].body :
           \/ (funcs')[i].body[s].fn = NoFunc
           \/ (funcs')[i].body[s].t = NoType
           \/ GenericNamed((funcs')[i].body[s].fn)
           \/ /\ i \in DOMAIN funcs /\ s \in DOMAIN funcs[i].body
              /\ (funcs')[i].body[s] = funcs[i].body[s]
           \/ /\ PinnedCall((funcs')[i].body[s], symbols)
              /\ Together((funcs')[i].body[s].fn) => AllTyped((funcs')[i].body[s].fn)
  PROVE  PinInv'
<1> SUFFICES ASSUME NEW n \in Names, Together(n)', NEW i \in DOMAIN funcs',
                    NEW s \in DOMAIN (funcs')[i].body,
                    (funcs')[i].body[s].fn = n, (funcs')[i].body[s].t # NoType
             PROVE  /\ PinnedCall((funcs')[i].body[s], symbols')
                    /\ \A j \in Named(n)' : (funcs')[j].typed
  BY DEF PinInv
<1> DEFINE now == (funcs')[i].body[s]
<1>1. Together(n) /\ Named(n)' = Named(n) /\ ~ GenericNamed(n)  BY TogetherBefore
<1>2. PinnedCall(now, symbols) /\ AllTyped(n)
  <2>1. n # NoFunc  BY FuncDeclsAssumption
  <2>2. CASE /\ i \in DOMAIN funcs /\ s \in DOMAIN funcs[i].body
             /\ now = funcs[i].body[s]
    <3>1. funcs[i].body[s].fn = n /\ funcs[i].body[s].t # NoType  BY <2>2
    <3>2. PinnedCall(funcs[i].body[s], symbols) /\ \A j \in Named(n) : funcs[j].typed
      BY <1>1, <2>2, <3>1 DEF PinInv
    <3> QED  BY <2>2, <3>2 DEF AllTyped
  <2>3. CASE PinnedCall(now, symbols) /\ (Together(now.fn) => AllTyped(now.fn))
    BY <1>1, <2>3
  <2> QED  BY <1>1, <2>1, <2>2, <2>3
<1>3. SymbolsStay(n)  BY <1>1, <1>2
<1>4. now.fn = n  OBVIOUS
<1>5. \A j \in Named(n)' : (funcs')[j].typed
  BY <1>1, <1>2 DEF AllTyped, Named, WritingKept, HeadsKept
<1> HIDE DEF now
<1>6. PinnedCall(now, symbols')  BY <1>2, <1>3, <1>4 DEF PinnedCall, SymbolsStay
<1> QED  BY <1>5, <1>6 DEF now

(* Who calls an overload whose name has a function with a type, calls it   *)
(* from behind them all.                                                   *)
LEMMA CalledFromBehind ==
  ASSUME TypeInv, KnownInv, InBody, stmt.fn # NoFunc, Together(stmt.fn),
         NEW j \in Named(stmt.fn), funcs[j].typed
  PROVE  AllTyped(stmt.fn)
<1> DEFINE n == stmt.fn
<1>1. n \in Names
  BY BodyFacts, StatementFields DEF TypeInv
<1>2. Visiting /\ pass \in Walks /\ next <= Len(order) /\ stack[1].f = order[next]
      /\ Len(stack) \in Nat \ {0} /\ DOMAIN stack = 1 .. Len(stack) /\ top = stack[Len(stack)]
  BY StackFacts DEF TypeInv, InBody
<1>3. \A k \in Named(n) : Met(k)  BY <1>1 DEF KnownInv
<1>4. sub \in 0 .. PassLimit /\ next \in Nat /\ PassLimit \in Nat
  BY FuncDeclsAssumption DEF TypeInv, WalkInv
<1> SUFFICES ASSUME NEW k \in Named(n), ~ funcs[k].typed  PROVE FALSE
  BY DEF AllTyped
<1>5. pass = "resolve" /\ sub = 0 /\ j < next /\ ~ (k < next)
  <2>1. Met(j) /\ Met(k)  BY <1>3
  <2>2. pass # "register"  BY <2>1 DEF Met
  <2>3. ~ ((pass = "resolve" /\ sub > 0) \/ pass = "check")  BY <2>1 DEF Met
  <2>4. pass = "resolve" /\ ~ (sub > 0)  BY <1>2, <2>2, <2>3 DEF Walks
  <2>5. sub = 0  BY <1>4, <2>4
  <2> QED  BY <2>1, <2>4, <2>5 DEF Met
<1>6. next \in Named(n)
  <2>1. j \in Nat /\ k \in Nat
    <3>1. j \in DOMAIN funcs /\ k \in DOMAIN funcs  BY DEF Named
    <3> QED  BY <3>1, FuncsFacts DEF TypeInv
  <2>2. next \in j .. k  BY <1>4, <1>5, <2>1
  <2> QED  BY <2>2 DEF Together
<1>7. stack[1].f = next
  BY <1>2, <1>3, <1>6 DEF Met
<1>8. \A s \in DOMAIN funcs[next].body : funcs[next].body[s].fn = NoFunc
  BY <1>6 DEF Together
<1>9. CASE Len(stack) = 1
  <2>1. top.f = next  BY <1>2, <1>7, <1>9
  <2>2. fun = funcs[top.f] /\ top.s \in DOMAIN fun.body /\ stmt = fun.body[top.s]
    BY BodyFacts DEF TypeInv
  <2> QED  BY <1>8, <2>1, <2>2
<1>10. CASE Len(stack) # 1
  <2>1. 1 \in DOMAIN stack /\ 1 < Len(stack)  BY <1>2, <1>10
  <2>2. /\ stack[1].s <= Len(funcs[stack[1].f].body) /\ stack[1].f \in DOMAIN funcs
        /\ funcs[stack[1].f].body[stack[1].s].fn # NoFunc
    BY <2>1 DEF TypeInv, StackInv
  <2>3. stack[1].s \in Nat \ {0}
    <3>1. stack \in Seq(Frames)  BY DEF TypeInv, StackInv
    <3>2. stack[1] \in Frames  BY <2>1, <3>1
    <3> QED  BY <3>2 DEF Frames
  <2>4. stack[1].s \in DOMAIN funcs[stack[1].f].body
    BY <2>2, <2>3, FuncsFacts, FunctionFields DEF TypeInv
  <2> QED  BY <1>7, <1>8, <2>2, <2>4
<1> QED  BY <1>9, <1>10

(* While the arguments are left alone, a call is mangled as it is written. *)
LEMMA WrittenArgs ==
  ASSUME TypeInv, InBody, NEW st \in Statement, ArgsStay(stmt.args, st.args), Untouched(st)
  PROVE  /\ Untouched(stmt) /\ WrittenTypes(st, fun) = WrittenTypes(stmt, fun)
         /\ TypesOf(callArgs) = WrittenTypes(stmt, fun)
         /\ ArgsTyped(st, fun) => TypesOf(st.args) = WrittenTypes(stmt, fun)
<1>1. stmt \in Statement  BY BodyFacts DEF TypeInv
<1>2. DOMAIN st.args = DOMAIN stmt.args
  BY <1>1, StatementFields DEF ArgsStay
<1>3. \A k \in DOMAIN stmt.args :
        /\ ~ stmt.args[k].lit /\ ~ stmt.args[k].cast
        /\ ~ st.args[k].lit /\ ~ st.args[k].cast /\ st.args[k].v = stmt.args[k].v
  BY <1>2 DEF ArgsStay, Untouched
<1>4. Untouched(stmt)  BY <1>3 DEF Untouched
<1>5. WrittenTypes(st, fun) = WrittenTypes(stmt, fun)  BY <1>2, <1>3 DEF WrittenTypes
<1>6. TypesOf(callArgs) = WrittenTypes(stmt, fun)
  <2>1. /\ Len(callArgs) = Len(stmt.args) /\ callArgs \in Seq(Arg)
        /\ \A k \in DOMAIN stmt.args :
             ~ stmt.args[k].lit /\ ~ stmt.args[k].cast => callArgs[k].t = fun.params[stmt.args[k].v]
    BY TypedsFacts DEF TypeInv, TypedArgs
  <2>2. DOMAIN callArgs = DOMAIN stmt.args  BY <1>1, <2>1, StatementFields
  <2>3. TypesOf(callArgs) = [k \in DOMAIN stmt.args |-> callArgs[k].t]  BY <2>2 DEF TypesOf
  <2>4. WrittenTypes(stmt, fun) = [k \in DOMAIN stmt.args |-> fun.params[stmt.args[k].v]]
    BY DEF WrittenTypes
  <2>5. \A k \in DOMAIN stmt.args : callArgs[k].t = fun.params[stmt.args[k].v]  BY <1>3, <2>1
  <2> QED  BY <2>3, <2>4, <2>5
<1>7. ASSUME ArgsTyped(st, fun)  PROVE TypesOf(st.args) = WrittenTypes(stmt, fun)
  <2>1. \A k \in DOMAIN st.args : st.args[k].t = fun.params[st.args[k].v]
    BY <1>2, <1>3, <1>7 DEF ArgsTyped
  <2>2. TypesOf(st.args) = WrittenTypes(st, fun)  BY <2>1 DEF TypesOf, WrittenTypes
  <2> QED  BY <1>5, <2>2
<1> QED  BY <1>4, <1>5, <1>6, <1>7

(* What is written in a body keeps the calls apart from declarations.      *)
LEMMA WrotePins ==
  ASSUME TypeInv, KnownInv, PinInv, NEW st, Wrote(st), pass' = pass \/ pass' = "crashed",
         \/ st.fn = NoFunc
         \/ st.t = NoType
         \/ PinnedCall(st, symbols) /\ (Together(st.fn) => AllTyped(st.fn))
  PROVE  KnownInv' /\ PinInv'
<1>1. /\ CalleesKept /\ DOMAIN funcs' = DOMAIN funcs
      /\ \A i \in DOMAIN funcs : i # top.f => (funcs')[i] = funcs[i]
      /\ \A i \in DOMAIN funcs : SameHead(funcs[i], (funcs')[i])
      /\ DOMAIN (funcs')[top.f].body = DOMAIN fun.body
      /\ (funcs')[top.f].body[top.s] = st
      /\ \A s \in DOMAIN fun.body : s # top.s => (funcs')[top.f].body[s] = fun.body[s]
      /\ fun = funcs[top.f] /\ stmt = fun.body[top.s] /\ order' = order
  BY WroteFacts
<1>2. st.fn = stmt.fn /\ UNCHANGED <<bases, overloads, generics, symbols, sub, next>>
  BY DEF Wrote, tables
<1>3. WritingKept  BY WroteWriting
<1>4. KnownInv'
  <2>1. \A i \in DOMAIN funcs : (funcs')[i].typed => funcs[i].typed  BY <1>1 DEF SameHead
  <2>2. pass' \notin Walks \/ UNCHANGED <<pass, sub, next>>  BY <1>2 DEF Walks
  <2> QED  BY <1>1, <1>3, <2>1, <2>2, KnownKept
<1>5. PinInv'
  <2>1. \A n \in Names : SymbolsStay(n)  BY <1>2 DEF SymbolsStay
  <2> SUFFICES ASSUME NEW i \in DOMAIN funcs', NEW s \in DOMAIN (funcs')[i].body
               PROVE  \/ (funcs')[i].body[s].fn = NoFunc
                      \/ (funcs')[i].body[s].t = NoType
                      \/ /\ i \in DOMAIN funcs /\ s \in DOMAIN funcs[i].body
                         /\ (funcs')[i].body[s] = funcs[i].body[s]
                      \/ /\ PinnedCall((funcs')[i].body[s], symbols)
                         /\ Together((funcs')[i].body[s].fn) => AllTyped((funcs')[i].body[s].fn)
    BY <1>3, <2>1, PinKept
  <2>2. CASE i # top.f  BY <1>1, <2>2
  <2>3. CASE i = top.f /\ s # top.s  BY <1>1, <2>3
  <2>4. CASE i = top.f /\ s = top.s  BY <1>1, <2>4
  <2> QED  BY <2>2, <2>3, <2>4
<1> QED  BY <1>4, <1>5

LEMMA BodyPins ==
  ASSUME TypeInv, CallsInv, PinsInv,
         ReturnValue \/ CallExact \/ CallKept \/ CallOverload \/ NextOverload \/ CallFails
  PROVE  KnownInv' /\ PinInv'
<1> USE DEF PinsInv, CallsInv
<1>1. ASSUME NEW j \in DOMAIN funcs, InBody, stmt.fn # NoFunc, funcs[j].typed, funcs[j].name = stmt.fn
      PROVE  Together(stmt.fn) => AllTyped(stmt.fn)
  BY <1>1, CalledFromBehind DEF Named
<1>2. CASE ReturnValue
  <2>1. PICK st : Wrote(st) /\ st.fn = NoFunc /\ pass' = pass  BY <1>2, ReturnValueFacts
  <2> QED  BY <2>1, WrotePins
<1>3. CASE CallExact
  <2>1. PICK st : /\ Wrote(st) /\ st.fn # NoFunc /\ st.args = callArgs
                  /\ st.callee = symbols[exact]
                  /\ st.callee \in DOMAIN funcs /\ funcs[st.callee].typed
                  /\ Signature(funcs[st.callee]) = exact /\ Leaves
    BY <1>3, CallExactFacts
  <2>2. InBody /\ st.fn = stmt.fn  BY <2>1 DEF Wrote
  <2>3. exact = <<st.fn, TypesOf(st.args)>> /\ funcs[st.callee].name = stmt.fn
    BY <2>1, <2>2 DEF exact, Signature
  <2>4. PinnedCall(st, symbols)  BY <2>1, <2>3 DEF PinnedCall
  <2>5. pass' = pass \/ pass' = "crashed"  BY <2>1 DEF Leaves
  <2> QED  BY <1>1, <2>1, <2>2, <2>3, <2>4, <2>5, WrotePins
<1>4. CASE CallKept
  <2>1. PICK st : /\ Wrote(st) /\ st.fn # NoFunc /\ st.args = callArgs
                  /\ exact \notin DOMAIN symbols /\ st.t = stmt.t /\ st.t # NoType /\ Leaves
    BY <1>4, CallKeptFacts
  <2>2. InBody /\ st.fn = stmt.fn  BY <2>1 DEF Wrote
  <2>3. top.f \in DOMAIN funcs /\ top.s \in DOMAIN fun.body /\ fun = funcs[top.f]
        /\ stmt = fun.body[top.s]
    BY <2>1, WroteFacts
  <2>4. Agrees(stmt, funcs, Placed)  BY <2>1, <2>2, <2>3 DEF CallInv
  <2>5. stmt.callee \in DOMAIN funcs /\ funcs[stmt.callee].typed /\ funcs[stmt.callee].name = stmt.fn
    BY <2>4 DEF Agrees
  <2>6. exact = <<st.fn, TypesOf(st.args)>>  BY <2>1, <2>2 DEF exact
  <2>7. PinnedCall(st, symbols)  BY <2>1, <2>6 DEF PinnedCall
  <2>8. pass' = pass \/ pass' = "crashed"  BY <2>1 DEF Leaves
  <2> QED  BY <1>1, <2>1, <2>2, <2>5, <2>7, <2>8, WrotePins
<1>5. CASE CallOverload
  <2>1. PICK st : /\ Wrote(st) /\ st.fn # NoFunc /\ Comparing /\ st.callee = candidate
                  /\ KeepsArgs(callArgs, st.args) /\ Leaves
    BY <1>5, CallOverloadFacts
  <2>2. InBody /\ st.fn = stmt.fn /\ st \in Statement /\ ArgsStay(stmt.args, st.args)
    BY <2>1 DEF Wrote
  <2>3. candidate \in DOMAIN funcs /\ funcs[candidate].typed /\ funcs[candidate].name = stmt.fn
    BY <2>1, CandidateFacts
  <2>4. ArgsTyped(st, fun)  BY <2>1, <2>2, KeptArgsStayTyped
  <2>5. PinnedCall(st, symbols)
    <3> SUFFICES ASSUME Untouched(st)  PROVE <<st.fn, TypesOf(st.args)>> \notin DOMAIN symbols
      BY DEF PinnedCall
    <3>1. /\ Untouched(stmt) /\ TypesOf(callArgs) = WrittenTypes(stmt, fun)
          /\ TypesOf(st.args) = WrittenTypes(stmt, fun)
      BY <2>2, <2>4, WrittenArgs
    <3>2. top.tried > 0 \/ exact \notin DOMAIN symbols  BY <2>1 DEF Comparing, Searching
    <3>3. exact = <<stmt.fn, WrittenTypes(stmt, fun)>>  BY <3>1 DEF exact
    <3>4. Visiting  BY <2>2 DEF InBody
    <3> QED  BY <2>2, <3>1, <3>2, <3>3, <3>4 DEF TriedInv
  <2>6. pass' = pass \/ pass' = "crashed"  BY <2>1 DEF Leaves
  <2> QED  BY <1>1, <2>1, <2>2, <2>3, <2>5, <2>6, WrotePins
<1>6. CASE NextOverload
  <2>1. PICK st : Wrote(st) /\ st.t = NoType /\ pass' = pass  BY <1>6, NextOverloadFacts
  <2> QED  BY <2>1, WrotePins
<1>7. CASE CallFails
  <2>1. PICK st : Wrote(st) /\ st.t = NoType /\ Leaves  BY <1>7, CallFailsFacts
  <2>2. pass' = pass \/ pass' = "crashed"  BY <2>1 DEF Leaves
  <2> QED  BY <2>1, <2>2, WrotePins
<1> QED  BY <1>2, <1>3, <1>4, <1>5, <1>6, <1>7

LEMMA TriedAnew ==
  ASSUME stack' = <<>> \/ (stack')[Len(stack')].tried = 0
  PROVE  TriedInv'
<1>1. Visiting' => top'.tried = 0  BY DEF Visiting, top, Last
<1> QED  BY <1>1 DEF TriedInv

(* Where the visit of a statement, or the start of one, leaves the walk.   *)
LEMMA BodyLeaves ==
  ASSUME TypeInv, ReturnValue \/ CallExact \/ CallKept \/ CallOverload \/ CallFails
  PROVE  stack' = <<>> \/ (stack')[Len(stack')].tried = 0
<1>1. Visiting /\ (Leaves \/ (pass' = pass /\ stack' = NextStatement))
  <2>1. CASE ReturnValue  BY <2>1 DEF ReturnValue, InBody, walk
  <2>2. CASE CallExact  BY <2>2 DEF CallExact, LookingUp, InBody, CallEnds, Leaves
  <2>3. CASE CallKept  BY <2>3 DEF CallKept, LookingUp, InBody, CallEnds, Leaves
  <2>4. CASE CallOverload
    BY <2>4 DEF CallOverload, Comparing, Searching, InBody, CallEnds, Leaves
  <2>5. CASE CallFails  BY <2>5 DEF CallFails, AllTried, Searching, InBody, CallEnds, Leaves
  <2> QED  BY <2>1, <2>2, <2>3, <2>4, <2>5
<1>2. \/ stack' = <<>>
      \/ Moved(top.s + 1) /\ (stack')[Len(stack)].tried = 0
  BY <1>1, LeavesFacts
<1>3. Moved(top.s + 1) => Len(stack') = Len(stack)  BY DEF Moved
<1> QED  BY <1>2, <1>3

LEMMA WalkLeaves ==
  ASSUME \/ RegisterFunc \/ RegisterGeneric \/ VisitFunc \/ SkipGeneric
         \/ GenericMismatch \/ GenericOverflow
  PROVE  stack' = <<>> \/ (stack')[Len(stack')].tried = 0
<1>1. CASE RegisterFunc \/ VisitFunc
  <2>1. stack' = <<Frame(order[next], FALSE)>>  BY <1>1 DEF RegisterFunc, VisitFunc, Enter
  <2> QED  BY <2>1 DEF Frame
<1>2. CASE RegisterGeneric \/ SkipGeneric
  BY <1>2 DEF RegisterGeneric, SkipGeneric, AtChild, Visiting
<1>3. CASE GenericMismatch \/ GenericOverflow
  BY <1>3 DEF GenericMismatch, GenericOverflow
<1> QED  BY <1>1, <1>2, <1>3

LEMMA CopyEntered ==
  ASSUME TypeInv, CallGeneric
  PROVE  (stack')[Len(stack')].tried = 0
<1> DEFINE fr == Frame(Len(funcs) + 1, TRUE)
<1>1. stack \in Seq(Frames) /\ stack' = Append(stack, fr)
  BY CallGenericFacts, Zenon DEF TypeInv, StackInv
<1>2. fr.tried = 0  BY DEF Frame
<1> HIDE DEF fr
<1>3. (stack')[Len(stack')] = fr  BY <1>1
<1> QED  BY <1>2, <1>3

(* After an attempt the walk stands at the same call.                      *)
LEMMA NextStands ==
  ASSUME TypeInv, NEW st, Wrote(st), stack' = [stack EXCEPT ![Len(stack)].tried = @ + 1]
  PROVE  /\ Visiting /\ fun'.params = fun.params /\ stmt' = st
         /\ top.f \in DOMAIN funcs /\ fun = funcs[top.f]
<1>1. Visiting  BY DEF Wrote, InBody
<1>2. Moved(top.s)  BY <1>1, TriedMoves
<1>3. top'.f = top.f /\ top'.s = top.s  BY <1>2 DEF Moved, top, Last
<1>4. /\ fun = funcs[top.f] /\ top.f \in DOMAIN funcs
      /\ SameHead(funcs[top.f], (funcs')[top.f])
      /\ (funcs')[top.f].body[top.s] = st
  BY WroteFacts
<1> QED  BY <1>1, <1>3, <1>4 DEF fun, stmt, SameHead

LEMMA BodyTried ==
  ASSUME TypeInv, TriedInv,
         ReturnValue \/ CallExact \/ CallKept \/ CallOverload \/ NextOverload \/ CallFails
  PROVE  TriedInv'
<1>1. CASE ReturnValue \/ CallExact \/ CallKept \/ CallOverload \/ CallFails
  BY <1>1, BodyLeaves, TriedAnew
<1>2. CASE NextOverload
  <2>1. PICK st : /\ Wrote(st) /\ Comparing
                  /\ stack' = [stack EXCEPT ![Len(stack)].tried = @ + 1]
    BY <1>2, NextOverloadFacts
  <2>2. InBody /\ Visiting /\ st \in Statement /\ st.fn = stmt.fn /\ ArgsStay(stmt.args, st.args)
        /\ symbols' = symbols
    BY <2>1 DEF Wrote, InBody, tables
  <2>5. fun'.params = fun.params /\ stmt' = st  BY <2>1, NextStands
  <2> SUFFICES ASSUME Untouched(stmt')
               PROVE  <<(stmt').fn, WrittenTypes(stmt', fun')>> \notin DOMAIN symbols'
    BY DEF TriedInv
  <2>6. Untouched(st)  BY <2>5
  <2>7. /\ Untouched(stmt) /\ WrittenTypes(st, fun) = WrittenTypes(stmt, fun)
        /\ TypesOf(callArgs) = WrittenTypes(stmt, fun)
    BY <2>2, <2>6, WrittenArgs
  <2>8. WrittenTypes(stmt', fun') = WrittenTypes(st, fun)  BY <2>5 DEF WrittenTypes
  <2>9. top.tried > 0 \/ exact \notin DOMAIN symbols  BY <2>1 DEF Comparing, Searching
  <2>10. exact = <<stmt.fn, WrittenTypes(stmt, fun)>>  BY <2>7 DEF exact
  <2> QED  BY <2>2, <2>5, <2>7, <2>8, <2>9, <2>10 DEF TriedInv
<1> QED  BY <1>1, <1>2

LEMMA PinSame ==
  ASSUME TypeInv, PinInv, funcs' = funcs, symbols' = symbols
  PROVE  PinInv'
<1>1. WritingKept  BY NothingWritten
<1>2. \A n \in Names : SymbolsStay(n)  BY DEF SymbolsStay
<1> QED  BY <1>1, <1>2, PinKept

LEMMA WalkPins ==
  ASSUME TypeInv, PinsInv,
         \/ RegisterFunc \/ RegisterGeneric \/ VisitFunc \/ SkipGeneric
         \/ GenericMismatch \/ GenericOverflow \/ UNCHANGED vars
  PROVE  PinsInv'
<1> USE DEF PinsInv
<1>1. funcs' = funcs /\ symbols' = symbols /\ order' = order
  BY DEF RegisterFunc, RegisterGeneric, VisitFunc, SkipGeneric, GenericMismatch, GenericOverflow,
         vars, tables
<1>2. PinInv'  BY <1>1, PinSame
<1>3. KnownInv'
  <2>1. WritingKept  BY <1>1, NothingWritten
  <2>2. \/ pass' \notin Walks
        \/ UNCHANGED <<pass, sub, next>>
        \/ UNCHANGED <<pass, sub>> /\ next' = next + 1 /\ IsGeneric(funcs[order[next]])
    BY DEF RegisterFunc, RegisterGeneric, VisitFunc, SkipGeneric, GenericMismatch, GenericOverflow,
           vars, walk, Walks, child
  <2> QED  BY <1>1, <2>1, <2>2, KnownKept
<1>4. TriedInv'
  <2>1. CASE UNCHANGED vars
    BY <2>1 DEF vars, tables, TriedInv, Visiting, top, stmt, fun
  <2> QED  BY <2>1, WalkLeaves, TriedAnew
<1> QED  BY <1>2, <1>3, <1>4

LEMMA EndWalkPins ==
  ASSUME TypeInv, PinsInv, EndWalk
  PROVE  PinsInv'
<1> USE DEF PinsInv
<1>1. /\ funcs' = funcs /\ symbols' = symbols /\ order' = order /\ stack' = stack /\ stack = <<>>
      /\ next > Len(order) /\ next' = 1
      /\ \/ pass = "register" /\ sub = 0 /\ pass' = "register" /\ sub' = 1
         \/ pass = "register" /\ sub = 1 /\ pass' = "resolve" /\ sub' = 0
         \/ pass = "resolve" /\ pass' = "resolve" /\ sub' = sub + 1
         \/ pass = "resolve" /\ pass' = "check" /\ sub' = 0
         \/ pass = "check" /\ pass' \in {"accepted", "rejected"}
  BY DEF EndWalk, AtEnd, tables, Visiting
<1>2. PinInv'  BY <1>1, PinSame
<1>3. TriedInv'  BY <1>1, TriedAnew
<1>4. KnownInv'
  <2>1. WritingKept  BY <1>1, NothingWritten
  <2> SUFFICES ASSUME NEW n \in Names, Together(n)', NEW i \in Named(n)'
               PROVE  Met(i)'
    BY DEF KnownInv
  <2>2. Together(n) /\ Named(n)' = Named(n)  BY <2>1, TogetherBefore
  <2>3. i \in Named(n) /\ Met(i)  BY <2>2 DEF KnownInv
  <2>4. i \in DOMAIN order /\ order[i] = i /\ \A k \in DOMAIN order : order[k] = i => k = i
    BY <2>3 DEF Met
  <2>5. /\ order \in Seq(DOMAIN funcs) /\ DOMAIN order = 1 .. Len(order) /\ Len(order) \in Nat
        /\ next \in Nat /\ sub \in Nat
    BY FuncDeclsAssumption DEF TypeInv, TablesInv, WalkInv
  <2>6. i \in Nat /\ i < next /\ ~ (i < 1)  BY <1>1, <2>4, <2>5
  <2>7. CASE pass = "register" /\ pass' = "register"  BY <1>1, <2>3, <2>4, <2>7 DEF Met
  <2>8. CASE pass = "register" /\ pass' = "resolve" /\ sub' = 0
    BY <1>1, <2>3, <2>4, <2>6, <2>8 DEF Met
  <2>9. CASE pass = "resolve" /\ (pass' = "check" \/ (pass' = "resolve" /\ sub' = sub + 1))
    <3>1. funcs[i].typed
      <4>1. sub = 0 \/ sub > 0  BY <2>5
      <4> QED  BY <2>3, <2>6, <2>9, <4>1 DEF Met
    <3>2. sub' = sub + 1 => sub' # 0  BY <2>5
    <3> QED  BY <1>1, <2>4, <2>9, <3>1, <3>2 DEF Met
  <2>10. CASE pass' \in {"accepted", "rejected"}  BY <1>1, <2>4, <2>10 DEF Met
  <2> QED  BY <1>1, <2>7, <2>8, <2>9, <2>10
<1> QED  BY <1>2, <1>3, <1>4

LEMMA FinishFuncWriting == TypeInv /\ FinishFunc => WritingKept
<1> SUFFICES ASSUME TypeInv, FinishFunc  PROVE WritingKept  OBVIOUS
<1> DEFINE g == Resolved(fun, pass = "register")
<1>1. g = Resolved(fun, pass = "register")  OBVIOUS
<1> HIDE DEF g
<1>2. /\ fun = funcs[top.f] /\ g.ret = fun.ret
      /\ CalleesKept /\ DOMAIN funcs' = DOMAIN funcs
      /\ (funcs')[top.f] = g /\ \A i \in DOMAIN funcs : i # top.f => (funcs')[i] = funcs[i]
      /\ \A i \in DOMAIN funcs : (funcs')[i].body = funcs[i].body
  BY <1>1, FinishFuncFacts
<1>3. \A i \in DOMAIN funcs : (funcs')[i].ret = funcs[i].ret  BY <1>2
<1> QED  BY <1>2, <1>3, SameStays DEF WritingKept, CalleesKept, BodiesKept, Grown

(* A function that gets its type declares its own name only.               *)
LEMMA DeclaredSymbols ==
  ASSUME NEW g, ResolveFuncType(fun, g), NEW n, n # fun.name \/ fun.typed \/ ~ g.typed
  PROVE  SymbolsStay(n)
<1>1. CASE fun.typed \/ ~ g.typed
  <2>1. symbols' = symbols  BY <1>1 DEF ResolveFuncType, Declare
  <2> QED  BY <2>1 DEF SymbolsStay
<1>2. CASE ~ fun.typed /\ g.typed /\ n # fun.name
  <2>1. symbols' = IF Signature(fun) \in DOMAIN symbols THEN symbols
                   ELSE [k \in DOMAIN symbols \cup {Signature(fun)} |->
                           IF k \in DOMAIN symbols THEN symbols[k] ELSE top.f]
    BY <1>2 DEF ResolveFuncType, Declare
  <2> SUFFICES ASSUME NEW types, <<n, types>> \in DOMAIN symbols'
               PROVE  <<n, types>> \in DOMAIN symbols /\ (symbols')[<<n, types>>] = symbols[<<n, types>>]
    BY DEF SymbolsStay
  <2> DEFINE k == <<n, types>>
             own == Signature(fun)
  <2>2. k # own  BY <1>2 DEF Signature
  <2> HIDE DEF k, own
  <2>3. k \in DOMAIN symbols'  BY DEF k
  <2>4. k \in DOMAIN symbols /\ (symbols')[k] = symbols[k]  BY <2>1, <2>2, <2>3 DEF own
  <2> QED  BY <2>4 DEF k
<1> QED  BY <1>1, <1>2

(* An overload among several is declared when the walk leaves it, and then *)
(* no call of them has a type yet.                                         *)
LEMMA FinishFuncPins == TypeInv /\ PinsInv /\ FinishFunc => PinsInv'
<1> SUFFICES ASSUME TypeInv, KnownInv, PinInv, FinishFunc  PROVE PinsInv'
  BY DEF PinsInv
<1> DEFINE g == Resolved(fun, pass = "register")
<1>1. g = Resolved(fun, pass = "register")  OBVIOUS
<1> HIDE DEF g
<1>2. /\ top.f \in DOMAIN funcs /\ fun = funcs[top.f]
      /\ top.f = order[next] /\ next \in DOMAIN order
      /\ ResolveFuncType(fun, g) /\ g.ret = fun.ret /\ g.body = fun.body
      /\ fun.typed => g.typed
      /\ ~ fun.typed /\ g.typed => pass # "register"
      /\ ~ fun.typed /\ ~ g.typed => pass = "register" \/ ResultType(fun) = NoType
      /\ CalleesKept /\ DOMAIN funcs' = DOMAIN funcs
      /\ (funcs')[top.f] = g /\ \A i \in DOMAIN funcs : i # top.f => (funcs')[i] = funcs[i]
      /\ \A i \in DOMAIN funcs : (funcs')[i].body = funcs[i].body
      /\ stack' = <<>> /\ next' = next + 1
      /\ UNCHANGED <<order, pass, sub>>
  BY <1>1, FinishFuncFacts
<1>3. WritingKept  BY FinishFuncWriting
<1>4. TriedInv'  BY <1>2, TriedAnew
<1>5. PinInv'
  <2>1. ASSUME NEW n \in Names  PROVE SymbolsStay(n) \/ ~ AllTyped(n)
    <3>1. CASE n # fun.name \/ fun.typed \/ ~ g.typed  BY <1>2, <3>1, DeclaredSymbols
    <3>2. CASE n = fun.name /\ ~ fun.typed
      <4>1. top.f \in Named(n)  BY <1>2, <3>2 DEF Named
      <4> QED  BY <1>2, <3>2, <4>1 DEF AllTyped
    <3> QED  BY <3>1, <3>2
  <2>2. \A i \in DOMAIN funcs' : \A s \in DOMAIN (funcs')[i].body :
          /\ i \in DOMAIN funcs /\ s \in DOMAIN funcs[i].body
          /\ (funcs')[i].body[s] = funcs[i].body[s]
    BY <1>2
  <2> QED  BY <1>3, <2>1, <2>2, PinKept
<1>6. KnownInv'
  <2> SUFFICES ASSUME NEW n \in Names, Together(n)', NEW i \in Named(n)'
               PROVE  Met(i)'
    BY DEF KnownInv
  <2>1. Together(n) /\ Named(n)' = Named(n)  BY <1>3, TogetherBefore
  <2>2. i \in Named(n) /\ i \in DOMAIN funcs /\ funcs[i].ret # NoType
    BY <2>1 DEF Named, Together
  <2>3. Met(i)  BY <2>1, <2>2 DEF KnownInv
  <2>4. i \in DOMAIN order /\ order[i] = i /\ \A k \in DOMAIN order : order[k] = i => k = i
    BY <2>3 DEF Met
  <2>5. i \in Nat /\ next \in Nat
    <3>1. DOMAIN funcs = 1 .. Len(funcs)  BY FuncsFacts DEF TypeInv
    <3> QED  BY <2>2, <3>1 DEF TypeInv, WalkInv
  <2>6. CASE i = next
    <3>1. fun = funcs[i] /\ (funcs')[i] = g  BY <1>2, <2>4, <2>6
    <3>2. ResultType(fun) # NoType  BY <2>2, <3>1 DEF ResultType
    <3>3. ~ (i < next) /\ i < next'  BY <1>2, <2>5, <2>6
    <3> QED  BY <1>2, <2>3, <2>4, <3>1, <3>2, <3>3 DEF Met
  <2>7. CASE i # next
    <3>1. (funcs')[i] = funcs[i]  BY <1>2, <2>2, <2>4, <2>7
    <3>2. i < next' <=> i < next  BY <1>2, <2>5, <2>7
    <3> QED  BY <1>2, <2>3, <2>4, <3>1, <3>2 DEF Met
  <2> QED  BY <2>6, <2>7
<1> QED  BY <1>4, <1>5, <1>6 DEF PinsInv

(* What a call of a generic function leaves as it was.                     *)
LEMMA CallGenericWriting ==
  ASSUME TypeInv, CallGeneric
  PROVE  /\ WritingKept /\ GenericNamed(stmt.fn) /\ InBody
         /\ \A i \in DOMAIN funcs : SameHead(funcs[i], (funcs')[i])
         /\ \A i \in DOMAIN funcs : \A s \in DOMAIN funcs[i].body :
              \/ (funcs')[i].body[s] = funcs[i].body[s]
              \/ /\ funcs[i].body[s].t = NoType /\ (funcs')[i].body[s].t = NoType
                 /\ (funcs')[i].body[s].fn = stmt.fn
         /\ \A i \in DOMAIN funcs' : i \notin DOMAIN funcs =>
              /\ ~ (funcs')[i].typed
              /\ \A s \in DOMAIN (funcs')[i].body :
                   (funcs')[i].body[s].t = NoType /\ AsWritten((funcs')[i].body[s].args)
         /\ stack' = Append(stack, Frame(Len(funcs) + 1, TRUE))
         /\ UNCHANGED <<order, symbols, pass, sub, next, errors>>
<1>1. PICK g \in GenericFor, st \in Statement, copy \in Function :
        /\ InBody
        /\ GoodStatement(st, fun) /\ st.fn = stmt.fn /\ st.t = NoType /\ st.ret = stmt.ret
        /\ GoodFunction(copy) /\ copy.name = stmt.fn /\ ~ copy.typed
        /\ \A s \in DOMAIN copy.body : copy.body[s].t = NoType /\ AsWritten(copy.body[s].args)
        /\ KeepsArgs(callArgs, st.args)
        /\ funcs' = Append(SetStatement(st), copy)
        /\ stack' = Append(stack, Frame(Len(funcs) + 1, TRUE))
        /\ UNCHANGED <<order, tables, walk, unresolved, errors>>
  BY CallGenericFacts, ZenonT(60)
<1>2. AllTried /\ Searching  BY DEF CallGeneric, AllTried
<1>3. GenericNamed(stmt.fn)  BY <1>2, GenericFacts DEF GenericNamed
<1>4. stmt.t = NoType  BY <1>2, UntypedCall DEF TypeInv
<1>5. /\ HeadsKept
      /\ Len(funcs) \in Nat /\ DOMAIN funcs = 1 .. Len(funcs)
      /\ DOMAIN funcs' = 1 .. Len(funcs) + 1
      /\ (funcs')[Len(funcs) + 1] = copy
      /\ \A i \in DOMAIN funcs : i # top.f => (funcs')[i] = funcs[i]
      /\ (funcs')[top.f].body = [fun.body EXCEPT ![top.s] = st]
      /\ \A i \in DOMAIN funcs : SameHead(funcs[i], (funcs')[i])
  BY <1>1, CopyAdded DEF TypeInv
<1>6. /\ fun = funcs[top.f] /\ fun \in Function /\ top.f \in DOMAIN funcs
      /\ top.s \in DOMAIN fun.body /\ stmt = fun.body[top.s]
  <2>1. Visiting  BY <1>1 DEF InBody
  <2> QED  BY <1>1, <2>1, BodyFacts, StackFacts DEF TypeInv
<1>7. /\ DOMAIN (funcs')[top.f].body = DOMAIN fun.body
      /\ (funcs')[top.f].body[top.s] = st
      /\ \A s \in DOMAIN fun.body : s # top.s => (funcs')[top.f].body[s] = fun.body[s]
  <2> DEFINE b == (funcs')[top.f].body
  <2>1. b = [fun.body EXCEPT ![top.s] = st] /\ fun.body \in Seq(Statement)
    BY <1>5, <1>6, FunctionFields
  <2> HIDE DEF b
  <2>2. /\ DOMAIN b = DOMAIN fun.body /\ b[top.s] = st
        /\ \A s \in DOMAIN fun.body : s # top.s => b[s] = fun.body[s]
    BY <1>1, <1>6, <2>1
  <2> QED  BY <2>2 DEF b
<1>8. StaysAs(stmt, st)  BY <1>1, ArgsStayFacts DEF StaysAs
<1>9. WritingKept
  <2>1. ASSUME NEW i \in DOMAIN funcs
        PROVE  /\ (funcs')[i].ret = funcs[i].ret
               /\ DOMAIN (funcs')[i].body = DOMAIN funcs[i].body
               /\ \A s \in DOMAIN funcs[i].body : StaysAs(funcs[i].body[s], (funcs')[i].body[s])
    <3>1. CASE i # top.f  BY <1>5, <3>1, SameStays
    <3>2. CASE i = top.f
      <4>1. ASSUME NEW s \in DOMAIN fun.body  PROVE StaysAs(fun.body[s], (funcs')[top.f].body[s])
        <5>1. CASE s = top.s  BY <1>6, <1>7, <1>8, <5>1
        <5>2. CASE s # top.s  BY <1>7, <5>2, SameStays
        <5> QED  BY <5>1, <5>2
      <4> QED  BY <1>5, <1>6, <1>7, <3>2, <4>1 DEF SameHead
    <3> QED  BY <3>1, <3>2
  <2>2. Grown  BY <1>1, <1>3, <1>5 DEF Grown
  <2> QED  BY <1>5, <2>1, <2>2 DEF WritingKept, BodiesKept
<1>10. ASSUME NEW i \in DOMAIN funcs, NEW s \in DOMAIN funcs[i].body
       PROVE  \/ (funcs')[i].body[s] = funcs[i].body[s]
              \/ /\ funcs[i].body[s].t = NoType /\ (funcs')[i].body[s].t = NoType
                 /\ (funcs')[i].body[s].fn = stmt.fn
  <2>1. CASE i = top.f /\ s = top.s  BY <1>1, <1>4, <1>6, <1>7, <2>1
  <2>2. CASE i = top.f /\ s # top.s  BY <1>6, <1>7, <2>2
  <2>3. CASE i # top.f  BY <1>5, <2>3
  <2> QED  BY <2>1, <2>2, <2>3
<1>11. \A i \in DOMAIN funcs' : i \notin DOMAIN funcs => (funcs')[i] = copy  BY <1>5
<1> QED  BY <1>1, <1>3, <1>5, <1>9, <1>10, <1>11 DEF tables, walk

(* A copy has the name of a generic function, and a body in which nothing  *)
(* has a type.                                                             *)
LEMMA CallGenericPins == TypeInv /\ PinsInv /\ CallGeneric => PinsInv'
<1> SUFFICES ASSUME TypeInv, KnownInv, PinInv, CallGeneric  PROVE PinsInv'
  BY DEF PinsInv
<1>1. /\ WritingKept
      /\ \A i \in DOMAIN funcs : SameHead(funcs[i], (funcs')[i])
      /\ \A i \in DOMAIN funcs : \A s \in DOMAIN funcs[i].body :
           \/ (funcs')[i].body[s] = funcs[i].body[s]
           \/ (funcs')[i].body[s].t = NoType
      /\ \A i \in DOMAIN funcs' : i \notin DOMAIN funcs =>
           \A s \in DOMAIN (funcs')[i].body : (funcs')[i].body[s].t = NoType
      /\ stack' = Append(stack, Frame(Len(funcs) + 1, TRUE))
      /\ UNCHANGED <<order, symbols, pass, sub, next>>
  BY CallGenericWriting
<1>2. KnownInv'
  <2>1. \A i \in DOMAIN funcs : (funcs')[i].typed => funcs[i].typed  BY <1>1 DEF SameHead
  <2> QED  BY <1>1, <2>1, KnownKept
<1>3. PinInv'
  <2>1. \A n \in Names : SymbolsStay(n)  BY <1>1 DEF SymbolsStay
  <2>2. \A i \in DOMAIN funcs : DOMAIN (funcs')[i].body = DOMAIN funcs[i].body
    BY <1>1 DEF WritingKept, BodiesKept
  <2>3. \A i \in DOMAIN funcs' : \A s \in DOMAIN (funcs')[i].body :
          \/ (funcs')[i].body[s].t = NoType
          \/ /\ i \in DOMAIN funcs /\ s \in DOMAIN funcs[i].body
             /\ (funcs')[i].body[s] = funcs[i].body[s]
    BY <1>1, <2>2
  <2> QED  BY <1>1, <2>1, <2>3, PinKept
<1>4. TriedInv'  BY CopyEntered, TriedAnew
<1> QED  BY <1>2, <1>3, <1>4 DEF PinsInv

(* What a copy that is left changes.                                       *)
LEMMA FinishInstanceWriting ==
  ASSUME TypeInv, WaitingInv, FinishInstance, NEW g, g = Resolved(fun, FALSE)
  PROVE  /\ WritingKept /\ GenericNamed(fun.name)
         /\ Visiting /\ top.f \in DOMAIN funcs /\ fun = funcs[top.f] /\ (funcs')[top.f] = g
         /\ DOMAIN funcs' = DOMAIN funcs /\ ResolveFuncType(fun, g) /\ g.body = fun.body
         /\ \A i \in DOMAIN funcs : i # top.f => SameHead(funcs[i], (funcs')[i])
         /\ \A i \in DOMAIN funcs : \A s \in DOMAIN funcs[i].body :
              \/ (funcs')[i].body[s] = funcs[i].body[s]
              \/ /\ funcs[i].body[s].t = NoType
                 /\ (funcs')[i].body[s].fn = fun.name /\ fun.name # NoFunc
         /\ (order')[Len(order) + 1] = top.f
         /\ DOMAIN order' = 1 .. Len(order) + 1 /\ DOMAIN order = 1 .. Len(order) /\ Len(order) \in Nat
         /\ \A k \in DOMAIN order : (order')[k] = order[k]
         /\ UNCHANGED <<sub, next>> /\ errors \subseteq errors'
         /\ \/ pass' = "crashed" /\ stack' = <<>>
            \/ /\ pass' = pass
               /\ Len(stack') = Len(stack) - 1 /\ (stack')[Len(stack) - 1].tried = 0
<1> DEFINE st == WithCallee(Waiting, top.f, g.result)
           m == Len(stack) - 1
<1>1. /\ Visiting /\ top.generated /\ top.f \in DOMAIN funcs /\ fun = funcs[top.f]
      /\ ResolveFuncType(fun, g) /\ g \in Function
      /\ HeadsKept /\ DOMAIN funcs' = DOMAIN funcs /\ (funcs')[top.f] = g
      /\ SameHead(funcs[Caller.f], (funcs')[Caller.f])
      /\ \A j \in DOMAIN funcs : j # top.f /\ j # Caller.f => (funcs')[j] = funcs[j]
  BY FinishedFuncs
<1>2. /\ g.body = fun.body /\ g.ret = fun.ret
      /\ \A i \in DOMAIN funcs : i # Caller.f => (funcs')[i].body = funcs[i].body
      /\ DOMAIN (funcs')[Caller.f].body = DOMAIN funcs[Caller.f].body
      /\ (funcs')[Caller.f].body[Caller.s] = st
      /\ \A s \in DOMAIN funcs[Caller.f].body :
           s # Caller.s => (funcs')[Caller.f].body[s] = funcs[Caller.f].body[s]
      /\ (order')[Len(order) + 1] = top.f
      /\ DOMAIN order' = 1 .. Len(order) + 1 /\ DOMAIN order = 1 .. Len(order) /\ Len(order) \in Nat
      /\ \A k \in DOMAIN order : (order')[k] = order[k]
      /\ UNCHANGED <<sub, next>> /\ errors \subseteq errors'
      /\ \/ pass' = "crashed" /\ stack' = <<>>
         \/ /\ pass' = pass
            /\ stack' = [Front(stack) EXCEPT ![Len(stack) - 1].s = @ + 1, ![Len(stack) - 1].tried = 0]
  BY FinishInstanceFacts, Zenon
<1>3. /\ Len(stack) \in Nat /\ Len(stack) > 1 /\ m \in DOMAIN stack
      /\ Caller.f \in DOMAIN funcs /\ Caller.f # top.f /\ Caller = stack[m]
      /\ Caller.s \in DOMAIN funcs[Caller.f].body
      /\ Waiting = funcs[Caller.f].body[Caller.s] /\ Waiting \in Statement
      /\ Waiting.t = NoType /\ Waiting.fn # NoFunc
  BY <1>1, CallerFacts DEF TypeInv, Caller, Waiting
<1>4. top = stack[Len(stack)]  BY <1>1, StackFacts DEF TypeInv
<1>5. m + 1 = Len(stack) /\ m < Len(stack)  BY <1>3
<1>6. \/ pass' = "crashed" /\ stack' = <<>>
      \/ pass' = pass /\ Len(stack') = m /\ (stack')[m].tried = 0
  BY <1>1, <1>2, FinishedStack DEF TypeInv
<1> HIDE DEF m
<1>7. WaitsFor(Waiting, fun, funcs)
  <2>1. m \in DOMAIN stack /\ m < Len(stack) /\ stack[m + 1] = top  BY <1>3, <1>4, <1>5
  <2> QED  BY <1>1, <1>3, <2>1 DEF WaitingInv
<1>8. GenericNamed(fun.name) /\ fun.name = Waiting.fn
  BY <1>7 DEF WaitsFor, GenericNamed
<1>9. StaysAs(Waiting, st)
  <2>1. top.f \in Nat  BY <1>1, StackFacts DEF TypeInv
  <2>2. g.result \in Types \cup {NoType}  BY <1>1, FunctionFields
  <2>3. Waiting \in Statement  BY <1>3
  <2>4. st.args = Waiting.args /\ st.fn = Waiting.fn /\ st.ret = Waiting.ret
    BY <2>1, <2>2, <2>3, StatementWithCallee, ZenonT(60)
  <2> HIDE DEF st
  <2> QED  BY <2>4, SameStays DEF StaysAs
<1> HIDE DEF st
<1>10. WritingKept
  <2>1. ASSUME NEW i \in DOMAIN funcs
        PROVE  /\ (funcs')[i].ret = funcs[i].ret
               /\ DOMAIN (funcs')[i].body = DOMAIN funcs[i].body
               /\ \A s \in DOMAIN funcs[i].body : StaysAs(funcs[i].body[s], (funcs')[i].body[s])
    <3>1. CASE i = top.f  BY <1>1, <1>2, <3>1, SameStays
    <3>2. CASE i = Caller.f
      <4>1. ASSUME NEW s \in DOMAIN funcs[Caller.f].body
            PROVE  StaysAs(funcs[Caller.f].body[s], (funcs')[Caller.f].body[s])
        <5>1. CASE s = Caller.s  BY <1>2, <1>3, <1>9, <5>1
        <5>2. CASE s # Caller.s  BY <1>2, <5>2, SameStays
        <5> QED  BY <5>1, <5>2
      <4> QED  BY <1>1, <1>2, <3>2, <4>1 DEF SameHead
    <3>3. CASE i # top.f /\ i # Caller.f  BY <1>1, <3>3, SameStays
    <3> QED  BY <3>1, <3>2, <3>3
  <2>2. Grown  BY <1>1 DEF Grown
  <2> QED  BY <1>1, <2>1, <2>2 DEF WritingKept, BodiesKept
<1>11. ASSUME NEW i \in DOMAIN funcs, i # top.f  PROVE SameHead(funcs[i], (funcs')[i])
  <2>1. CASE i = Caller.f  BY <1>1, <2>1
  <2>2. CASE i # Caller.f  BY <1>1, <1>11, <2>2 DEF SameHead
  <2> QED  BY <2>1, <2>2
<1>12. ASSUME NEW i \in DOMAIN funcs, NEW s \in DOMAIN funcs[i].body
       PROVE  \/ (funcs')[i].body[s] = funcs[i].body[s]
              \/ /\ funcs[i].body[s].t = NoType
                 /\ (funcs')[i].body[s].fn = fun.name /\ fun.name # NoFunc
  <2>1. CASE i # Caller.f  BY <1>2, <2>1
  <2>2. CASE i = Caller.f /\ s # Caller.s  BY <1>2, <2>2
  <2>3. CASE i = Caller.f /\ s = Caller.s
    BY <1>2, <1>3, <1>8, <1>9, <2>3 DEF StaysAs
  <2> QED  BY <2>1, <2>2, <2>3
<1> QED  BY <1>1, <1>2, <1>6, <1>8, <1>10, <1>11, <1>12 DEF m

(* So does a copy that is left, and the call that waited for it.           *)
LEMMA FinishInstancePins == TypeInv /\ CallsInv /\ PinsInv /\ FinishInstance => PinsInv'
<1> SUFFICES ASSUME TypeInv, WaitingInv, KnownInv, PinInv, FinishInstance  PROVE PinsInv'
  BY DEF PinsInv, CallsInv
<1> DEFINE g == Resolved(fun, FALSE)
<1>1. g = Resolved(fun, FALSE)  OBVIOUS
<1> HIDE DEF g
<1>2. /\ WritingKept /\ GenericNamed(fun.name)
      /\ top.f \in DOMAIN funcs /\ fun = funcs[top.f]
      /\ DOMAIN funcs' = DOMAIN funcs /\ ResolveFuncType(fun, g)
      /\ \A i \in DOMAIN funcs : i # top.f => SameHead(funcs[i], (funcs')[i])
      /\ \A i \in DOMAIN funcs : \A s \in DOMAIN funcs[i].body :
           \/ (funcs')[i].body[s] = funcs[i].body[s]
           \/ (funcs')[i].body[s].fn = fun.name
      /\ (order')[Len(order) + 1] = top.f
      /\ DOMAIN order' = 1 .. Len(order) + 1 /\ DOMAIN order = 1 .. Len(order) /\ Len(order) \in Nat
      /\ \A k \in DOMAIN order : (order')[k] = order[k]
      /\ UNCHANGED <<sub, next>>
      /\ \/ pass' = "crashed" /\ stack' = <<>>
         \/ /\ pass' = pass
            /\ Len(stack') = Len(stack) - 1 /\ (stack')[Len(stack) - 1].tried = 0
  BY <1>1, FinishInstanceWriting
<1>3. KnownInv'
  <2>1. \A k \in DOMAIN order : k \in DOMAIN order' /\ (order')[k] = order[k]  BY <1>2
  <2>2. \A k \in DOMAIN order' : k \in DOMAIN order \/ GenericNamed(funcs[(order')[k]].name)
    <3>1. \A k \in DOMAIN order' : k \in DOMAIN order \/ k = Len(order) + 1  BY <1>2
    <3> QED  BY <1>2, <3>1
  <2>3. \A i \in DOMAIN funcs : (funcs')[i].typed => funcs[i].typed \/ GenericNamed(funcs[i].name)
    BY <1>2 DEF SameHead
  <2>4. pass' \notin Walks \/ UNCHANGED <<pass, sub, next>>  BY <1>2 DEF Walks
  <2> QED  BY <1>2, <2>1, <2>2, <2>3, <2>4, KnownKept
<1>4. PinInv'
  <2>1. ASSUME NEW n \in Names, Together(n)  PROVE SymbolsStay(n)
    <3>1. ~ GenericNamed(n)  BY <2>1 DEF Together, Named, GenericNamed
    <3>2. n # fun.name  BY <1>2, <3>1
    <3> QED  BY <1>2, <3>2, DeclaredSymbols
  <2>2. \A i \in DOMAIN funcs : DOMAIN (funcs')[i].body = DOMAIN funcs[i].body
    BY <1>2 DEF WritingKept, BodiesKept
  <2>3. \A i \in DOMAIN funcs' : \A s \in DOMAIN (funcs')[i].body :
          \/ GenericNamed((funcs')[i].body[s].fn)
          \/ /\ i \in DOMAIN funcs /\ s \in DOMAIN funcs[i].body
             /\ (funcs')[i].body[s] = funcs[i].body[s]
    BY <1>2, <2>2
  <2> QED  BY <1>2, <2>1, <2>3, PinKept
<1>5. TriedInv'
  <2>1. CASE stack' = <<>>  BY <2>1, TriedAnew
  <2>2. CASE Len(stack') = Len(stack) - 1 /\ (stack')[Len(stack) - 1].tried = 0
    <3>1. (stack')[Len(stack')].tried = 0  BY <2>2
    <3> QED  BY <3>1, TriedAnew
  <2> QED  BY <1>2, <2>1, <2>2
<1> QED  BY <1>3, <1>4, <1>5 DEF PinsInv

LEMMA InitPins == Init => PinsInv
<1> SUFFICES ASSUME Init  PROVE PinsInv  OBVIOUS
<1>1. \A i \in DOMAIN funcs : Parsed(funcs[i])  BY FuncDeclsAssumption DEF Init
<1>2. order = [i \in DOMAIN funcs |-> i] /\ stack = <<>> /\ pass = "register"  BY DEF Init
<1>3. KnownInv
  <2>1. ASSUME NEW n \in Names, NEW i \in Named(n)  PROVE Met(i)
    <3>1. i \in DOMAIN funcs /\ ~ funcs[i].typed  BY <1>1 DEF Named, Parsed
    <3> QED  BY <1>2, <3>1 DEF Met
  <2> QED  BY <2>1 DEF KnownInv
<1>4. PinInv  BY <1>1 DEF PinInv, Parsed
<1>5. TriedInv  BY <1>2 DEF TriedInv, Visiting
<1> QED  BY <1>3, <1>4, <1>5 DEF PinsInv

LEMMA NextPins == TypeInv /\ CallsInv /\ PinsInv /\ [Next]_vars => PinsInv'
<1> SUFFICES ASSUME TypeInv, CallsInv, PinsInv, [Next]_vars  PROVE PinsInv'  OBVIOUS
<1>1. CASE \/ RegisterFunc \/ RegisterGeneric \/ VisitFunc \/ SkipGeneric
           \/ GenericMismatch \/ GenericOverflow \/ UNCHANGED vars
  BY <1>1, WalkPins
<1>2. CASE ReturnValue \/ CallExact \/ CallKept \/ CallOverload \/ NextOverload \/ CallFails
  BY <1>2, BodyPins, BodyTried DEF PinsInv
<1>3. CASE CallGeneric  BY <1>3, CallGenericPins
<1>4. CASE FinishFunc  BY <1>4, FinishFuncPins
<1>5. CASE FinishInstance  BY <1>5, FinishInstancePins
<1>6. CASE EndWalk  BY <1>6, EndWalkPins
<1> QED  BY <1>1, <1>2, <1>3, <1>4, <1>5, <1>6 DEF Next

LEMMA PinsInvariant == Spec => [](TypeInv /\ CallsInv /\ PinsInv)
<1>1. Init => TypeInv /\ CallsInv /\ PinsInv  BY InitTypes, InitCalls, InitPins
<1>2. TypeInv /\ CallsInv /\ PinsInv /\ [Next]_vars => (TypeInv /\ CallsInv /\ PinsInv)'
  BY NextTypes, NextCalls, NextPins
<1> QED  BY <1>1, <1>2, PTL DEF Spec

(* Only a function mangled as the call is takes over a call that has its   *)
(* type.                                                                   *)
LEMMA CalleeSteps == TypeInv /\ CallsInv /\ PinsInv /\ [Next]_vars => [KeepsCallee]_funcs
<1> SUFFICES ASSUME TypeInv, CallsInv, PinsInv, Next, funcs' # funcs,
                    NEW i \in DOMAIN funcs, NEW s \in DOMAIN funcs[i].body,
                    funcs[i].body[s].fn # NoFunc, funcs[i].body[s].t # NoType,
                    (funcs')[i].body[s].callee # funcs[i].body[s].callee
             PROVE  /\ ~ Undisturbed(funcs[i].body[s])
                    /\ Signature((funcs')[(funcs')[i].body[s].callee])
                         = <<funcs[i].body[s].fn, TypesOf((funcs')[i].body[s].args)>>
  BY DEF KeepsCallee, vars
<1>1. ASSUME NEW st, Wrote(st)
      PROVE  /\ i = top.f /\ s = top.s /\ funcs[i].body[s] = stmt /\ (funcs')[i].body[s] = st
             /\ fun = funcs[i] /\ CalleesKept
  <2>1. /\ CalleesKept /\ fun = funcs[top.f] /\ stmt = fun.body[top.s]
        /\ \A j \in DOMAIN funcs : j # top.f => (funcs')[j] = funcs[j]
        /\ (funcs')[top.f].body[top.s] = st
        /\ \A k \in DOMAIN fun.body : k # top.s => (funcs')[top.f].body[k] = fun.body[k]
    BY <1>1, WroteFacts
  <2>2. i = top.f  BY <2>1
  <2>3. s = top.s  BY <2>1, <2>2
  <2> QED  BY <2>1, <2>2, <2>3
<1>2. CASE ReturnValue
  <2>1. PICK st : Wrote(st) /\ st.fn = NoFunc  BY <1>2, ReturnValueFacts
  <2>2. st.fn = stmt.fn  BY <2>1 DEF Wrote
  <2> QED  BY <1>1, <2>1, <2>2
<1>3. CASE CallExact
  <2>1. PICK st : /\ Wrote(st) /\ st.fn # NoFunc /\ st.args = callArgs
                  /\ exact \in DOMAIN symbols /\ st.callee = symbols[exact]
                  /\ st.callee \in DOMAIN funcs
                  /\ Signature(funcs[st.callee]) = exact
    BY <1>3, CallExactFacts
  <2>2. /\ i = top.f /\ s = top.s /\ funcs[i].body[s] = stmt /\ (funcs')[i].body[s] = st
        /\ fun = funcs[i] /\ CalleesKept
    BY <1>1, <2>1
  <2>3. exact = <<stmt.fn, TypesOf(st.args)>>  BY <2>1 DEF exact
  <2>4. Signature((funcs')[st.callee]) = exact  BY <2>1, <2>2, HeadsFacts DEF CalleesKept
  <2>5. Agrees(stmt, funcs, Placed) /\ ArgsTyped(stmt, fun)
    BY <2>2 DEF CallsInv, CallInv
  <2>6. InBody /\ stmt \in Statement /\ st \in Statement /\ stmt.fn \in Names /\ ArgsStay(stmt.args, st.args)
    <3>1. InBody /\ st \in Statement /\ ArgsStay(stmt.args, st.args)  BY <2>1 DEF Wrote
    <3>2. stmt \in Statement  BY <3>1, BodyFacts DEF TypeInv
    <3> QED  BY <2>2, <3>1, <3>2, StatementFields
  <2>7. ASSUME Alone(stmt.fn)  PROVE FALSE
    <3>1. stmt.callee \in Named(stmt.fn)  BY <2>5 DEF Agrees, Named
    <3>2. st.callee \in Named(stmt.fn)  BY <2>1, <2>3 DEF Signature, Named
    <3>3. Named(stmt.fn) = {stmt.callee}  BY <2>7, <3>1 DEF Alone
    <3> QED  BY <2>2, <3>2, <3>3
  <2>8. ASSUME Together(stmt.fn), Untouched(stmt)  PROVE FALSE
    <3>1. ArgsStay(stmt.args, stmt.args)  BY DEF ArgsStay
    <3>2. /\ TypesOf(callArgs) = WrittenTypes(stmt, fun)
          /\ TypesOf(stmt.args) = WrittenTypes(stmt, fun)
      BY <2>5, <2>6, <2>8, <3>1, WrittenArgs
    <3>3. exact = <<stmt.fn, TypesOf(stmt.args)>>  BY <3>2 DEF exact
    <3>4. PinnedCall(stmt, symbols)  BY <2>2, <2>6, <2>8 DEF PinsInv, PinInv
    <3>5. symbols[exact] = stmt.callee  BY <2>1, <2>8, <3>3, <3>4 DEF PinnedCall
    <3> QED  BY <2>1, <2>2, <3>5
  <2>9. ~ Undisturbed(stmt)  BY <2>7, <2>8 DEF Undisturbed
  <2> QED  BY <2>2, <2>3, <2>4, <2>9
<1>4. CASE CallKept
  <2>1. PICK st : Wrote(st) /\ st.callee = stmt.callee  BY <1>4, CallKeptFacts
  <2> QED  BY <1>1, <2>1
<1>5. CASE CallOverload
  <2>1. PICK st : Wrote(st) /\ stmt.t = NoType  BY <1>5, CallOverloadFacts
  <2> QED  BY <1>1, <2>1
<1>6. CASE NextOverload
  <2>1. PICK st : Wrote(st) /\ stmt.t = NoType  BY <1>6, NextOverloadFacts
  <2> QED  BY <1>1, <2>1
<1>7. CASE CallFails
  <2>1. PICK st : Wrote(st) /\ stmt.t = NoType  BY <1>7, CallFailsFacts
  <2> QED  BY <1>1, <2>1
<1>8. CASE CallGeneric
  <2>1. PICK g \in GenericFor, st \in Statement, copy \in Function :
          /\ InBody /\ GoodStatement(st, fun) /\ GoodFunction(copy)
          /\ funcs' = Append(SetStatement(st), copy)
    BY <1>8, CallGenericFacts, Zenon
  <2>2. /\ \A j \in DOMAIN funcs : j # top.f => (funcs')[j] = funcs[j]
        /\ (funcs')[top.f].body = [fun.body EXCEPT ![top.s] = st]
    BY <2>1, CopyAdded DEF TypeInv
  <2>3. fun = funcs[top.f] /\ fun \in Function /\ top.s \in DOMAIN fun.body /\ stmt = fun.body[top.s]
    BY <2>1, BodyFacts DEF TypeInv
  <2>4. Searching  BY <1>8 DEF CallGeneric, AllTried
  <2>5. stmt.t = NoType  BY <2>4, UntypedCall DEF TypeInv
  <2>6. i = top.f  BY <2>2
  <2>7. s # top.s  BY <2>3, <2>5, <2>6
  <2> DEFINE b == (funcs')[top.f].body
  <2>8. b = [fun.body EXCEPT ![top.s] = st]  BY <2>2
  <2> HIDE DEF b
  <2>9. b[s] = fun.body[s]  BY <2>3, <2>6, <2>7, <2>8
  <2> QED  BY <2>3, <2>6, <2>9 DEF b
<1>9. CASE FinishInstance
  <2> DEFINE g == Resolved(fun, FALSE)
  <2>1. g = Resolved(fun, FALSE)  OBVIOUS
  <2> HIDE DEF g
  <2>2. /\ \A j \in DOMAIN funcs : j # Caller.f => (funcs')[j].body = funcs[j].body
        /\ \A k \in DOMAIN funcs[Caller.f].body :
             k # Caller.s => (funcs')[Caller.f].body[k] = funcs[Caller.f].body[k]
    BY <1>9, <2>1, FinishInstanceFacts, Zenon
  <2>3. i = Caller.f /\ s = Caller.s  BY <2>2
  <2>4. Waiting.t = NoType
    BY <1>9, CallerFacts DEF FinishInstance, BodyDone, TypeInv
  <2> QED  BY <2>3, <2>4 DEF Waiting
<1>10. CASE FinishFunc
  <2> DEFINE g == Resolved(fun, pass = "register")
  <2>1. g = Resolved(fun, pass = "register")  OBVIOUS
  <2> HIDE DEF g
  <2>2. \A j \in DOMAIN funcs : (funcs')[j].body = funcs[j].body
    BY <1>10, <2>1, FinishFuncFacts
  <2> QED  BY <2>2
<1>11. CASE \/ RegisterFunc \/ RegisterGeneric \/ VisitFunc \/ SkipGeneric
            \/ GenericMismatch \/ GenericOverflow \/ EndWalk
  BY <1>11 DEF RegisterFunc, RegisterGeneric, VisitFunc, SkipGeneric, GenericMismatch,
               GenericOverflow, EndWalk
<1> QED  BY <1>2, <1>3, <1>4, <1>5, <1>6, <1>7, <1>8, <1>9, <1>10, <1>11 DEF Next

(* From one walk to the next a call keeps the function it calls: neither a *)
(* declaration that comes late nor a copy of a generic function takes it   *)
(* away, but for a call whose arguments its first overload has cast, and   *)
(* that one goes to a function declared with exactly their types.          *)
THEOREM CalleesStayPinned == Spec => CalleePinned
<1>1. TypeInv /\ CallsInv /\ PinsInv /\ [Next]_vars => [KeepsCallee]_funcs  BY CalleeSteps
<1> QED  BY <1>1, PinsInvariant, PTL DEF Spec, CalleePinned

-----------------------------------------------------------------------------
(* A deduced result is what one of the returns had when the function got   *)
(* its type, and that return has it still, if it is one of a value or of a *)
(* call nobody takes over.  In the last walk the returns have to go        *)
(* together, and all of them are known.                                    *)
LastingAt(i, s) ==
  \/ funcs[i].body[s].fn = NoFunc
  \/ \E n \in Names :
       funcs[i].body[s].fn = n /\ (Alone(n) \/ (Together(n) /\ Untouched(funcs[i].body[s])))

LastingReturns(i) == \A s \in Returns(funcs[i]) : LastingAt(i, s)

ValueOf(args) == IF args = <<>> THEN "void" ELSE args[1].t

ValueInv ==
  \A i \in DOMAIN funcs : \A s \in DOMAIN funcs[i].body :
    LET st == funcs[i].body[s] IN
    st.fn = NoFunc /\ st.t # NoType => ArgsTyped(st, funcs[i]) /\ st.t = ValueOf(st.args)

DeducedInv ==
  \A i \in DOMAIN funcs : funcs[i].typed /\ funcs[i].ret = NoType /\ LastingReturns(i) =>
    IF Returns(funcs[i]) = {} THEN funcs[i].result = "void"
    ELSE \E s \in Known(funcs[i]) : funcs[i].body[s].t = funcs[i].result

Joined(f) == f.typed /\ GoTogether(f)

JoinInv ==
  pass \in {"check", "accepted"} /\ errors = {} =>
    \A k \in DOMAIN order : \A j \in DOMAIN funcs :
      /\ order[k] = j /\ (k < next \/ pass = "accepted")
      /\ ~ IsGeneric(funcs[j]) /\ funcs[j].ret = NoType /\ LastingReturns(j)
      => Joined(funcs[j])

ResultsInv == ValueInv /\ DeducedInv /\ JoinInv

TypesLast ==
  \A i \in DOMAIN funcs : \A s \in DOMAIN funcs[i].body :
    funcs[i].body[s].t # NoType /\ LastingAt(i, s) => (funcs')[i].body[s].t = funcs[i].body[s].t

LEMMA StepWriting == TypeInv /\ CallsInv /\ [Next]_vars => WritingKept
<1> SUFFICES ASSUME TypeInv, CallsInv, [Next]_vars  PROVE WritingKept  OBVIOUS
<1>1. CASE ReturnValue  BY <1>1, ReturnValueFacts, WroteWriting
<1>2. CASE CallExact  BY <1>2, CallExactFacts, WroteWriting
<1>3. CASE CallKept  BY <1>3, CallKeptFacts, WroteWriting
<1>4. CASE CallOverload  BY <1>4, CallOverloadFacts, WroteWriting
<1>5. CASE NextOverload  BY <1>5, NextOverloadFacts, WroteWriting
<1>6. CASE CallFails  BY <1>6, CallFailsFacts, WroteWriting
<1>7. CASE CallGeneric  BY <1>7, CallGenericWriting
<1>8. CASE FinishFunc  BY <1>8, FinishFuncWriting
<1>9. CASE FinishInstance  BY <1>9, FinishInstanceWriting DEF CallsInv
<1>10. CASE \/ RegisterFunc \/ RegisterGeneric \/ VisitFunc \/ SkipGeneric
            \/ GenericMismatch \/ GenericOverflow \/ EndWalk \/ UNCHANGED vars
  <2>1. funcs' = funcs
    BY <1>10 DEF RegisterFunc, RegisterGeneric, VisitFunc, SkipGeneric, GenericMismatch,
                 GenericOverflow, EndWalk, vars
  <2> QED  BY <2>1, NothingWritten
<1> QED  BY <1>1, <1>2, <1>3, <1>4, <1>5, <1>6, <1>7, <1>8, <1>9, <1>10 DEF Next

LEMMA AloneBefore ==
  ASSUME WritingKept, NEW n \in Names, Alone(n)'
  PROVE  Alone(n)
<1>1. /\ DOMAIN funcs \subseteq DOMAIN funcs'
      /\ \A i \in DOMAIN funcs : IsGeneric((funcs')[i]) <=> IsGeneric(funcs[i])
      /\ \A i \in DOMAIN funcs : (funcs')[i].name = funcs[i].name
  BY HeadsFacts DEF WritingKept, HeadsKept
<1>2. Named(n) \subseteq Named(n)'  BY <1>1 DEF Named
<1>3. \A i \in Named(n)' : ~ IsGeneric((funcs')[i]) /\ Named(n)' = {i}  BY DEF Alone
<1>4. ASSUME NEW i \in Named(n)  PROVE ~ IsGeneric(funcs[i]) /\ Named(n) = {i}
  <2>1. i \in DOMAIN funcs  BY DEF Named
  <2> QED  BY <1>1, <1>2, <1>3, <2>1
<1> QED  BY <1>4 DEF Alone

LEMMA LastingBefore ==
  ASSUME TypeInv, WritingKept, NEW i \in DOMAIN funcs, NEW s \in DOMAIN funcs[i].body, LastingAt(i, s)'
  PROVE  LastingAt(i, s)
<1> DEFINE st == funcs[i].body[s]
           now == (funcs')[i].body[s]
<1>1. StaysAs(st, now)  BY DEF WritingKept, BodiesKept
<1>2. i \in DOMAIN funcs' /\ s \in DOMAIN (funcs')[i].body
  BY HeadsFacts DEF WritingKept, BodiesKept
<1>3. st \in Statement
  <2>1. funcs[i] \in Function  BY FuncsFacts DEF TypeInv
  <2> QED  BY <2>1, FunctionFields
<1>4. now \in Statement
  <2>1. (funcs')[i] \in Function  BY <1>2 DEF WritingKept, HeadsKept
  <2> QED  BY <1>2, <2>1, FunctionFields
<1>5. \/ now.fn = NoFunc
      \/ \E n \in Names : now.fn = n /\ (Alone(n)' \/ (Together(n)' /\ Untouched(now)))
  BY DEF LastingAt
<1> HIDE DEF st, now
<1>6. CASE now.fn = NoFunc  BY <1>1, <1>6 DEF StaysAs, LastingAt, st
<1>7. ASSUME NEW n \in Names, now.fn = n, Alone(n)' \/ (Together(n)' /\ Untouched(now))
      PROVE  LastingAt(i, s)
  <2>1. st.fn = n  BY <1>1, <1>7 DEF StaysAs
  <2>2. CASE Alone(n)'  BY <2>1, <2>2, AloneBefore DEF LastingAt, st
  <2>3. CASE Together(n)' /\ Untouched(now)
    <3>1. Together(n)  BY <2>3, TogetherBefore
    <3>2. ArgsStay(st.args, now.args)  BY <1>1 DEF StaysAs
    <3>3. DOMAIN now.args = DOMAIN st.args  BY <1>3, <1>4, <3>2, StatementFields DEF ArgsStay
    <3>4. Untouched(st)  BY <2>3, <3>2, <3>3 DEF Untouched, ArgsStay
    <3> QED  BY <2>1, <3>1, <3>4 DEF LastingAt, st
  <2> QED  BY <1>7, <2>2, <2>3
<1> QED  BY <1>5, <1>6, <1>7

LEMMA ReturnsBefore ==
  ASSUME TypeInv, WritingKept, NEW i \in DOMAIN funcs
  PROVE  /\ Returns((funcs')[i]) = Returns(funcs[i])
         /\ LastingReturns(i)' => LastingReturns(i)
<1>1. /\ DOMAIN (funcs')[i].body = DOMAIN funcs[i].body
      /\ \A s \in DOMAIN funcs[i].body : (funcs')[i].body[s].ret = funcs[i].body[s].ret
  BY DEF WritingKept, BodiesKept, StaysAs
<1>2. Returns((funcs')[i]) = Returns(funcs[i])  BY <1>1 DEF Returns
<1>3. ASSUME LastingReturns(i)'  PROVE LastingReturns(i)
  <2> SUFFICES ASSUME NEW s \in Returns(funcs[i])  PROVE LastingAt(i, s)
    BY DEF LastingReturns
  <2>1. LastingAt(i, s)'  BY <1>2, <1>3 DEF LastingReturns
  <2>2. s \in DOMAIN funcs[i].body  BY DEF Returns
  <2> QED  BY <2>1, <2>2, LastingBefore
<1> QED  BY <1>2, <1>3

(* The types of returns last.                                              *)
LEMMA StepLasts == TypeInv /\ CallsInv /\ PinsInv /\ ValueInv /\ [Next]_vars => TypesLast
<1> SUFFICES ASSUME TypeInv, CallsInv, PinsInv, ValueInv, [Next]_vars,
                    NEW i \in DOMAIN funcs, NEW s \in DOMAIN funcs[i].body,
                    funcs[i].body[s].t # NoType, LastingAt(i, s)
             PROVE  (funcs')[i].body[s].t = funcs[i].body[s].t
  BY DEF TypesLast
<1>1. ASSUME NEW st, Wrote(st), i = top.f => (s = top.s => st.t = stmt.t)
      PROVE  (funcs')[i].body[s].t = funcs[i].body[s].t
  <2>1. /\ fun = funcs[top.f] /\ stmt = fun.body[top.s]
        /\ \A j \in DOMAIN funcs : j # top.f => (funcs')[j] = funcs[j]
        /\ (funcs')[top.f].body[top.s] = st
        /\ \A k \in DOMAIN fun.body : k # top.s => (funcs')[top.f].body[k] = fun.body[k]
    BY <1>1, WroteFacts
  <2>2. CASE i = top.f /\ s = top.s  BY <1>1, <2>1, <2>2
  <2>3. CASE i = top.f /\ s # top.s  BY <2>1, <2>3
  <2>4. CASE i # top.f  BY <2>1, <2>4
  <2> QED  BY <2>2, <2>3, <2>4
<1>2. ASSUME NEW st, Wrote(st), stmt.t = NoType  PROVE (funcs')[i].body[s].t = funcs[i].body[s].t
  <2>1. fun = funcs[top.f] /\ stmt = fun.body[top.s]  BY <1>2, WroteFacts
  <2>2. ~ (i = top.f /\ s = top.s)  BY <1>2, <2>1
  <2> QED  BY <1>1, <1>2, <2>2
<1>3. CASE ReturnValue
  <2>1. PICK st : /\ Wrote(st) /\ st.fn = NoFunc /\ st.args = callArgs
                  /\ st.t = (IF callArgs = <<>> THEN "void" ELSE callArgs[1].t)
    BY <1>3, ReturnValueFacts
  <2>2. fun = funcs[top.f] /\ stmt = fun.body[top.s] /\ InBody /\ st.fn = stmt.fn
    BY <2>1, WroteFacts DEF Wrote
  <2>3. ASSUME i = top.f, s = top.s  PROVE st.t = stmt.t
    <3>1. ArgsTyped(stmt, fun) /\ stmt.t = ValueOf(stmt.args)
      BY <2>1, <2>2, <2>3 DEF ValueInv
    <3>2. /\ Len(callArgs) = Len(stmt.args) /\ callArgs \in Seq(Arg) /\ stmt.args \in Seq(Arg)
          /\ \A k \in DOMAIN stmt.args :
               IF stmt.args[k].lit \/ stmt.args[k].cast THEN callArgs[k].t = stmt.args[k].t
               ELSE callArgs[k].t = fun.params[stmt.args[k].v]
      <4>1. stmt.args \in Seq(Arg)  BY <2>2, BodyFacts, StatementFields DEF TypeInv
      <4> QED  BY <2>2, <4>1, TypedsFacts, Zenon DEF TypeInv, TypedArgs
    <3>3. \A k \in DOMAIN stmt.args : callArgs[k].t = stmt.args[k].t
      BY <3>1, <3>2 DEF ArgsTyped
    <3>4. CASE stmt.args = <<>>
      <4>1. callArgs = <<>>  BY <3>2, <3>4
      <4> QED  BY <2>1, <3>1, <3>4, <4>1 DEF ValueOf
    <3>5. CASE stmt.args # <<>>
      <4>1. callArgs # <<>> /\ 1 \in DOMAIN stmt.args  BY <3>2, <3>5
      <4> QED  BY <2>1, <3>1, <3>3, <3>5, <4>1 DEF ValueOf
    <3> QED  BY <3>4, <3>5
  <2> QED  BY <1>1, <2>1, <2>3
<1>4. CASE CallExact
  <2>1. PICK st : /\ Wrote(st) /\ st.fn # NoFunc
                  /\ st.callee \in DOMAIN funcs /\ st.t = funcs[st.callee].result
    BY <1>4, CallExactFacts
  <2>2. /\ fun = funcs[top.f] /\ stmt = fun.body[top.s] /\ st.fn = stmt.fn
        /\ (funcs')[top.f].body[top.s] = st
    BY <2>1, WroteFacts DEF Wrote
  <2>3. ASSUME i = top.f, s = top.s  PROVE st.t = stmt.t
    <3>1. Agrees(stmt, funcs, Placed)  BY <2>1, <2>2, <2>3 DEF CallsInv, CallInv
    <3>2. Undisturbed(stmt)  BY <2>1, <2>2, <2>3 DEF LastingAt, Undisturbed
    <3>3. [KeepsCallee]_funcs  BY CalleeSteps
    <3>4. st.callee = stmt.callee
      <4>1. CASE funcs' = funcs  BY <2>2, <4>1
      <4>2. CASE KeepsCallee  BY <2>1, <2>2, <2>3, <3>2, <4>2 DEF KeepsCallee
      <4> QED  BY <3>3, <4>1, <4>2
    <3> QED  BY <2>1, <3>1, <3>4 DEF Agrees
  <2> QED  BY <1>1, <2>1, <2>3
<1>5. CASE CallKept
  <2>1. PICK st : Wrote(st) /\ st.t = stmt.t  BY <1>5, CallKeptFacts
  <2> QED  BY <1>1, <2>1
<1>6. CASE CallOverload  BY <1>2, <1>6, CallOverloadFacts
<1>7. CASE NextOverload  BY <1>2, <1>7, NextOverloadFacts
<1>8. CASE CallFails  BY <1>2, <1>8, CallFailsFacts
<1>9. CASE CallGeneric  BY <1>9, CallGenericWriting
<1>10. CASE FinishInstance  BY <1>10, FinishInstanceWriting DEF CallsInv
<1>11. CASE FinishFunc
  <2>1. \A j \in DOMAIN funcs : (funcs')[j].body = funcs[j].body  BY <1>11, FinishFuncFacts
  <2> QED  BY <2>1
<1>12. CASE \/ RegisterFunc \/ RegisterGeneric \/ VisitFunc \/ SkipGeneric
            \/ GenericMismatch \/ GenericOverflow \/ EndWalk \/ UNCHANGED vars
  BY <1>12 DEF RegisterFunc, RegisterGeneric, VisitFunc, SkipGeneric, GenericMismatch,
               GenericOverflow, EndWalk, vars
<1> QED  BY <1>3, <1>4, <1>5, <1>6, <1>7, <1>8, <1>9, <1>10, <1>11, <1>12 DEF Next

LEMMA ValuesKept ==
  ASSUME ValueInv, WritingKept,
         \A i \in DOMAIN funcs' : \A s \in DOMAIN (funcs')[i].body :
           \/ (funcs')[i].body[s].fn # NoFunc
           \/ (funcs')[i].body[s].t = NoType
           \/ /\ ArgsTyped((funcs')[i].body[s], (funcs')[i])
              /\ (funcs')[i].body[s].t = ValueOf((funcs')[i].body[s].args)
           \/ /\ i \in DOMAIN funcs /\ s \in DOMAIN funcs[i].body
              /\ (funcs')[i].body[s] = funcs[i].body[s]
  PROVE  ValueInv'
<1> SUFFICES ASSUME NEW i \in DOMAIN funcs', NEW s \in DOMAIN (funcs')[i].body,
                    (funcs')[i].body[s].fn = NoFunc, (funcs')[i].body[s].t # NoType
             PROVE  /\ ArgsTyped((funcs')[i].body[s], (funcs')[i])
                    /\ (funcs')[i].body[s].t = ValueOf((funcs')[i].body[s].args)
  BY DEF ValueInv
<1>1. CASE /\ i \in DOMAIN funcs /\ s \in DOMAIN funcs[i].body
           /\ (funcs')[i].body[s] = funcs[i].body[s]
  <2> DEFINE st == funcs[i].body[s]
  <2>1. ArgsTyped(st, funcs[i]) /\ st.t = ValueOf(st.args)  BY <1>1 DEF ValueInv
  <2>2. (funcs')[i].params = funcs[i].params  BY <1>1 DEF WritingKept, HeadsKept
  <2>3. ArgsTyped(st, (funcs')[i])  BY <2>1, <2>2 DEF ArgsTyped
  <2>4. (funcs')[i].body[s] = st  BY <1>1
  <2> HIDE DEF st
  <2> QED  BY <2>1, <2>3, <2>4
<1> QED  BY <1>1

LEMMA WroteValue ==
  ASSUME TypeInv, ValueInv, NEW st, Wrote(st),
         \/ st.fn # NoFunc
         \/ ArgsTyped(st, fun) /\ st.t = ValueOf(st.args)
  PROVE  ValueInv'
<1>1. /\ DOMAIN funcs' = DOMAIN funcs
      /\ \A i \in DOMAIN funcs : i # top.f => (funcs')[i] = funcs[i]
      /\ \A i \in DOMAIN funcs : SameHead(funcs[i], (funcs')[i])
      /\ DOMAIN (funcs')[top.f].body = DOMAIN fun.body
      /\ (funcs')[top.f].body[top.s] = st
      /\ \A s \in DOMAIN fun.body : s # top.s => (funcs')[top.f].body[s] = fun.body[s]
      /\ top.f \in DOMAIN funcs /\ fun = funcs[top.f]
  BY WroteFacts
<1>2. WritingKept  BY WroteWriting
<1>3. ASSUME NEW i \in DOMAIN funcs', NEW s \in DOMAIN (funcs')[i].body
      PROVE  \/ (funcs')[i].body[s].fn # NoFunc
             \/ /\ ArgsTyped((funcs')[i].body[s], (funcs')[i])
                /\ (funcs')[i].body[s].t = ValueOf((funcs')[i].body[s].args)
             \/ /\ i \in DOMAIN funcs /\ s \in DOMAIN funcs[i].body
                /\ (funcs')[i].body[s] = funcs[i].body[s]
  <2>1. CASE i # top.f  BY <1>1, <1>3, <2>1
  <2>2. CASE i = top.f /\ s # top.s  BY <1>1, <1>3, <2>2
  <2>3. CASE i = top.f /\ s = top.s
    <3>1. (funcs')[i].body[s] = st /\ (funcs')[i].params = fun.params
      BY <1>1, <2>3 DEF SameHead
    <3>2. CASE ArgsTyped(st, fun) /\ st.t = ValueOf(st.args)
      <4>1. ArgsTyped(st, (funcs')[i])  BY <3>1, <3>2 DEF ArgsTyped
      <4> QED  BY <3>1, <3>2, <4>1
    <3> QED  BY <3>1, <3>2
  <2> QED  BY <2>1, <2>2, <2>3
<1> QED  BY <1>2, <1>3, ValuesKept

LEMMA StepValues == TypeInv /\ CallsInv /\ ValueInv /\ [Next]_vars => ValueInv'
<1> SUFFICES ASSUME TypeInv, CallsInv, ValueInv, [Next]_vars  PROVE ValueInv'  OBVIOUS
<1>1. WritingKept  BY StepWriting
<1>2. CASE ReturnValue
  <2>1. PICK st : /\ Wrote(st) /\ st.args = callArgs
                  /\ st.t = (IF callArgs = <<>> THEN "void" ELSE callArgs[1].t)
    BY <1>2, ReturnValueFacts
  <2>2. InBody  BY <2>1 DEF Wrote
  <2>3. KeepsArgs(callArgs, st.args)  BY <2>1, <2>2, CallArgsStay
  <2>4. ArgsTyped(st, fun)  BY <2>2, <2>3, KeptArgsStayTyped
  <2>5. st.t = ValueOf(st.args)  BY <2>1 DEF ValueOf
  <2> QED  BY <2>1, <2>4, <2>5, WroteValue
<1>3. CASE CallExact  BY <1>3, CallExactFacts, WroteValue
<1>4. CASE CallKept  BY <1>4, CallKeptFacts, WroteValue
<1>5. CASE CallOverload  BY <1>5, CallOverloadFacts, WroteValue
<1>6. CASE NextOverload
  <2>1. PICK st : Wrote(st) /\ Comparing  BY <1>6, NextOverloadFacts
  <2>2. st.fn # NoFunc  BY <2>1 DEF Comparing, Searching, Wrote
  <2> QED  BY <2>1, <2>2, WroteValue
<1>7. CASE CallFails  BY <1>7, CallFailsFacts, WroteValue
<1>8. \A i \in DOMAIN funcs : DOMAIN (funcs')[i].body = DOMAIN funcs[i].body
  BY <1>1 DEF WritingKept, BodiesKept
<1>9. CASE CallGeneric
  <2>1. /\ \A i \in DOMAIN funcs : \A s \in DOMAIN funcs[i].body :
             (funcs')[i].body[s] = funcs[i].body[s] \/ (funcs')[i].body[s].t = NoType
        /\ \A i \in DOMAIN funcs' : i \notin DOMAIN funcs =>
             \A s \in DOMAIN (funcs')[i].body : (funcs')[i].body[s].t = NoType
    BY <1>9, CallGenericWriting
  <2> QED  BY <1>1, <1>8, <2>1, ValuesKept
<1>10. CASE FinishInstance
  <2>1. /\ DOMAIN funcs' = DOMAIN funcs
        /\ \A i \in DOMAIN funcs : \A s \in DOMAIN funcs[i].body :
             (funcs')[i].body[s] = funcs[i].body[s] \/ (funcs')[i].body[s].fn # NoFunc
    BY <1>10, FinishInstanceWriting DEF CallsInv
  <2> QED  BY <1>1, <1>8, <2>1, ValuesKept
<1>11. CASE FinishFunc
  <2>1. DOMAIN funcs' = DOMAIN funcs /\ \A i \in DOMAIN funcs : (funcs')[i].body = funcs[i].body
    BY <1>11, FinishFuncFacts
  <2> QED  BY <1>1, <2>1, ValuesKept
<1>12. CASE \/ RegisterFunc \/ RegisterGeneric \/ VisitFunc \/ SkipGeneric
            \/ GenericMismatch \/ GenericOverflow \/ EndWalk \/ UNCHANGED vars
  BY <1>12 DEF RegisterFunc, RegisterGeneric, VisitFunc, SkipGeneric, GenericMismatch,
               GenericOverflow, EndWalk, vars, ValueInv
<1> QED  BY <1>2, <1>3, <1>4, <1>5, <1>6, <1>7, <1>9, <1>10, <1>11, <1>12 DEF Next

(* What a function with a type was, or what gives it its type.             *)
Typing(i) ==
  \/ funcs[i].typed /\ (funcs')[i].result = funcs[i].result
  \/ /\ (funcs')[i].body = funcs[i].body
     /\ (funcs')[i].result # NoType /\ (funcs')[i].result = ResultType(funcs[i])

LEMMA StepTypings == TypeInv /\ CallsInv /\ [Next]_vars =>
                       \A i \in DOMAIN funcs' : (funcs')[i].typed => i \in DOMAIN funcs /\ Typing(i)
<1> SUFFICES ASSUME TypeInv, CallsInv, [Next]_vars, NEW i \in DOMAIN funcs', (funcs')[i].typed
             PROVE  i \in DOMAIN funcs /\ Typing(i)
  OBVIOUS
<1>1. ASSUME NEW st, Wrote(st)  PROVE i \in DOMAIN funcs /\ Typing(i)
  <2>1. DOMAIN funcs' = DOMAIN funcs /\ \A j \in DOMAIN funcs : SameHead(funcs[j], (funcs')[j])
    BY <1>1, WroteFacts
  <2> QED  BY <2>1 DEF Typing, SameHead
<1>2. CASE ReturnValue  BY <1>1, <1>2, ReturnValueFacts
<1>3. CASE CallExact  BY <1>1, <1>3, CallExactFacts
<1>4. CASE CallKept  BY <1>1, <1>4, CallKeptFacts
<1>5. CASE CallOverload  BY <1>1, <1>5, CallOverloadFacts
<1>6. CASE NextOverload  BY <1>1, <1>6, NextOverloadFacts
<1>7. CASE CallFails  BY <1>1, <1>7, CallFailsFacts
<1>8. CASE CallGeneric
  <2>1. /\ \A j \in DOMAIN funcs : SameHead(funcs[j], (funcs')[j])
        /\ i \notin DOMAIN funcs => ~ (funcs')[i].typed
    BY <1>8, CallGenericWriting
  <2> QED  BY <2>1 DEF Typing, SameHead
<1>9. ASSUME NEW g, (funcs')[top.f] = g, g.body = fun.body, fun = funcs[top.f], top.f \in DOMAIN funcs,
             fun.typed => g.typed /\ g.result = fun.result,
             ~ fun.typed /\ g.typed => g.result = ResultType(fun), g.typed => g.result # NoType,
             DOMAIN funcs' = DOMAIN funcs,
             \A j \in DOMAIN funcs : j # top.f => SameHead(funcs[j], (funcs')[j])
      PROVE  i \in DOMAIN funcs /\ Typing(i)
  <2>1. CASE i = top.f  BY <1>9, <2>1 DEF Typing
  <2>2. CASE i # top.f  BY <1>9, <2>2 DEF Typing, SameHead
  <2> QED  BY <1>9, <2>1, <2>2
<1>10. CASE FinishFunc
  <2> DEFINE g == Resolved(fun, pass = "register")
  <2>1. g = Resolved(fun, pass = "register")  OBVIOUS
  <2> HIDE DEF g
  <2>2. /\ (funcs')[top.f] = g /\ g.body = fun.body /\ fun = funcs[top.f] /\ top.f \in DOMAIN funcs
        /\ fun.typed => g.typed /\ g.result = fun.result
        /\ ~ fun.typed /\ g.typed => g.result = ResultType(fun)
        /\ GoodFunction(g) /\ DOMAIN funcs' = DOMAIN funcs
        /\ \A j \in DOMAIN funcs : j # top.f => (funcs')[j] = funcs[j]
    BY <1>10, <2>1, FinishFuncFacts
  <2>3. g.typed => g.result # NoType  BY <2>2, Zenon DEF GoodFunction
  <2>4. \A j \in DOMAIN funcs : j # top.f => SameHead(funcs[j], (funcs')[j])
    BY <2>2 DEF SameHead
  <2> QED  BY <1>9, <2>2, <2>3, <2>4
<1>11. CASE FinishInstance
  <2> DEFINE g == Resolved(fun, FALSE)
  <2>1. g = Resolved(fun, FALSE)  OBVIOUS
  <2> HIDE DEF g
  <2>2. /\ fun.typed => g.typed /\ g.result = fun.result
        /\ ~ fun.typed /\ g.typed => g.result = ResultType(fun)
        /\ GoodFunction(g)
    BY <1>11, <2>1, FinishInstanceFacts
  <2>3. /\ (funcs')[top.f] = g /\ g.body = fun.body /\ fun = funcs[top.f] /\ top.f \in DOMAIN funcs
        /\ DOMAIN funcs' = DOMAIN funcs
        /\ \A j \in DOMAIN funcs : j # top.f => SameHead(funcs[j], (funcs')[j])
    BY <1>11, <2>1, FinishInstanceWriting DEF CallsInv
  <2>4. g.typed => g.result # NoType  BY <2>2, Zenon DEF GoodFunction
  <2> QED  BY <1>9, <2>2, <2>3, <2>4
<1>12. CASE \/ RegisterFunc \/ RegisterGeneric \/ VisitFunc \/ SkipGeneric
            \/ GenericMismatch \/ GenericOverflow \/ EndWalk \/ UNCHANGED vars
  BY <1>12 DEF RegisterFunc, RegisterGeneric, VisitFunc, SkipGeneric, GenericMismatch,
               GenericOverflow, EndWalk, vars, Typing
<1> QED  BY <1>2, <1>3, <1>4, <1>5, <1>6, <1>7, <1>8, <1>10, <1>11, <1>12 DEF Next

LEMMA StepDeduced ==
  TypeInv /\ CallsInv /\ PinsInv /\ ValueInv /\ DeducedInv /\ [Next]_vars => DeducedInv'
<1> SUFFICES ASSUME TypeInv, CallsInv, PinsInv, ValueInv, DeducedInv, [Next]_vars,
                    NEW i \in DOMAIN funcs', (funcs')[i].typed, (funcs')[i].ret = NoType,
                    LastingReturns(i)'
             PROVE  IF Returns((funcs')[i]) = {} THEN (funcs')[i].result = "void"
                    ELSE \E s \in Known((funcs')[i]) : (funcs')[i].body[s].t = (funcs')[i].result
  BY DEF DeducedInv
<1>1. WritingKept /\ TypesLast  BY StepWriting, StepLasts
<1>2. i \in DOMAIN funcs /\ Typing(i)  BY StepTypings
<1>3. Returns((funcs')[i]) = Returns(funcs[i]) /\ LastingReturns(i) /\ funcs[i].ret = NoType
  BY <1>1, <1>2, ReturnsBefore DEF WritingKept, BodiesKept
<1>4. CASE funcs[i].typed /\ (funcs')[i].result = funcs[i].result
  <2>1. CASE Returns(funcs[i]) = {}  BY <1>2, <1>3, <1>4, <2>1 DEF DeducedInv
  <2>2. CASE Returns(funcs[i]) # {}
    <3>1. PICK s \in Known(funcs[i]) : funcs[i].body[s].t = funcs[i].result
      BY <1>2, <1>3, <1>4, <2>2 DEF DeducedInv
    <3>2. s \in Returns(funcs[i]) /\ s \in DOMAIN funcs[i].body /\ funcs[i].body[s].t # NoType
      BY DEF Known, Returns
    <3>3. LastingAt(i, s)  BY <1>3, <3>2 DEF LastingReturns
    <3>4. (funcs')[i].body[s].t = funcs[i].body[s].t  BY <1>1, <1>2, <3>2, <3>3 DEF TypesLast
    <3>5. s \in Known((funcs')[i])  BY <1>3, <3>2, <3>4 DEF Known
    <3> QED  BY <1>3, <1>4, <2>2, <3>1, <3>4, <3>5
  <2> QED  BY <2>1, <2>2
<1>5. CASE /\ (funcs')[i].body = funcs[i].body
           /\ (funcs')[i].result # NoType /\ (funcs')[i].result = ResultType(funcs[i])
  <2>1. (funcs')[i].result = Deduction(funcs[i])  BY <1>3, <1>5 DEF ResultType
  <2>2. CASE Returns(funcs[i]) = {}  BY <1>3, <2>1, <2>2 DEF Deduction
  <2>3. CASE Returns(funcs[i]) # {}
    <3>1. funcs[i] \in Function  BY <1>2, FuncsFacts DEF TypeInv
    <3>2. /\ Max(Known(funcs[i])) \in Known(funcs[i])
          /\ Deduction(funcs[i]) = funcs[i].body[Max(Known(funcs[i]))].t
      BY <1>5, <2>1, <2>3, <3>1, DeductionFacts
    <3>3. Known((funcs')[i]) = Known(funcs[i])  BY <1>3, <1>5 DEF Known
    <3> QED  BY <1>3, <1>5, <2>1, <2>3, <3>2, <3>3
  <2> QED  BY <2>2, <2>3
<1> QED  BY <1>2, <1>4, <1>5 DEF Typing

LEMMA JoinedStays ==
  ASSUME TypeInv, WritingKept, TypesLast, NEW j \in DOMAIN funcs, LastingReturns(j),
         TypedTo(funcs[j], Len(funcs[j].body)), Joined(funcs[j])
  PROVE  Joined((funcs')[j])
<1>1. (funcs')[j].typed  BY DEF Joined, WritingKept, HeadsKept
<1>2. Returns((funcs')[j]) = Returns(funcs[j])  BY ReturnsBefore
<1>3. ASSUME NEW s \in Returns(funcs[j])
      PROVE  funcs[j].body[s].t # NoType /\ (funcs')[j].body[s].t = funcs[j].body[s].t
  <2>1. s \in DOMAIN funcs[j].body  BY DEF Returns
  <2>2. s <= Len(funcs[j].body)
    <3>1. funcs[j] \in Function  BY FuncsFacts DEF TypeInv
    <3> QED  BY <2>1, <3>1, FunctionFields
  <2>3. funcs[j].body[s].t # NoType  BY <2>1, <2>2 DEF TypedTo
  <2>4. LastingAt(j, s)  BY DEF LastingReturns
  <2> QED  BY <2>1, <2>3, <2>4 DEF TypesLast
<1>4. Known((funcs')[j]) = Known(funcs[j])  BY <1>2, <1>3 DEF Known
<1>5. \A s \in Known(funcs[j]) : (funcs')[j].body[s].t = funcs[j].body[s].t
  BY <1>3 DEF Known
<1>6. GoTogether((funcs')[j])  BY <1>4, <1>5 DEF Joined, GoTogether
<1> QED  BY <1>1, <1>6 DEF Joined

(* What the last walk has left stays as it is.                             *)
LEMMA JoinKept ==
  ASSUME TypeInv, CallsInv, JoinInv, WritingKept, TypesLast, errors \subseteq errors',
         pass = "check" /\ pass' = "check",
         \A k \in DOMAIN order' : \A j \in DOMAIN funcs' :
           /\ (order')[k] = j /\ k < next'
           /\ ~ IsGeneric((funcs')[j]) /\ (funcs')[j].ret = NoType /\ errors' = {}
           => \/ k \in DOMAIN order /\ order[k] = j /\ k < next
              \/ j \in DOMAIN funcs /\ Joined((funcs')[j])
  PROVE  JoinInv'
<1> SUFFICES ASSUME errors' = {}, NEW k \in DOMAIN order', NEW j \in DOMAIN funcs',
                    (order')[k] = j, k < next',
                    ~ IsGeneric((funcs')[j]), (funcs')[j].ret = NoType, LastingReturns(j)'
             PROVE  Joined((funcs')[j])
  BY DEF JoinInv
<1>1. CASE k \in DOMAIN order /\ order[k] = j /\ k < next
  <2>1. errors = {}  OBVIOUS
  <2>2. j \in DOMAIN funcs
    <3>1. order \in Seq(DOMAIN funcs)  BY DEF TypeInv, TablesInv
    <3> QED  BY <1>1, <3>1
  <2>3. ~ IsGeneric(funcs[j]) /\ funcs[j].ret = NoType
    BY <2>2, HeadsFacts DEF WritingKept, HeadsKept, BodiesKept
  <2>4. LastingReturns(j)  BY <2>2, ReturnsBefore
  <2>5. Joined(funcs[j])  BY <1>1, <2>1, <2>2, <2>3, <2>4 DEF JoinInv
  <2>6. TypedTo(funcs[j], Len(funcs[j].body))  BY <1>1, <2>2, <2>3 DEF CallsInv, CheckInv
  <2> QED  BY <2>2, <2>4, <2>5, <2>6, JoinedStays
<1> QED  BY <1>1

(* The body of the function the walk leaves is typed while no error is.    *)
LEMMA FinishedTyped ==
  ASSUME TypeInv, CallsInv, FinishFunc, pass = "check", errors = {}
  PROVE  TypedTo(fun, Len(fun.body))
<1> DEFINE g == Resolved(fun, pass = "register")
<1>1. g = Resolved(fun, pass = "register")  OBVIOUS
<1> HIDE DEF g
<1>2. /\ Visiting /\ top.f \in DOMAIN funcs /\ fun = funcs[top.f] /\ top.s > Len(fun.body)
      /\ Len(stack) = 1 /\ top = stack[1]
  BY <1>1, FinishFuncFacts
<1>3. top.s \in Nat /\ 1 \in DOMAIN stack  BY <1>2, StackFacts DEF TypeInv
<1>4. TypedTo(fun, top.s - 1)  BY <1>2, <1>3 DEF CallsInv, CheckInv
<1>5. DOMAIN fun.body = 1 .. Len(fun.body) /\ Len(fun.body) \in Nat
  BY <1>2, FuncsFacts, FunctionFields DEF TypeInv
<1>6. \A s \in DOMAIN fun.body : s <= top.s - 1  BY <1>2, <1>3, <1>5
<1> QED  BY <1>4, <1>6 DEF TypedTo

LEMMA JoinSame ==
  ASSUME TypeInv, JoinInv, UNCHANGED <<funcs, order, errors>>,
         pass' \in {"check", "accepted"} =>
           \A k \in DOMAIN order :
             (k < next' \/ pass' = "accepted") /\ ~ IsGeneric(funcs[order[k]])
             => pass \in {"check", "accepted"} /\ (k < next \/ pass = "accepted")
  PROVE  JoinInv'
<1>1. WritingKept  BY NothingWritten
<1> SUFFICES ASSUME pass' \in {"check", "accepted"}, errors = {},
                    NEW k \in DOMAIN order, NEW j \in DOMAIN funcs,
                    order[k] = j, k < next' \/ pass' = "accepted",
                    ~ IsGeneric(funcs[j]), funcs[j].ret = NoType, LastingReturns(j)'
             PROVE  Joined(funcs[j])
  BY DEF JoinInv
<1>2. LastingReturns(j)  BY <1>1, ReturnsBefore
<1> QED  BY <1>2 DEF JoinInv

LEMMA JoinInBody ==
  ASSUME TypeInv, CallsInv, JoinInv, WritingKept, TypesLast, Visiting, errors \subseteq errors',
         order' = order /\ next' = next, pass' = pass \/ pass' = "crashed"
  PROVE  JoinInv'
<1>1. pass \in Walks  BY StackFacts DEF TypeInv
<1>2. CASE pass' = "check"
  <2>1. pass = "check" /\ pass' = "check"  BY <1>2
  <2>2. \A k \in DOMAIN order' : \A j \in DOMAIN funcs' :
          (order')[k] = j /\ k < next' => k \in DOMAIN order /\ order[k] = j /\ k < next
    OBVIOUS
  <2> QED  BY <2>1, <2>2, JoinKept
<1>3. CASE pass' # "check"
  <2>1. pass' \notin {"check", "accepted"}  BY <1>1, <1>3 DEF Walks
  <2> QED  BY <2>1 DEF JoinInv
<1> QED  BY <1>2, <1>3

LEMMA FinishFuncJoins == TypeInv /\ CallsInv /\ JoinInv /\ TypesLast /\ FinishFunc => JoinInv'
<1> SUFFICES ASSUME TypeInv, CallsInv, JoinInv, TypesLast, FinishFunc  PROVE JoinInv'
  OBVIOUS
<1> DEFINE g == Resolved(fun, pass = "register")
<1>1. g = Resolved(fun, pass = "register")  OBVIOUS
<1> HIDE DEF g
<1>2. /\ Visiting /\ top.f \in DOMAIN funcs /\ fun = funcs[top.f] /\ fun \in Function
      /\ top.f = order[next] /\ next \in DOMAIN order
      /\ ResolveFuncType(fun, g)
      /\ g.body = fun.body /\ g.ret = fun.ret
      /\ fun.typed => g.typed
      /\ ~ fun.typed /\ ~ g.typed => pass = "register" \/ ResultType(fun) = NoType
      /\ DOMAIN funcs' = DOMAIN funcs /\ (funcs')[top.f] = g
      /\ next' = next + 1
      /\ UNCHANGED <<order, pass>>
  BY <1>1, FinishFuncFacts
<1>3. pass \in Walks  BY <1>2, StackFacts DEF TypeInv
<1>4. errors \subseteq errors' /\ (BadResult(fun) /\ pass = "check" => errors' # {})
  <2>1. errors \subseteq errors'  BY <1>2, FailFacts DEF ResolveFuncType
  <2>2. BadResult(fun) /\ pass = "check" => errors' # {}
    BY <1>2 DEF ResolveFuncType, Fail, Checking
  <2> QED  BY <2>1, <2>2
<1>5. WritingKept  BY FinishFuncWriting
<1>6. CASE pass = "check"
  <2>1. ASSUME errors' = {}, g.ret = NoType  PROVE Joined(g)
    <3>1. ~ BadResult(fun)  BY <1>4, <1>6, <2>1
    <3>2. GoTogether(fun)  BY <1>2, <2>1, <3>1 DEF BadResult
    <3>3. GoTogether(g)
      <4>1. g.body = fun.body  BY <1>2
      <4>2. Known(g) = Known(fun)  BY <4>1 DEF Known, Returns
      <4> QED  BY <3>2, <4>1, <4>2 DEF GoTogether
    <3>4. TypedTo(fun, Len(fun.body))
      <4>1. errors = {}  BY <1>4, <2>1
      <4> QED  BY <1>6, <4>1, FinishedTyped
    <3>5. g.typed
      <4>1. ResultType(fun) # NoType  BY <1>2, <3>1, <3>4, GoodResult
      <4>2. (fun.typed => g.typed) /\ (~ fun.typed /\ ~ g.typed => FALSE)  BY <1>2, <1>6, <4>1
      <4> QED  BY <4>2, Zenon
    <3> QED  BY <3>3, <3>5 DEF Joined
  <2>2. order \in Seq(DOMAIN funcs) /\ next \in Nat  BY DEF TypeInv, TablesInv, WalkInv
  <2>3. \A k \in DOMAIN order' : \A j \in DOMAIN funcs' :
          /\ (order')[k] = j /\ k < next'
          /\ ~ IsGeneric((funcs')[j]) /\ (funcs')[j].ret = NoType /\ errors' = {}
          => \/ k \in DOMAIN order /\ order[k] = j /\ k < next
             \/ j \in DOMAIN funcs /\ Joined((funcs')[j])
    <3> SUFFICES ASSUME NEW k \in DOMAIN order, NEW j \in DOMAIN funcs,
                        order[k] = j, k < next + 1, ~ (k < next), (funcs')[j].ret = NoType, errors' = {}
                 PROVE  Joined((funcs')[j])
      BY <1>2
    <3>1. k = next
      <4>1. k \in Nat  BY <2>2
      <4> QED  BY <2>2, <4>1
    <3>2. j = top.f  BY <1>2, <3>1
    <3> QED  BY <1>2, <2>1, <3>2
  <2> QED  BY <1>2, <1>4, <1>5, <1>6, <2>3, JoinKept
<1>7. CASE pass # "check"
  <2>1. pass' \notin {"check", "accepted"}  BY <1>2, <1>3, <1>7 DEF Walks
  <2> QED  BY <2>1 DEF JoinInv
<1> QED  BY <1>6, <1>7

LEMMA FinishInstanceJoins ==
  TypeInv /\ CallsInv /\ JoinInv /\ TypesLast /\ FinishInstance => JoinInv'
<1> SUFFICES ASSUME TypeInv, CallsInv, JoinInv, TypesLast, FinishInstance  PROVE JoinInv'
  OBVIOUS
<1> DEFINE g == Resolved(fun, FALSE)
<1>1. g = Resolved(fun, FALSE)  OBVIOUS
<1> HIDE DEF g
<1>2. /\ DOMAIN order' = 1 .. Len(order) + 1 /\ DOMAIN order = 1 .. Len(order) /\ Len(order) \in Nat
      /\ \A k \in DOMAIN order : (order')[k] = order[k]
      /\ errors \subseteq errors' /\ next' = next
  BY <1>1, FinishInstanceFacts
<1>3. WritingKept  BY FinishInstanceWriting, Zenon DEF CallsInv
<1>4. Visiting /\ (pass' = pass \/ pass' = "crashed")
  BY DEF FinishInstance, BodyDone
<1>5. pass \in Walks  BY <1>4, StackFacts DEF TypeInv
<1>6. CASE pass' = "check"
  <2>1. pass = "check"  BY <1>4, <1>6
  <2>2. next \in Nat /\ next <= Len(order)
    <3>1. next <= Len(order)  BY <1>4, StackFacts DEF TypeInv
    <3> QED  BY <3>1 DEF TypeInv, WalkInv
  <2>3. \A k \in DOMAIN order' : k < next' => k \in DOMAIN order  BY <1>2, <2>2
  <2>4. \A k \in DOMAIN order' : \A j \in DOMAIN funcs' :
          (order')[k] = j /\ k < next' => k \in DOMAIN order /\ order[k] = j /\ k < next
    BY <1>2, <2>3
  <2> QED  BY <1>2, <1>3, <1>6, <2>1, <2>4, JoinKept
<1>7. CASE pass' # "check"
  <2>1. pass' \notin {"check", "accepted"}  BY <1>4, <1>5, <1>7 DEF Walks
  <2> QED  BY <2>1 DEF JoinInv
<1> QED  BY <1>6, <1>7

LEMMA EndWalkJoins == TypeInv /\ JoinInv /\ EndWalk => JoinInv'
<1> SUFFICES ASSUME TypeInv, JoinInv, EndWalk  PROVE JoinInv'  OBVIOUS
<1>1. /\ AtEnd /\ UNCHANGED <<funcs, order, errors>> /\ next' = 1
      /\ pass' = "accepted" => pass = "check"
  BY DEF EndWalk
<1>2. order \in Seq(DOMAIN funcs) /\ next \in Nat /\ next > Len(order)
  BY <1>1 DEF AtEnd, TypeInv, TablesInv, WalkInv
<1>3. \A k \in DOMAIN order : k < next /\ ~ (k < next')  BY <1>1, <1>2
<1> QED  BY <1>1, <1>3, JoinSame

LEMMA NextResults ==
  TypeInv /\ CallsInv /\ PinsInv /\ ResultsInv /\ [Next]_vars => ResultsInv'
<1> SUFFICES ASSUME TypeInv, CallsInv, PinsInv, ResultsInv, [Next]_vars  PROVE ResultsInv'
  OBVIOUS
<1>1. ValueInv /\ DeducedInv /\ JoinInv  BY DEF ResultsInv
<1>2. ValueInv' /\ DeducedInv'  BY <1>1, StepValues, StepDeduced
<1> SUFFICES JoinInv'  BY <1>2 DEF ResultsInv
<1>3. WritingKept /\ TypesLast  BY <1>1, StepWriting, StepLasts
<1>4. ASSUME NEW st, Wrote(st), errors \subseteq errors', order' = order, next' = next,
             pass' = pass \/ Leaves
      PROVE  JoinInv'
  <2>1. Visiting  BY <1>4 DEF Wrote, InBody
  <2>2. pass' = pass \/ pass' = "crashed"  BY <1>4 DEF Leaves
  <2> QED  BY <1>1, <1>3, <1>4, <2>1, <2>2, JoinInBody
<1>5. CASE ReturnValue
  <2>1. PICK st : Wrote(st)  BY <1>5, ReturnValueFacts
  <2> QED  BY <1>4, <1>5, <2>1 DEF ReturnValue, walk
<1>6. CASE CallExact
  <2>1. PICK st : Wrote(st) /\ Leaves  BY <1>6, CallExactFacts
  <2> QED  BY <1>4, <1>6, <2>1 DEF CallExact
<1>7. CASE CallKept
  <2>1. PICK st : Wrote(st) /\ Leaves  BY <1>7, CallKeptFacts
  <2> QED  BY <1>4, <1>7, <2>1 DEF CallKept
<1>8. CASE CallOverload
  <2>1. PICK st : Wrote(st) /\ Leaves  BY <1>8, CallOverloadFacts
  <2> QED  BY <1>4, <1>8, <2>1 DEF CallOverload
<1>9. CASE NextOverload
  <2>1. PICK st : Wrote(st)  BY <1>9, NextOverloadFacts
  <2> QED  BY <1>4, <1>9, <2>1 DEF NextOverload, walk
<1>10. CASE CallFails
  <2>1. PICK st : Wrote(st) /\ Leaves /\ Fail(TRUE)  BY <1>10, CallFailsFacts
  <2>2. errors \subseteq errors'  BY <2>1 DEF Fail
  <2> QED  BY <1>4, <1>10, <2>1, <2>2 DEF CallFails
<1>11. CASE CallGeneric
  <2>1. Visiting /\ order' = order /\ pass' = pass /\ next' = next /\ errors' = errors
    BY <1>11 DEF CallGeneric, AllTried, Searching, InBody, walk
  <2> QED  BY <1>1, <1>3, <2>1, JoinInBody
<1>12. CASE GenericMismatch \/ GenericOverflow
  <2>1. pass' \in {"aborted", "overflow"}  BY <1>12 DEF GenericMismatch, GenericOverflow
  <2> QED  BY <2>1 DEF JoinInv
<1>13. CASE RegisterFunc \/ RegisterGeneric \/ VisitFunc \/ SkipGeneric
  <2>1. /\ AtChild /\ UNCHANGED <<funcs, order, pass, errors>>
        /\ \/ pass = "register"
           \/ next' = next
           \/ next' = next + 1 /\ IsGeneric(child)
    BY <1>13 DEF RegisterFunc, RegisterGeneric, VisitFunc, SkipGeneric, walk
  <2>2. pass \in Walks /\ child = funcs[order[next]]  BY <2>1, ChildFacts
  <2>3. order \in Seq(DOMAIN funcs) /\ next \in Nat  BY DEF TypeInv, TablesInv, WalkInv
  <2>4. ASSUME pass' \in {"check", "accepted"}, NEW k \in DOMAIN order, k < next' \/ pass' = "accepted",
               ~ IsGeneric(funcs[order[k]])
        PROVE  pass \in {"check", "accepted"} /\ (k < next \/ pass = "accepted")
    <3>1. pass = "check" /\ k < next'  BY <2>1, <2>2, <2>4 DEF Walks
    <3>2. next' = next \/ (next' = next + 1 /\ k # next)  BY <2>1, <2>2, <2>4, <3>1
    <3>3. k \in Nat  BY <2>3
    <3>4. k < next  BY <2>3, <3>1, <3>2, <3>3
    <3> QED  BY <3>1, <3>4
  <2> QED  BY <1>1, <2>1, <2>4, JoinSame
<1>14. CASE FinishFunc  BY <1>1, <1>3, <1>14, FinishFuncJoins
<1>15. CASE FinishInstance  BY <1>1, <1>3, <1>15, FinishInstanceJoins
<1>16. CASE EndWalk  BY <1>1, <1>16, EndWalkJoins
<1>17. CASE UNCHANGED vars
  <2>1. UNCHANGED <<funcs, order, errors, pass, next>>  BY <1>17 DEF vars, walk
  <2> QED  BY <1>1, <2>1, JoinSame
<1> QED
  BY <1>5, <1>6, <1>7, <1>8, <1>9, <1>10, <1>11, <1>12, <1>13, <1>14, <1>15, <1>16, <1>17 DEF Next

LEMMA InitResults == Init => ResultsInv
<1> SUFFICES ASSUME Init  PROVE ResultsInv  OBVIOUS
<1>1. \A i \in DOMAIN funcs : Parsed(funcs[i])  BY FuncDeclsAssumption DEF Init
<1>2. ValueInv  BY <1>1 DEF ValueInv, Parsed
<1>3. DeducedInv  BY <1>1, Zenon DEF DeducedInv, Parsed
<1>4. JoinInv  BY DEF Init, JoinInv
<1> QED  BY <1>2, <1>3, <1>4 DEF ResultsInv

LEMMA ResultsInvariant == Spec => [](TypeInv /\ CallsInv /\ PinsInv /\ ResultsInv)
<1>1. Init => TypeInv /\ CallsInv /\ PinsInv /\ ResultsInv
  BY InitTypes, InitCalls, InitPins, InitResults
<1>2. TypeInv /\ CallsInv /\ PinsInv /\ ResultsInv /\ [Next]_vars
        => (TypeInv /\ CallsInv /\ PinsInv /\ ResultsInv)'
  BY NextTypes, NextCalls, NextPins, NextResults
<1> QED  BY <1>1, <1>2, PTL DEF Spec

LEMMA LeastFacts ==
  ASSUME NEW n \in Nat, NEW S, S \subseteq 1 .. n, S # {}
  PROVE  \E m \in S : \A s \in S : m <= s
<1> DEFINE T == {n + 1 - s : s \in S}
<1>1. T \subseteq 1 .. n /\ T # {}
  <2>1. ASSUME NEW s \in S  PROVE n + 1 - s \in 1 .. n
    <3>1. s \in 1 .. n  OBVIOUS
    <3> QED  BY <3>1
  <2>2. PICK s \in S : TRUE  OBVIOUS
  <2>3. n + 1 - s \in T  OBVIOUS
  <2> QED  BY <2>1, <2>3
<1>2. PICK x \in T : \A y \in T : y <= x
  <2> HIDE DEF T
  <2> QED  BY <1>1, MaxFacts
<1>3. PICK m \in S : x = n + 1 - m  OBVIOUS
<1>4. ASSUME NEW s \in S  PROVE m <= s
  <2>1. n + 1 - s <= n + 1 - m  BY <1>2, <1>3
  <2>2. s \in 1 .. n /\ m \in 1 .. n  OBVIOUS
  <2> QED  BY <2>1, <2>2
<1> QED  BY <1>4

(* Where no type goes into another one, returns that go together, each     *)
(* with the next, all have the type of the last.                           *)
LEMMA OneTypeReturned ==
  ASSUME NEW f \in Function, GoTogether(f), Known(f) # {},
         \A t, u \in Returned(f) : Assignable(t, u) => t = u
  PROVE  \A s \in Known(f) : f.body[s].t = f.body[Max(Known(f))].t
<1> DEFINE n == Len(f.body)
           m == Max(Known(f))
           K == Known(f)
           B == {s \in K : f.body[s].t # f.body[m].t}
<1>1. n \in Nat /\ K \subseteq 1 .. n /\ m \in K /\ \A s \in K : s <= m
  <2>1. Len(f.body) \in Nat /\ DOMAIN f.body = 1 .. Len(f.body)  BY FunctionFields
  <2> QED  BY <2>1, DeductionFacts
<1>2. ASSUME NEW s \in K  PROVE f.body[s].t \in Returned(f)
  <2>1. s \in Returns(f)  BY DeductionFacts
  <2> QED  BY <2>1 DEF Returned
<1> SUFFICES ASSUME B # {}  PROVE FALSE  OBVIOUS
<1>3. Max(B) \in B /\ \A s \in B : s <= Max(B)
  <2>1. B \subseteq 1 .. n  BY <1>1
  <2> HIDE DEF B, n
  <2> QED  BY <1>1, <2>1, MaxFacts
<1> DEFINE b == Max(B)
           C == {s \in K : b < s}
<1> HIDE DEF b, n
<1>4. b \in B /\ \A s \in B : s <= b  BY <1>3 DEF b
<1>5. b \in K /\ f.body[b].t # f.body[m].t  BY <1>4
<1> HIDE DEF m, K
<1>6. m \in C /\ C \subseteq 1 .. n
  <2>1. b # m /\ b <= m /\ b \in 1 .. n /\ m \in 1 .. n  BY <1>1, <1>5
  <2>2. b < m  BY <2>1
  <2>3. K \subseteq 1 .. n /\ m \in K  BY <1>1
  <2> QED  BY <2>2, <2>3
<1>7. PICK c \in C : \A s \in C : c <= s
  <2> HIDE DEF C
  <2> QED  BY <1>1, <1>6, LeastFacts
<1>8. c \in K /\ b < c  BY <1>7
<1>9. f.body[c].t = f.body[m].t
  <2>1. c \in 1 .. n /\ b \in 1 .. n  BY <1>1, <1>5, <1>8
  <2>2. ~ (c <= b)  BY <1>8, <2>1
  <2> QED  BY <1>4, <1>8, <2>2
<1>10. \A q \in K : q <= b \/ c <= q
  <2>1. \A q \in K : q \in 1 .. n /\ b \in 1 .. n  BY <1>1, <1>5
  <2> QED  BY <1>7, <2>1
<1>11. Assignable(f.body[b].t, f.body[c].t)  BY <1>5, <1>8, <1>10 DEF GoTogether, K
<1>12. f.body[b].t = f.body[c].t  BY <1>2, <1>5, <1>8, <1>11
<1> QED  BY <1>5, <1>9, <1>12

(* A deduced result is the one all returns of the function give, whichever *)
(* of them were known when the function got its type: a return keeps its   *)
(* type, and the last walk reports returns that do not go together.        *)
THEOREM ResultsFollowFromReturns == Spec => []DeducedFromAll
<1>1. TypeInv /\ CallsInv /\ PinsInv /\ ResultsInv => DeducedFromAll
  <2> SUFFICES ASSUME TypeInv, CallsInv, ResultsInv, Accepted, NEW i \in Declared,
                      funcs[i].ret = NoType,
                      \A s \in Returns(funcs[i]) :
                        funcs[i].body[s].fn # NoFunc => Undisturbed(funcs[i].body[s]),
                      \A t, u \in Returned(funcs[i]) : Assignable(t, u) => t = u
               PROVE  GoTogether(funcs[i]) /\ funcs[i].result = Deduction(funcs[i])
    BY DEF DeducedFromAll
  <2>1. i \in DOMAIN funcs /\ i \in ToSet(order) /\ ~ IsGeneric(funcs[i])  BY DEF Declared
  <2>2. PICK k \in DOMAIN order : order[k] = i  BY <2>1 DEF ToSet
  <2>3. funcs[i] \in Function  BY <2>1, FuncsFacts DEF TypeInv
  <2>4. pass = "accepted" /\ errors = {}  BY DEF CallsInv, CheckInv, Accepted
  <2>5. LastingReturns(i)
    <3> SUFFICES ASSUME NEW s \in Returns(funcs[i])  PROVE LastingAt(i, s)
      BY DEF LastingReturns
    <3>1. funcs[i].body[s].fn \in Names \cup {NoFunc}
      BY <2>3, DeductionFacts, FunctionFields, StatementFields
    <3> QED  BY <3>1 DEF LastingAt, Undisturbed
  <2>6. funcs[i].typed /\ GoTogether(funcs[i])
    BY <2>1, <2>2, <2>4, <2>5 DEF ResultsInv, JoinInv, Joined
  <2>7. CASE Returns(funcs[i]) = {}
    BY <2>1, <2>5, <2>6, <2>7 DEF ResultsInv, DeducedInv, Deduction
  <2>8. CASE Returns(funcs[i]) # {}
    <3>1. PICK s \in Known(funcs[i]) : funcs[i].body[s].t = funcs[i].result
      BY <2>1, <2>5, <2>6, <2>8 DEF ResultsInv, DeducedInv
    <3>2. Deduction(funcs[i]) = funcs[i].body[Max(Known(funcs[i]))].t
      BY <2>3, <2>6, <3>1, DeductionFacts
    <3>3. funcs[i].body[s].t = funcs[i].body[Max(Known(funcs[i]))].t
      BY <2>3, <2>6, <3>1, OneTypeReturned
    <3> QED  BY <2>6, <3>1, <3>2, <3>3
  <2> QED  BY <2>7, <2>8
<1> QED  BY <1>1, ResultsInvariant, PTL

-----------------------------------------------------------------------------
(* A call gets the overload declared with exactly the types it is written  *)
(* with.  All the overloads are declared before the first attempt on one   *)
(* of them, so that no attempt ever touches the arguments of such a call:  *)
(* they stay as they are written, and the call is mangled like the         *)
(* overload it means.                                                      *)
OriginalTypes(args, f) == [k \in DOMAIN args |-> Original(f, args[k])]

Meant(st, f) == \E g \in Named(st.fn) : funcs[g].params = OriginalTypes(st.args, f)

SignedInv == \A i \in DOMAIN funcs : funcs[i].typed => Signature(funcs[i]) \in DOMAIN symbols

BestCall(st, f) ==
  /\ AsWritten(st.args)
  /\ st.t # NoType => /\ st.callee \in DOMAIN funcs
                      /\ Signature(funcs[st.callee]) = <<st.fn, OriginalTypes(st.args, f)>>

BestInv ==
  \A n \in Names : Together(n) =>
    \A i \in DOMAIN funcs : \A s \in DOMAIN funcs[i].body :
      LET st == funcs[i].body[s] IN
      st.fn = n /\ Meant(st, funcs[i]) => BestCall(st, funcs[i])

SearchInv == Visiting /\ top.tried > 0 /\ Together(stmt.fn) => ~ Meant(stmt, fun)

BestsInv == SignedInv /\ BestInv /\ SearchInv

LEMMA SameOriginals ==
  ASSUME NEW args, NEW f, NEW h, h.params = f.params
  PROVE  OriginalTypes(args, h) = OriginalTypes(args, f)
BY DEF OriginalTypes, Original

(* The types a call is written with can be read from what attempts and     *)
(* casts leave of its arguments: a literal stays nil or an integer.        *)
LEMMA KeptOriginals ==
  ASSUME TypeInv, InBody, NEW args, KeepsArgs(callArgs, args)
  PROVE  OriginalTypes(args, fun) = OriginalTypes(stmt.args, fun)
<1>1. /\ Len(callArgs) = Len(stmt.args) /\ callArgs \in Seq(Arg)
      /\ \A k \in DOMAIN stmt.args :
           /\ callArgs[k].lit = stmt.args[k].lit /\ callArgs[k].v = stmt.args[k].v
           /\ stmt.args[k].lit => callArgs[k] = stmt.args[k]
  BY TypedsFacts DEF TypeInv, TypedArgs
<1>2. DOMAIN callArgs = DOMAIN stmt.args /\ DOMAIN args = DOMAIN stmt.args
  <2>1. DOMAIN stmt.args = 1 .. Len(stmt.args)  BY BodyFacts, StatementFields DEF TypeInv
  <2>2. args \in Seq(Arg) /\ Len(args) = Len(stmt.args)  BY <1>1 DEF KeepsArgs
  <2> QED  BY <1>1, <2>1, <2>2
<1>3. ASSUME NEW k \in DOMAIN stmt.args
      PROVE  Original(fun, args[k]) = Original(fun, stmt.args[k])
  <2>1. KeepsArg(callArgs[k], args[k])  BY <1>2 DEF KeepsArgs
  <2>2. /\ args[k].lit = stmt.args[k].lit /\ args[k].v = stmt.args[k].v
        /\ stmt.args[k].lit => (args[k].t = "nil" <=> stmt.args[k].t = "nil")
    BY <1>1, <2>1 DEF KeepsArg
  <2> QED  BY <2>2 DEF Original
<1> QED  BY <1>2, <1>3 DEF OriginalTypes

(* While the arguments are as they are written, so is the call mangled.    *)
LEMMA MangledAsWritten ==
  ASSUME TypeInv, InBody, AsWritten(stmt.args)
  PROVE  /\ AsWritten(callArgs)
         /\ exact = <<stmt.fn, OriginalTypes(stmt.args, fun)>>
<1>1. /\ Len(callArgs) = Len(stmt.args) /\ callArgs \in Seq(Arg)
      /\ \A k \in DOMAIN stmt.args :
           /\ callArgs[k].lit = stmt.args[k].lit /\ callArgs[k].cast = stmt.args[k].cast
           /\ stmt.args[k].lit \/ stmt.args[k].cast => callArgs[k] = stmt.args[k]
           /\ ~ stmt.args[k].lit /\ ~ stmt.args[k].cast => callArgs[k].t = fun.params[stmt.args[k].v]
  BY TypedsFacts DEF TypeInv, TypedArgs
<1>2. DOMAIN callArgs = DOMAIN stmt.args
  <2>1. DOMAIN stmt.args = 1 .. Len(stmt.args)  BY BodyFacts, StatementFields DEF TypeInv
  <2> QED  BY <1>1, <2>1
<1>3. AsWritten(callArgs)  BY <1>1, <1>2 DEF AsWritten
<1>4. ASSUME NEW k \in DOMAIN stmt.args  PROVE callArgs[k].t = Original(fun, stmt.args[k])
  BY <1>1 DEF AsWritten, Original
<1>5. TypesOf(callArgs) = OriginalTypes(stmt.args, fun)
  BY <1>2, <1>4 DEF TypesOf, OriginalTypes
<1> QED  BY <1>3, <1>5 DEF exact

LEMMA SignedKept ==
  ASSUME TypeInv, SignedInv, HeadsKept, DOMAIN symbols \subseteq DOMAIN symbols',
         \A i \in DOMAIN funcs' : (funcs')[i].typed =>
           \/ i \in DOMAIN funcs /\ funcs[i].typed
           \/ Signature((funcs')[i]) \in DOMAIN symbols'
  PROVE  SignedInv'
<1>1. \A i \in DOMAIN funcs : Signature((funcs')[i]) = Signature(funcs[i])  BY HeadsFacts
<1> QED  BY <1>1 DEF SignedInv

LEMMA BestKept ==
  ASSUME BestInv, WritingKept,
         \A i \in DOMAIN funcs' : \A s \in DOMAIN (funcs')[i].body :
           LET now == (funcs')[i].body[s]
               st == funcs[i].body[s]
               f == funcs[i]
           IN \/ now.fn = NoFunc
              \/ GenericNamed(now.fn)
              \/ i \notin DOMAIN funcs /\ now.t = NoType /\ AsWritten(now.args)
              \/ i \in DOMAIN funcs /\ s \in DOMAIN f.body /\ now = st
              \/ /\ i \in DOMAIN funcs /\ s \in DOMAIN f.body
                 /\ OriginalTypes(now.args, f) = OriginalTypes(st.args, f)
                 /\ Together(st.fn) /\ Meant(st, f) => BestCall(now, f)
  PROVE  BestInv'
<1> SUFFICES ASSUME NEW n \in Names, Together(n)', NEW i \in DOMAIN funcs',
                    NEW s \in DOMAIN (funcs')[i].body, (funcs')[i].body[s].fn = n,
                    NEW g \in Named(n)',
                    (funcs')[g].params = OriginalTypes((funcs')[i].body[s].args, (funcs')[i])
             PROVE  /\ AsWritten((funcs')[i].body[s].args)
                    /\ (funcs')[i].body[s].t # NoType =>
                         /\ (funcs')[i].body[s].callee \in DOMAIN funcs'
                         /\ Signature((funcs')[(funcs')[i].body[s].callee])
                              = <<n, OriginalTypes((funcs')[i].body[s].args, (funcs')[i])>>
  BY DEF BestInv, Meant, BestCall
<1> DEFINE now == (funcs')[i].body[s]
           st == funcs[i].body[s]
           f == funcs[i]
           h == (funcs')[i]
<1>1. Together(n) /\ Named(n)' = Named(n) /\ ~ GenericNamed(n)  BY TogetherBefore
<1>2. n # NoFunc  BY FuncDeclsAssumption
<1>3. /\ DOMAIN funcs \subseteq DOMAIN funcs'
      /\ \A j \in DOMAIN funcs : Signature((funcs')[j]) = Signature(funcs[j])
      /\ \A j \in DOMAIN funcs : (funcs')[j].params = funcs[j].params
  BY HeadsFacts DEF WritingKept, HeadsKept
<1>4. g \in Named(n) /\ g \in DOMAIN funcs  BY <1>1 DEF Named
<1>5. CASE i \notin DOMAIN funcs /\ now.t = NoType /\ AsWritten(now.args)  BY <1>5
<1>6. ASSUME i \in DOMAIN funcs, s \in DOMAIN f.body,
             OriginalTypes(now.args, f) = OriginalTypes(st.args, f),
             Together(st.fn) /\ Meant(st, f) => BestCall(now, f)
      PROVE  /\ AsWritten(now.args)
             /\ now.t # NoType => /\ now.callee \in DOMAIN funcs'
                                  /\ Signature((funcs')[now.callee]) = <<n, OriginalTypes(now.args, h)>>
  <2>1. OriginalTypes(now.args, h) = OriginalTypes(now.args, f)  BY <1>3, <1>6, SameOriginals
  <2>2. st.fn = n  BY <1>6 DEF WritingKept, BodiesKept, StaysAs
  <2>3. funcs[g].params = OriginalTypes(st.args, f)  BY <1>3, <1>4, <1>6, <2>1
  <2>4. now.fn = n  OBVIOUS
  <2> HIDE DEF now, st, f, h
  <2>5. Meant(st, f)  BY <1>4, <2>2, <2>3 DEF Meant
  <2>6. BestCall(now, f)  BY <1>1, <1>6, <2>2, <2>5
  <2> QED  BY <1>3, <2>1, <2>4, <2>6 DEF BestCall
<1>7. CASE i \in DOMAIN funcs /\ s \in DOMAIN f.body /\ now = st
  <2>1. Together(st.fn) /\ Meant(st, f) => BestCall(st, f)
    <3>1. st.fn = n  BY <1>7
    <3> QED  BY <1>7, <3>1 DEF BestInv
  <2> QED  BY <1>6, <1>7, <2>1
<1> QED  BY <1>1, <1>2, <1>5, <1>6, <1>7

(* What is written in a body.                                              *)
LEMMA WroteBest ==
  ASSUME TypeInv, BestInv, SignedInv, NEW st, Wrote(st),
         \/ st.fn = NoFunc
         \/ /\ OriginalTypes(st.args, fun) = OriginalTypes(stmt.args, fun)
            /\ Together(stmt.fn) /\ Meant(stmt, fun) => BestCall(st, fun)
  PROVE  BestInv' /\ SignedInv'
<1>1. /\ CalleesKept /\ DOMAIN funcs' = DOMAIN funcs
      /\ \A i \in DOMAIN funcs : i # top.f => (funcs')[i] = funcs[i]
      /\ \A i \in DOMAIN funcs : SameHead(funcs[i], (funcs')[i])
      /\ DOMAIN (funcs')[top.f].body = DOMAIN fun.body
      /\ (funcs')[top.f].body[top.s] = st
      /\ \A s \in DOMAIN fun.body : s # top.s => (funcs')[top.f].body[s] = fun.body[s]
      /\ fun = funcs[top.f] /\ stmt = fun.body[top.s] /\ top.s \in DOMAIN fun.body
  BY WroteFacts
<1>2. symbols' = symbols  BY DEF Wrote, tables
<1>3. WritingKept  BY WroteWriting
<1>4. SignedInv'
  <2>1. HeadsKept  BY <1>1 DEF CalleesKept
  <2>2. \A i \in DOMAIN funcs' : (funcs')[i].typed => i \in DOMAIN funcs /\ funcs[i].typed
    BY <1>1 DEF SameHead
  <2> QED  BY <1>2, <2>1, <2>2, SignedKept
<1>5. BestInv'
  <2> SUFFICES ASSUME NEW i \in DOMAIN funcs', NEW s \in DOMAIN (funcs')[i].body
               PROVE  LET now == (funcs')[i].body[s]
                          old == funcs[i].body[s]
                          f == funcs[i]
                      IN \/ now.fn = NoFunc
                         \/ i \in DOMAIN funcs /\ s \in DOMAIN f.body /\ now = old
                         \/ /\ i \in DOMAIN funcs /\ s \in DOMAIN f.body
                            /\ OriginalTypes(now.args, f) = OriginalTypes(old.args, f)
                            /\ Together(old.fn) /\ Meant(old, f) => BestCall(now, f)
    BY <1>3, BestKept
  <2>1. CASE i # top.f  BY <1>1, <2>1
  <2>2. CASE i = top.f /\ s # top.s  BY <1>1, <2>2
  <2>3. CASE i = top.f /\ s = top.s  BY <1>1, <2>3
  <2> QED  BY <2>1, <2>2, <2>3
<1> QED  BY <1>4, <1>5

LEMMA StatementBest ==
  ASSUME TypeInv, BestInv, InBody, Together(stmt.fn), stmt.fn # NoFunc, Meant(stmt, fun)
  PROVE  BestCall(stmt, fun)
<1>1. /\ fun = funcs[top.f] /\ top.f \in DOMAIN funcs /\ top.s \in DOMAIN fun.body
      /\ stmt = fun.body[top.s] /\ stmt.fn \in Names
  BY BodyFacts, StackFacts, StatementFields DEF TypeInv
<1> QED  BY <1>1 DEF BestInv

(* A call that means an overload is never compared with one.               *)
LEMMA NeverCompared ==
  ASSUME TypeInv, KnownInv, BestsInv, Comparing, Together(stmt.fn)
  PROVE  ~ Meant(stmt, fun)
<1> SUFFICES ASSUME Meant(stmt, fun)  PROVE FALSE  OBVIOUS
<1>1. InBody /\ Visiting /\ stmt.fn # NoFunc
  BY DEF Comparing, Searching, InBody
<1>2. candidate \in DOMAIN funcs /\ funcs[candidate].typed /\ funcs[candidate].name = stmt.fn
  BY CandidateFacts
<1>3. candidate \in Named(stmt.fn)  BY <1>2 DEF Named
<1>4. AllTyped(stmt.fn)  BY <1>1, <1>2, <1>3, CalledFromBehind
<1>5. PICK g \in Named(stmt.fn) : funcs[g].params = OriginalTypes(stmt.args, fun)  BY DEF Meant
<1>6. g \in DOMAIN funcs /\ funcs[g].typed /\ funcs[g].name = stmt.fn
  BY <1>4 DEF AllTyped, Named
<1>7. <<stmt.fn, OriginalTypes(stmt.args, fun)>> \in DOMAIN symbols
  BY <1>5, <1>6 DEF BestsInv, SignedInv, Signature
<1>8. BestCall(stmt, fun)  BY <1>1, StatementBest DEF BestsInv
<1>9. exact \in DOMAIN symbols  BY <1>1, <1>7, <1>8, MangledAsWritten DEF BestCall
<1>10. top.tried > 0  BY <1>9 DEF Comparing, Searching
<1> QED  BY <1>1, <1>10 DEF BestsInv, SearchInv

LEMMA BodyBest ==
  ASSUME TypeInv, CallsInv, KnownInv, BestsInv,
         ReturnValue \/ CallExact \/ CallKept \/ CallOverload \/ NextOverload \/ CallFails
  PROVE  BestInv' /\ SignedInv'
<1> USE DEF BestsInv
<1>1. CASE ReturnValue
  <2>1. PICK st : Wrote(st) /\ st.fn = NoFunc  BY <1>1, ReturnValueFacts
  <2> QED  BY <2>1, WroteBest
<1>2. CASE CallExact
  <2>1. PICK st : /\ Wrote(st) /\ st.fn # NoFunc /\ st.args = callArgs
                  /\ st.callee \in DOMAIN funcs /\ Signature(funcs[st.callee]) = exact
    BY <1>2, CallExactFacts
  <2>2. InBody /\ st.fn = stmt.fn  BY <2>1 DEF Wrote
  <2>3. OriginalTypes(st.args, fun) = OriginalTypes(stmt.args, fun)
    BY <2>1, <2>2, CallArgsStay, KeptOriginals
  <2>4. ASSUME Together(stmt.fn), Meant(stmt, fun)  PROVE BestCall(st, fun)
    <3>1. AsWritten(stmt.args)  BY <2>1, <2>2, <2>4, StatementBest DEF BestCall
    <3> QED  BY <2>1, <2>2, <2>3, <3>1, MangledAsWritten DEF BestCall
  <2> QED  BY <2>1, <2>3, <2>4, WroteBest
<1>3. CASE CallKept
  <2>1. PICK st : /\ Wrote(st) /\ st.fn # NoFunc /\ st.args = callArgs
                  /\ st.callee = stmt.callee /\ st.t = stmt.t
    BY <1>3, CallKeptFacts
  <2>2. InBody /\ st.fn = stmt.fn  BY <2>1 DEF Wrote
  <2>3. OriginalTypes(st.args, fun) = OriginalTypes(stmt.args, fun)
    BY <2>1, <2>2, CallArgsStay, KeptOriginals
  <2>4. ASSUME Together(stmt.fn), Meant(stmt, fun)  PROVE BestCall(st, fun)
    <3>1. BestCall(stmt, fun)  BY <2>1, <2>2, <2>4, StatementBest
    <3>2. AsWritten(callArgs)  BY <2>2, <3>1, MangledAsWritten DEF BestCall
    <3> QED  BY <2>1, <2>2, <2>3, <3>1, <3>2 DEF BestCall
  <2> QED  BY <2>1, <2>3, <2>4, WroteBest
<1>4. CASE CallOverload
  <2>1. PICK st : Wrote(st) /\ Comparing /\ KeepsArgs(callArgs, st.args)
    BY <1>4, CallOverloadFacts
  <2>2. InBody  BY <2>1 DEF Wrote
  <2>3. OriginalTypes(st.args, fun) = OriginalTypes(stmt.args, fun)
    BY <2>1, <2>2, KeptOriginals
  <2>4. Together(stmt.fn) => ~ Meant(stmt, fun)  BY <2>1, NeverCompared
  <2> QED  BY <2>1, <2>3, <2>4, WroteBest
<1>5. CASE NextOverload
  <2>1. PICK st : Wrote(st) /\ Comparing /\ (st = stmt \/ KeepsArgs(callArgs, st.args))
    BY <1>5, NextOverloadFacts
  <2>2. InBody  BY <2>1 DEF Wrote
  <2>3. OriginalTypes(st.args, fun) = OriginalTypes(stmt.args, fun)
    BY <2>1, <2>2, KeptOriginals
  <2>4. Together(stmt.fn) => ~ Meant(stmt, fun)  BY <2>1, NeverCompared
  <2> QED  BY <2>1, <2>3, <2>4, WroteBest
<1>6. CASE CallFails
  <2>1. PICK st : Wrote(st) /\ st.fn # NoFunc /\ st.args = callArgs /\ st.t = NoType
    BY <1>6, CallFailsFacts
  <2>2. InBody /\ st.fn = stmt.fn  BY <2>1 DEF Wrote
  <2>3. OriginalTypes(st.args, fun) = OriginalTypes(stmt.args, fun)
    BY <2>1, <2>2, CallArgsStay, KeptOriginals
  <2>4. ASSUME Together(stmt.fn), Meant(stmt, fun)  PROVE BestCall(st, fun)
    <3>1. AsWritten(stmt.args)  BY <2>1, <2>2, <2>4, StatementBest DEF BestCall
    <3> QED  BY <2>1, <2>2, <3>1, MangledAsWritten DEF BestCall
  <2> QED  BY <2>1, <2>3, <2>4, WroteBest
<1> QED  BY <1>1, <1>2, <1>3, <1>4, <1>5, <1>6

LEMMA SearchAnew ==
  ASSUME stack' = <<>> \/ (stack')[Len(stack')].tried = 0
  PROVE  SearchInv'
<1>1. Visiting' => top'.tried = 0  BY DEF Visiting, top, Last
<1> QED  BY <1>1 DEF SearchInv

LEMMA NextOverloadSearches == TypeInv /\ KnownInv /\ BestsInv /\ NextOverload => SearchInv'
<1> SUFFICES ASSUME TypeInv, KnownInv, BestsInv, NextOverload  PROVE SearchInv'  OBVIOUS
<1>1. PICK st : /\ Wrote(st) /\ Comparing /\ st.fn # NoFunc
                /\ st = stmt \/ KeepsArgs(callArgs, st.args)
                /\ stack' = [stack EXCEPT ![Len(stack)].tried = @ + 1]
  BY NextOverloadFacts
<1>2. InBody /\ st \in Statement /\ st.fn = stmt.fn  BY <1>1 DEF Wrote
<1>3. fun'.params = fun.params /\ stmt' = st  BY <1>1, NextStands
<1>4. WritingKept  BY <1>1, WroteWriting
<1>5. OriginalTypes(st.args, fun) = OriginalTypes(stmt.args, fun)
  BY <1>1, <1>2, KeptOriginals
<1>6. OriginalTypes(st.args, fun') = OriginalTypes(st.args, fun)  BY <1>3, SameOriginals
<1>7. PICK n \in Names : n = stmt.fn  BY <1>1, <1>2, StatementFields
<1> SUFFICES ASSUME Together(n)', NEW g \in Named(n)',
                    (funcs')[g].params = OriginalTypes(st.args, fun')
             PROVE  FALSE
  <2>1. (stmt').fn = n  BY <1>2, <1>3, <1>7
  <2> QED  BY <1>3, <2>1 DEF SearchInv, Meant
<1>8. Together(n) /\ g \in Named(n)  BY <1>4, TogetherBefore
<1>9. funcs[g].params = (funcs')[g].params  BY <1>4, <1>8 DEF WritingKept, HeadsKept, Named
<1>10. Meant(stmt, fun)  BY <1>5, <1>6, <1>7, <1>8, <1>9 DEF Meant
<1> QED  BY <1>1, <1>7, <1>8, <1>10, NeverCompared

LEMMA WalkBest ==
  ASSUME TypeInv, BestsInv,
         \/ RegisterFunc \/ RegisterGeneric \/ VisitFunc \/ SkipGeneric
         \/ GenericMismatch \/ GenericOverflow \/ EndWalk \/ UNCHANGED vars
  PROVE  BestsInv'
<1> USE DEF BestsInv
<1>1. funcs' = funcs /\ symbols' = symbols
  BY DEF RegisterFunc, RegisterGeneric, VisitFunc, SkipGeneric, GenericMismatch, GenericOverflow,
         EndWalk, vars, tables
<1>2. WritingKept  BY <1>1, NothingWritten
<1>3. SignedInv'  BY <1>1 DEF SignedInv
<1>4. BestInv'  BY <1>1, <1>2, BestKept
<1>5. SearchInv'
  <2>1. CASE UNCHANGED vars
    BY <2>1 DEF vars, SearchInv, Visiting, top, stmt, fun, Together, Named, Meant
  <2>2. CASE EndWalk
    <3>1. stack' = <<>>  BY <2>2 DEF EndWalk, AtEnd, Visiting
    <3> QED  BY <3>1, SearchAnew
  <2> QED  BY <2>1, <2>2, WalkLeaves, SearchAnew
<1> QED  BY <1>3, <1>4, <1>5

LEMMA DeclaredSigned ==
  ASSUME NEW g, ResolveFuncType(fun, g)
  PROVE  /\ DOMAIN symbols \subseteq DOMAIN symbols'
         /\ g.typed /\ ~ fun.typed => Signature(fun) \in DOMAIN symbols'
<1>1. CASE g.typed /\ ~ fun.typed
  <2>1. symbols' = IF Signature(fun) \in DOMAIN symbols THEN symbols
                   ELSE [k \in DOMAIN symbols \cup {Signature(fun)} |->
                           IF k \in DOMAIN symbols THEN symbols[k] ELSE top.f]
    BY <1>1 DEF ResolveFuncType, Declare
  <2> QED  BY <2>1
<1>2. CASE ~ g.typed \/ fun.typed  BY <1>2 DEF ResolveFuncType, Declare
<1> QED  BY <1>1, <1>2

LEMMA FinishFuncBest == TypeInv /\ BestsInv /\ FinishFunc => BestsInv'
<1> SUFFICES ASSUME TypeInv, BestsInv, FinishFunc  PROVE BestsInv'  OBVIOUS
<1> USE DEF BestsInv
<1> DEFINE g == Resolved(fun, pass = "register")
<1>1. g = Resolved(fun, pass = "register")  OBVIOUS
<1> HIDE DEF g
<1>2. /\ top.f \in DOMAIN funcs /\ fun = funcs[top.f] /\ ResolveFuncType(fun, g)
      /\ CalleesKept /\ DOMAIN funcs' = DOMAIN funcs
      /\ (funcs')[top.f] = g /\ \A i \in DOMAIN funcs : i # top.f => (funcs')[i] = funcs[i]
      /\ \A i \in DOMAIN funcs : (funcs')[i].body = funcs[i].body
      /\ stack' = <<>>
  BY <1>1, FinishFuncFacts
<1>3. HeadsKept /\ Signature((funcs')[top.f]) = Signature(fun)
  BY <1>2, HeadsFacts DEF CalleesKept
<1>4. SignedInv'
  <2>1. \A i \in DOMAIN funcs' : (funcs')[i].typed =>
          \/ i \in DOMAIN funcs /\ funcs[i].typed
          \/ Signature((funcs')[i]) \in DOMAIN symbols'
    BY <1>2, <1>3, DeclaredSigned
  <2>2. DOMAIN symbols \subseteq DOMAIN symbols'  BY <1>2, DeclaredSigned
  <2> QED  BY <1>3, <2>1, <2>2, SignedKept
<1>5. BestInv'  BY <1>2, FinishFuncWriting, BestKept
<1>6. SearchInv'  BY <1>2, SearchAnew
<1> QED  BY <1>4, <1>5, <1>6

LEMMA FinishInstanceBest == TypeInv /\ CallsInv /\ BestsInv /\ FinishInstance => BestsInv'
<1> SUFFICES ASSUME TypeInv, WaitingInv, BestsInv, FinishInstance  PROVE BestsInv'
  BY DEF CallsInv
<1> USE DEF BestsInv
<1> DEFINE g == Resolved(fun, FALSE)
<1>1. g = Resolved(fun, FALSE)  OBVIOUS
<1> HIDE DEF g
<1>2. /\ WritingKept /\ GenericNamed(fun.name)
      /\ top.f \in DOMAIN funcs /\ fun = funcs[top.f] /\ (funcs')[top.f] = g
      /\ DOMAIN funcs' = DOMAIN funcs /\ ResolveFuncType(fun, g)
      /\ \A i \in DOMAIN funcs : i # top.f => SameHead(funcs[i], (funcs')[i])
      /\ \A i \in DOMAIN funcs : \A s \in DOMAIN funcs[i].body :
           \/ (funcs')[i].body[s] = funcs[i].body[s]
           \/ (funcs')[i].body[s].fn = fun.name
      /\ \/ pass' = "crashed" /\ stack' = <<>>
         \/ /\ pass' = pass
            /\ Len(stack') = Len(stack) - 1 /\ (stack')[Len(stack) - 1].tried = 0
  BY <1>1, FinishInstanceWriting
<1>3. HeadsKept /\ Signature((funcs')[top.f]) = Signature(fun)
  BY <1>2, HeadsFacts DEF WritingKept
<1>4. SignedInv'
  <2>1. \A i \in DOMAIN funcs' : (funcs')[i].typed =>
          \/ i \in DOMAIN funcs /\ funcs[i].typed
          \/ Signature((funcs')[i]) \in DOMAIN symbols'
    BY <1>2, <1>3, DeclaredSigned DEF SameHead
  <2>2. DOMAIN symbols \subseteq DOMAIN symbols'  BY <1>2, DeclaredSigned
  <2> QED  BY <1>3, <2>1, <2>2, SignedKept
<1>5. BestInv'
  <2>1. \A i \in DOMAIN funcs : DOMAIN (funcs')[i].body = DOMAIN funcs[i].body
    BY <1>2 DEF WritingKept, BodiesKept
  <2>2. \A i \in DOMAIN funcs' : \A s \in DOMAIN (funcs')[i].body :
          \/ GenericNamed((funcs')[i].body[s].fn)
          \/ /\ i \in DOMAIN funcs /\ s \in DOMAIN funcs[i].body
             /\ (funcs')[i].body[s] = funcs[i].body[s]
    BY <1>2, <2>1
  <2> QED  BY <1>2, <2>2, BestKept
<1>6. SearchInv'
  <2>1. stack' = <<>> \/ (stack')[Len(stack')].tried = 0  BY <1>2
  <2> QED  BY <2>1, SearchAnew
<1> QED  BY <1>4, <1>5, <1>6

LEMMA CallGenericBest == TypeInv /\ BestsInv /\ CallGeneric => BestsInv'
<1> SUFFICES ASSUME TypeInv, BestsInv, CallGeneric  PROVE BestsInv'  OBVIOUS
<1> USE DEF BestsInv
<1>1. /\ WritingKept /\ GenericNamed(stmt.fn)
      /\ \A i \in DOMAIN funcs : SameHead(funcs[i], (funcs')[i])
      /\ \A i \in DOMAIN funcs : \A s \in DOMAIN funcs[i].body :
           \/ (funcs')[i].body[s] = funcs[i].body[s]
           \/ (funcs')[i].body[s].fn = stmt.fn
      /\ \A i \in DOMAIN funcs' : i \notin DOMAIN funcs =>
           /\ ~ (funcs')[i].typed
           /\ \A s \in DOMAIN (funcs')[i].body :
                (funcs')[i].body[s].t = NoType /\ AsWritten((funcs')[i].body[s].args)
      /\ symbols' = symbols
  BY CallGenericWriting
<1>2. SignedInv'
  <2>1. \A i \in DOMAIN funcs' : (funcs')[i].typed => i \in DOMAIN funcs /\ funcs[i].typed
    BY <1>1 DEF SameHead
  <2> QED  BY <1>1, <2>1, SignedKept DEF WritingKept
<1>3. BestInv'
  <2>1. \A i \in DOMAIN funcs : DOMAIN (funcs')[i].body = DOMAIN funcs[i].body
    BY <1>1 DEF WritingKept, BodiesKept
  <2>2. \A i \in DOMAIN funcs' : \A s \in DOMAIN (funcs')[i].body :
          \/ GenericNamed((funcs')[i].body[s].fn)
          \/ /\ i \notin DOMAIN funcs /\ (funcs')[i].body[s].t = NoType
             /\ AsWritten((funcs')[i].body[s].args)
          \/ /\ i \in DOMAIN funcs /\ s \in DOMAIN funcs[i].body
             /\ (funcs')[i].body[s] = funcs[i].body[s]
    BY <1>1, <2>1
  <2> QED  BY <1>1, <2>2, BestKept
<1>4. SearchInv'  BY CopyEntered, SearchAnew
<1> QED  BY <1>2, <1>3, <1>4

LEMMA InitBest == Init => BestsInv
<1> SUFFICES ASSUME Init  PROVE BestsInv  OBVIOUS
<1>1. \A i \in DOMAIN funcs : Parsed(funcs[i])  BY FuncDeclsAssumption DEF Init
<1>2. SignedInv  BY <1>1 DEF SignedInv, Parsed
<1>3. BestInv
  <2>1. ASSUME NEW i \in DOMAIN funcs, NEW s \in DOMAIN funcs[i].body
        PROVE  AsWritten(funcs[i].body[s].args) /\ funcs[i].body[s].t = NoType
    BY <1>1 DEF Parsed, AsWritten
  <2> QED  BY <2>1 DEF BestInv, BestCall
<1>4. SearchInv  BY DEF Init, SearchInv, Visiting
<1> QED  BY <1>2, <1>3, <1>4 DEF BestsInv

LEMMA NextBest == TypeInv /\ CallsInv /\ PinsInv /\ BestsInv /\ [Next]_vars => BestsInv'
<1> SUFFICES ASSUME TypeInv, CallsInv, PinsInv, BestsInv, [Next]_vars  PROVE BestsInv'  OBVIOUS
<1>1. CASE \/ RegisterFunc \/ RegisterGeneric \/ VisitFunc \/ SkipGeneric
           \/ GenericMismatch \/ GenericOverflow \/ EndWalk \/ UNCHANGED vars
  BY <1>1, WalkBest
<1>2. CASE ReturnValue \/ CallExact \/ CallKept \/ CallOverload \/ CallFails
  BY <1>2, BodyBest, BodyLeaves, SearchAnew DEF BestsInv, PinsInv
<1>3. CASE NextOverload
  BY <1>3, BodyBest, NextOverloadSearches DEF BestsInv, PinsInv
<1>4. CASE CallGeneric  BY <1>4, CallGenericBest
<1>5. CASE FinishFunc  BY <1>5, FinishFuncBest
<1>6. CASE FinishInstance  BY <1>6, FinishInstanceBest
<1> QED  BY <1>1, <1>2, <1>3, <1>4, <1>5, <1>6 DEF Next

LEMMA BestsInvariant == Spec => [](TypeInv /\ CallsInv /\ PinsInv /\ BestsInv)
<1>1. Init => BestsInv  BY InitBest
<1>2. TypeInv /\ CallsInv /\ PinsInv /\ BestsInv /\ [Next]_vars => BestsInv'  BY NextBest
<1> QED  BY <1>1, <1>2, PinsInvariant, PTL DEF Spec

(* Where the overloads of a name are known all at once, a call gets the    *)
(* one declared with exactly the types it is written with, if there is     *)
(* one, wherever the call stands: no earlier overload that its arguments   *)
(* could be converted to takes it, and no failed attempt changes a literal *)
(* so that it is passed over.                                              *)
THEOREM ExactOverloadIsTaken == Spec => []BestOverload
<1>1. TypeInv /\ CallsInv /\ BestsInv => BestOverload
  <2> SUFFICES ASSUME TypeInv, CallInv, CheckInv, BestInv, Accepted, NEW c \in Calls,
                      Together(At(c).fn), NEW g \in Named(At(c).fn), funcs[g].params = Originals(c)
               PROVE  Signature(funcs[At(c).callee]) = Signature(funcs[g])
    BY DEF CallsInv, BestsInv, BestOverload
  <2>1. PICK i \in Declared : c \in {<<i, s>> : s \in {k \in DOMAIN funcs[i].body : funcs[i].body[k].fn # NoFunc}}
    BY DEF Calls
  <2>2. PICK s \in DOMAIN funcs[i].body : c = <<i, s>> /\ funcs[i].body[s].fn # NoFunc
    BY <2>1
  <2>3. i \in DOMAIN funcs /\ i \in ToSet(order) /\ ~ IsGeneric(funcs[i])  BY DEF Declared
  <2>4. TypedTo(funcs[i], Len(funcs[i].body))
    <3>1. PICK k \in DOMAIN order : order[k] = i  BY <2>3 DEF ToSet
    <3>2. pass = "accepted" /\ errors = {}  BY DEF CheckInv, Accepted
    <3> QED  BY <2>3, <3>1, <3>2 DEF CheckInv
  <2>5. s <= Len(funcs[i].body) /\ funcs[i].body[s] \in Statement
    BY <2>3, FuncsFacts, FunctionFields DEF TypeInv
  <2> DEFINE st == funcs[i].body[s]
             f == funcs[i]
  <2>6. At(c) = st /\ Originals(c) = OriginalTypes(st.args, f)
    BY <2>2 DEF At, Originals, OriginalTypes
  <2>7. st.t # NoType  BY <2>4, <2>5 DEF TypedTo
  <2>8. st.fn \in Names  BY <2>2, <2>5, StatementFields
  <2>9. Meant(st, f) => BestCall(st, f)
    <3>1. Together(st.fn)  BY <2>6
    <3> QED  BY <2>3, <2>8, <3>1 DEF BestInv
  <2> HIDE DEF st, f
  <2>10. g \in Named(st.fn) /\ funcs[g].params = OriginalTypes(st.args, f)  BY <2>6
  <2>11. BestCall(st, f)  BY <2>9, <2>10 DEF Meant
  <2>12. Signature(funcs[g]) = <<st.fn, OriginalTypes(st.args, f)>>
    BY <2>10 DEF Named, Signature
  <2> QED  BY <2>6, <2>7, <2>11, <2>12 DEF BestCall
<1> QED  BY <1>1, BestsInvariant, PTL
=============================================================================
