------------------------ MODULE FuncDeclsExact_proofs ------------------------
(***************************************************************************)
(* What a file is accepted for, exactly: its generic functions have one    *)
(* copy for each list of types, and without such functions it is accepted  *)
(* if and only if the language types it.                                   *)
(***************************************************************************)
EXTENDS FuncDecls_proofs

-----------------------------------------------------------------------------
(* One copy for each list of types.  A copy is made when no overload takes *)
(* the arguments of the call, and all copies that have a type are          *)
(* overloads: so none of them has the types the new one gets.  Until it is *)
(* done only copies above it are finished, and they are of functions on    *)
(* lower levels.  A copy that has no type when it is done never gets one,  *)
(* and the last walk reports it.                                           *)
IsCopy(i) == funcs[i].pos # i

PosInv ==
  \A i \in DOMAIN funcs :
    LET p == funcs[i].pos IN
    /\ p \in DOMAIN funcs /\ (p = i \/ IsGeneric(funcs[p]))
    /\ IsGeneric(funcs[i]) => p = i

PosKept == \A i \in DOMAIN funcs : (funcs')[i].pos = funcs[i].pos

Orderly == NoLiterals /\ \E level \in [Names -> Nat] : Descends(level)

(* Behind the walk a copy returns values only: a call would have ended it. *)
GivesValues(f, n) ==
  \A s \in DOMAIN f.body :
    s <= n /\ f.body[s].ret => f.body[s].fn = NoFunc /\ f.body[s].t # NoType

FramesInv ==
  \A k \in DOMAIN stack :
    k > 1 => IsCopy(stack[k].f) /\ GivesValues(funcs[stack[k].f], stack[k].s - 1)

Decided(f) ==
  /\ GivesValues(f, Len(f.body))
  /\ f.typed \/ (f.ret = NoType /\ ~ GoTogether(f))

PlacedInv == \A i \in DOMAIN funcs : i \in Placed /\ IsCopy(i) => Decided(funcs[i])

LevelInv ==
  \A level \in [Names -> Nat] : Descends(level) =>
    \A j, k \in DOMAIN stack :
      1 < j /\ j < k => level[funcs[stack[k].f].name] < level[funcs[stack[j].f].name]

ListedInv ==
  \A i \in DOMAIN funcs : funcs[i].typed =>
    \E k \in DOMAIN overloads[funcs[i].name] : overloads[funcs[i].name][k] = i

Refuses(g, args) == Len(g.params) = Len(args) => \E b \in DOMAIN args : ~ Fits(args[b], g.params[b])

ComparedInv ==
  NoLiterals /\ Visiting /\ top.tried > 0 /\ GenericNamed(stmt.fn) =>
    \A k \in 1 .. top.tried : Refuses(funcs[overloads[stmt.fn][k]], callArgs)

FreshInv ==
  Orderly => \A k \in DOMAIN stack : k > 1 =>
    \A i \in DOMAIN funcs : funcs[i].typed => Signature(funcs[i]) # Signature(funcs[stack[k].f])

OneInv ==
  Orderly => \A i, j \in DOMAIN funcs :
    i # j /\ IsCopy(i) /\ IsCopy(j) /\ funcs[i].typed /\ funcs[j].typed =>
      Signature(funcs[i]) # Signature(funcs[j])

OnceInv ==
  PosInv /\ FramesInv /\ PlacedInv /\ LevelInv /\ ListedInv /\ ComparedInv /\ FreshInv /\ OneInv

(* A copy gets a type for each argument that a function declared with it   *)
(* would have taken.                                                       *)
LEMMA PassedFits ==
  ASSUME NEW a \in Arg, a.t \in Types, ~ a.lit, NEW to \in Types \cup {Untyped}, Attempt(a, to).fits
  PROVE  Fits(a, Attempt(a, to).passed.t)
<1>0. Fits(a, a.t)  BY SameTypePasses DEF Fits
<1>1. CASE to = Untyped
  <2>1. Attempt(a, to).passed = a  BY <1>1 DEF Attempt
  <2> QED  BY <1>0, <2>1
<1>2. CASE to # Untyped
  <2>1. to \in Types /\ Coerced(a, to) = a  BY <1>2 DEF Coerced
  <2>2. Attempt(a, to) = [left |-> a, fits |-> Fits(a, to), passed |-> CastTo(a, to)]
    BY <1>2, <2>1 DEF Attempt
  <2>3. Fits(a, to) /\ Attempt(a, to).passed = CastTo(a, to)  BY <2>2
  <2>4. CASE Convertible(a.t, to)
    <3>1. CASE NeedsCast(a.t, to)
      <4>1. CastTo(a, to) = [a EXCEPT !.t = to, !.cast = TRUE]  BY <2>4, <3>1 DEF CastTo
      <4>2. CastTo(a, to).t = to  BY <4>1 DEF Arg
      <4> QED  BY <2>3, <4>2
    <3>2. CASE ~ NeedsCast(a.t, to)
      <4>1. CastTo(a, to) = a  BY <2>4, <3>2 DEF CastTo
      <4> QED  BY <1>0, <2>3, <4>1
    <3> QED  BY <3>1, <3>2
  <2>5. CASE ~ Convertible(a.t, to)
    <3>1. AddressFits(a, to)  BY <2>3, <2>5 DEF Fits
    <3>2. CastTo(a, to) = [a EXCEPT !.t = PtrTo(a.t), !.cast = TRUE]  BY <2>5, <3>1 DEF CastTo
    <3>3. CastTo(a, to).t = PtrTo(a.t)  BY <3>2 DEF Arg
    <3>4. PtrTo(a.t) \in Types /\ IsPtrTo(PtrTo(a.t), a.t)  BY <2>1, <3>1, AddressIsPointer
    <3>5. AddressFits(a, PtrTo(a.t))  BY <3>4 DEF AddressFits, IsPtrTo
    <3> QED  BY <2>3, <3>3, <3>5 DEF Fits
  <2> QED  BY <2>4, <2>5
<1> QED  BY <1>1, <1>2

(* An attempt fails for an argument that does not fit, and fits them all   *)
(* when it does not.                                                       *)
LEMMA MatchFits ==
  ASSUME NEW args, TypedArgs(args), \A k \in DOMAIN args : ~ args[k].lit,
         NEW params \in Seq(Types \cup {Untyped}), Len(params) = Len(args),
         \A k \in DOMAIN params : params[k] \in Types
  PROVE  ~ Match(params, args).ok => \E b \in DOMAIN args : ~ Fits(args[b], params[b])
<1> DEFINE tries == [i \in DOMAIN args |-> Attempt(args[i], params[i])]
           bad == {i \in DOMAIN args : ~ tries[i].fits}
<1>1. Match(params, args).ok = (bad = {})  BY DEF Match, Outcome
<1> SUFFICES ASSUME NEW b \in bad  PROVE ~ Fits(args[b], params[b])  BY <1>1
<1>2. b \in DOMAIN args /\ ~ Attempt(args[b], params[b]).fits  OBVIOUS
<1>3. args \in Seq(Arg) /\ DOMAIN args = DOMAIN params  BY DEF TypedArgs
<1>4. params[b] # Untyped /\ Coerced(args[b], params[b]) = args[b]
  BY <1>2, <1>3, FuncDeclsAssumption DEF Coerced
<1>5. Attempt(args[b], params[b]) =
        [left |-> args[b], fits |-> Fits(args[b], params[b]), passed |-> CastTo(args[b], params[b])]
  BY <1>4 DEF Attempt
<1> QED  BY <1>2, <1>5

LEMMA MatchPassed ==
  ASSUME NEW args, TypedArgs(args), \A k \in DOMAIN args : ~ args[k].lit,
         NEW params \in Seq(Types \cup {Untyped}), Len(params) = Len(args), Match(params, args).ok
  PROVE  /\ DOMAIN Match(params, args).args = DOMAIN args
         /\ \A b \in DOMAIN args : Fits(args[b], Match(params, args).args[b].t)
<1> DEFINE tries == [i \in DOMAIN args |-> Attempt(args[i], params[i])]
           bad == {i \in DOMAIN args : ~ tries[i].fits}
           now == [i \in DOMAIN args |->
                     IF bad = {} THEN tries[i].passed
                     ELSE IF \A j \in bad : i <= j THEN tries[i].left ELSE args[i]]
<1>1. Match(params, args).ok = (bad = {}) /\ Match(params, args).args = now  BY DEF Match, Outcome
<1>2. DOMAIN now = DOMAIN args  OBVIOUS
<1>3. ASSUME NEW b \in DOMAIN args  PROVE Fits(args[b], now[b].t)
  <2>1. bad = {}  BY <1>1
  <2>2. now[b] = tries[b].passed
    <3> HIDE DEF bad, tries
    <3> QED  BY <2>1
  <2>3. tries[b] = Attempt(args[b], params[b]) /\ tries[b].fits  BY <2>1
  <2>4. args[b] \in Arg /\ args[b].t \in Types /\ params[b] \in Types \cup {Untyped}
    <3>1. args \in Seq(Arg) /\ DOMAIN args = DOMAIN params  BY DEF TypedArgs
    <3> QED  BY <3>1 DEF TypedArgs
  <2> HIDE DEF now, tries, bad
  <2> QED  BY <2>2, <2>3, <2>4, PassedFits
<1> HIDE DEF now, bad
<1> QED  BY <1>1, <1>2, <1>3

LEMMA CopyMade ==
  ASSUME TypeInv, CallGeneric
  PROVE  \E g \in GenericFor :
           /\ g \in DOMAIN funcs /\ IsGeneric(funcs[g]) /\ Len(funcs[g].params) = Len(stmt.args)
           /\ AllTried /\ InBody /\ stmt.fn \in Names
           /\ funcs[g].params \in Seq(Types \cup {Untyped})
           /\ Match(funcs[g].params, callArgs).ok
           /\ DOMAIN funcs' = 1 .. Len(funcs) + 1 /\ DOMAIN funcs = 1 .. Len(funcs) /\ Len(funcs) \in Nat
           /\ (funcs')[Len(funcs) + 1].pos = funcs[g].pos
           /\ (funcs')[Len(funcs) + 1].name = stmt.fn
           /\ (funcs')[Len(funcs) + 1].params = TypesOf(Match(funcs[g].params, callArgs).args)
           /\ ~ IsGeneric((funcs')[Len(funcs) + 1]) /\ ~ (funcs')[Len(funcs) + 1].typed
           /\ \A i \in DOMAIN funcs : SameHead(funcs[i], (funcs')[i])
           /\ stack' = Append(stack, Frame(Len(funcs) + 1, TRUE))
           /\ UNCHANGED <<order, overloads, pass>>
<1>1. PICK g \in GenericFor :
        /\ Match(funcs[g].params, callArgs).ok
        /\ funcs' = Append(SetStatement([stmt EXCEPT !.args = Match(funcs[g].params, callArgs).args]),
                           Instance(g, TypesOf(Match(funcs[g].params, callArgs).args)))
  BY DEF CallGeneric, Fitted
<1>2. /\ AllTried /\ stack' = Append(stack, Frame(Len(funcs) + 1, TRUE))
      /\ UNCHANGED <<order, overloads, pass>>
  BY DEF CallGeneric, tables, walk
<1>3. /\ InBody /\ stmt.fn \in Names /\ g \in DOMAIN funcs /\ funcs[g] \in Function
      /\ IsGeneric(funcs[g]) /\ Parsed(funcs[g]) /\ funcs[g].name = stmt.fn
      /\ funcs[g].params \in Seq(Types \cup {Untyped})
      /\ Len(funcs[g].params) = Len(stmt.args)
  BY <1>2, GenericFacts
<1> DEFINE args == Match(funcs[g].params, callArgs).args
           st == [stmt EXCEPT !.args = args]
           copy == Instance(g, TypesOf(args))
<1>4. st \in Statement /\ GoodStatement(st, fun) /\ KeepsArgs(callArgs, args)  BY <1>3, MatchKept
<1>5. funcs' = Append(SetStatement(st), copy)  BY <1>1
<1>6. TypesOf(args) \in Seq(Types) /\ Len(TypesOf(args)) = Len(funcs[g].params)
  <2>1. TypedArgs(callArgs) /\ Len(callArgs) = Len(stmt.args)  BY <1>3, TypedsFacts DEF TypeInv
  <2> HIDE DEF args
  <2>2. TypedArgs(args)  BY <1>4, <2>1, KeptArgsTyped
  <2>3. Len(args) = Len(callArgs)  BY <1>4 DEF KeepsArgs
  <2> QED  BY <1>3, <2>1, <2>2, <2>3, TypesOfFacts
<1>7. copy.pos = funcs[g].pos
  <2>1. funcs[g] \in Function  BY <1>3
  <2>2. copy = [funcs[g] EXCEPT !.params = TypesOf(args)]  BY DEF Instance
  <2> HIDE DEF args, copy
  <2> QED  BY <2>1, <2>2 DEF Function
<1>8. /\ copy \in Function /\ GoodFunction(copy) /\ ~ IsGeneric(copy) /\ ~ copy.typed
      /\ copy.params = TypesOf(args) /\ copy.name = funcs[g].name
  <2>1. copy = CopyOf(funcs[g], TypesOf(args))  BY DEF Instance, CopyOf
  <2> HIDE DEF args, copy
  <2> QED  BY <1>3, <1>6, <2>1, InstanceFacts
<1> HIDE DEF st, copy
<1>9. /\ DOMAIN funcs' = 1 .. Len(funcs) + 1 /\ (funcs')[Len(funcs) + 1] = copy
      /\ DOMAIN funcs = 1 .. Len(funcs) /\ Len(funcs) \in Nat
      /\ \A i \in DOMAIN funcs : SameHead(funcs[i], (funcs')[i])
  BY <1>3, <1>4, <1>5, <1>8, CopyAdded DEF TypeInv
<1> QED  BY <1>1, <1>2, <1>3, <1>7, <1>8, <1>9

(* What every step leaves of where functions were written.                 *)
LEMMA StepPositions ==
  TypeInv /\ CallsInv /\ PosInv /\ [Next]_vars => PosKept /\ PosInv'
<1> SUFFICES ASSUME TypeInv, CallsInv, PosInv, [Next]_vars  PROVE PosKept /\ PosInv'
  OBVIOUS
<1>0. WritingKept  BY StepWriting
<1>1. /\ DOMAIN funcs \subseteq DOMAIN funcs'
      /\ \A i \in DOMAIN funcs : IsGeneric((funcs')[i]) <=> IsGeneric(funcs[i])
  BY <1>0, HeadsFacts DEF WritingKept
<1>2. ASSUME PosKept, DOMAIN funcs' = DOMAIN funcs  PROVE PosKept /\ PosInv'
  BY <1>1, <1>2 DEF PosKept, PosInv
<1>3. ASSUME NEW st, Wrote(st)  PROVE PosKept /\ PosInv'
  BY <1>2, <1>3, WroteFacts DEF PosKept, SameHead
<1>4. CASE ReturnValue  BY <1>3, <1>4, ReturnValueFacts
<1>5. CASE CallExact  BY <1>3, <1>5, CallExactFacts
<1>6. CASE CallKept  BY <1>3, <1>6, CallKeptFacts
<1>7. CASE CallOverload  BY <1>3, <1>7, CallOverloadFacts
<1>8. CASE NextOverload  BY <1>3, <1>8, NextOverloadFacts
<1>9. CASE CallFails  BY <1>3, <1>9, CallFailsFacts
<1>10. CASE CallGeneric
  <2>1. PICK g \in DOMAIN funcs :
          /\ IsGeneric(funcs[g])
          /\ DOMAIN funcs' = 1 .. Len(funcs) + 1 /\ DOMAIN funcs = 1 .. Len(funcs) /\ Len(funcs) \in Nat
          /\ (funcs')[Len(funcs) + 1].pos = funcs[g].pos
          /\ ~ IsGeneric((funcs')[Len(funcs) + 1])
    BY <1>10, CopyMade
  <2>2. PosKept  BY <1>10, CallGenericWriting DEF PosKept, SameHead
  <2>4. ASSUME NEW i \in DOMAIN funcs'
        PROVE  LET p == (funcs')[i].pos IN
               /\ p \in DOMAIN funcs' /\ (p = i \/ IsGeneric((funcs')[p]))
               /\ IsGeneric((funcs')[i]) => p = i
    <3>1. CASE i \in DOMAIN funcs  BY <1>1, <2>2, <3>1 DEF PosKept, PosInv
    <3>2. CASE i = Len(funcs) + 1
      <4>1. funcs[g].pos = g  BY <2>1 DEF PosInv
      <4> QED  BY <1>1, <2>1, <3>2, <4>1
    <3> QED  BY <2>1, <3>1, <3>2
  <2> QED  BY <2>2, <2>4 DEF PosInv
<1>11. CASE FinishFunc
  <2> DEFINE g == Resolved(fun, pass = "register")
  <2>1. g = Resolved(fun, pass = "register")  OBVIOUS
  <2> HIDE DEF g
  <2>2. /\ top.f \in DOMAIN funcs /\ fun = funcs[top.f] /\ g.pos = fun.pos
        /\ DOMAIN funcs' = DOMAIN funcs /\ (funcs')[top.f] = g
        /\ \A i \in DOMAIN funcs : i # top.f => (funcs')[i] = funcs[i]
    BY <1>11, <2>1, FinishFuncFacts
  <2> QED  BY <1>2, <2>2 DEF PosKept
<1>12. CASE FinishInstance
  <2> DEFINE g == Resolved(fun, FALSE)
  <2>1. g = Resolved(fun, FALSE)  OBVIOUS
  <2> HIDE DEF g
  <2>2. /\ top.f \in DOMAIN funcs /\ fun = funcs[top.f] /\ (funcs')[top.f] = g
        /\ DOMAIN funcs' = DOMAIN funcs
        /\ \A i \in DOMAIN funcs : i # top.f => SameHead(funcs[i], (funcs')[i])
    BY <1>12, <2>1, FinishInstanceWriting DEF CallsInv
  <2>3. g.pos = fun.pos  BY <1>12, <2>1, FinishInstanceFacts
  <2> QED  BY <1>2, <2>2, <2>3 DEF PosKept, SameHead
<1>13. CASE \/ RegisterFunc \/ RegisterGeneric \/ VisitFunc \/ SkipGeneric
            \/ GenericMismatch \/ GenericOverflow \/ EndWalk \/ UNCHANGED vars
  <2>1. funcs' = funcs
    BY <1>13 DEF RegisterFunc, RegisterGeneric, VisitFunc, SkipGeneric, GenericMismatch,
                 GenericOverflow, EndWalk, vars
  <2> QED  BY <1>2, <2>1 DEF PosKept
<1> QED  BY <1>4, <1>5, <1>6, <1>7, <1>8, <1>9, <1>10, <1>11, <1>12, <1>13 DEF Next

(* A program is orderly from the start.                                    *)
LEMMA DescendsBefore ==
  ASSUME TypeInv, PosInv, WritingKept, PosKept, NEW level, Descends(level)'
  PROVE  Descends(level)
<1>1. /\ DOMAIN funcs \subseteq DOMAIN funcs'
      /\ \A i \in DOMAIN funcs : IsGeneric((funcs')[i]) <=> IsGeneric(funcs[i])
  BY HeadsFacts DEF WritingKept
<1> SUFFICES ASSUME NEW i \in DOMAIN funcs, IsGeneric(funcs[funcs[i].pos]),
                    NEW s \in DOMAIN funcs[i].body, funcs[i].body[s].fn # NoFunc
             PROVE  level[funcs[i].body[s].fn] < level[funcs[i].name]
  BY DEF Descends
<1>2. funcs[i].pos \in DOMAIN funcs /\ (funcs')[i].pos = funcs[i].pos  BY DEF PosInv, PosKept
<1>3. /\ (funcs')[i].name = funcs[i].name
      /\ s \in DOMAIN (funcs')[i].body /\ (funcs')[i].body[s].fn = funcs[i].body[s].fn
  BY DEF WritingKept, HeadsKept, BodiesKept, StaysAs
<1>4. i \in DOMAIN funcs' /\ IsGeneric((funcs')[(funcs')[i].pos])  BY <1>1, <1>2
<1> QED  BY <1>3, <1>4 DEF Descends

LEMMA LiteralsBefore ==
  ASSUME TypeInv, WritingKept, NoLiterals'
  PROVE  NoLiterals
<1>1. /\ DOMAIN funcs \subseteq DOMAIN funcs'
      /\ \A i \in DOMAIN funcs : IsGeneric((funcs')[i]) <=> IsGeneric(funcs[i])
  BY HeadsFacts DEF WritingKept
<1> SUFFICES ASSUME NEW i \in DOMAIN funcs, NEW s \in DOMAIN funcs[i].body,
                    funcs[i].body[s].fn # NoFunc,
                    NEW g \in Named(funcs[i].body[s].fn), IsGeneric(funcs[g]),
                    NEW k \in DOMAIN funcs[i].body[s].args
             PROVE  ~ funcs[i].body[s].args[k].lit
  BY DEF NoLiterals
<1> DEFINE st == funcs[i].body[s]
           now == (funcs')[i].body[s]
<1>2. s \in DOMAIN (funcs')[i].body /\ now.fn = st.fn /\ ArgsStay(st.args, now.args)
  BY DEF WritingKept, BodiesKept, StaysAs
<1>3. st \in Statement /\ now \in Statement
  <2>1. i \in DOMAIN funcs' /\ (funcs')[i] \in Function  BY <1>1 DEF WritingKept, HeadsKept
  <2>2. funcs[i] \in Function  BY FuncsFacts DEF TypeInv
  <2> QED  BY <1>2, <2>1, <2>2, FunctionFields
<1>4. g \in DOMAIN funcs /\ funcs[g].name = st.fn  BY DEF Named
<1>5. g \in DOMAIN funcs' /\ (funcs')[g].name = now.fn /\ IsGeneric((funcs')[g])
  BY <1>1, <1>2, <1>4 DEF WritingKept, HeadsKept
<1>6. now.fn # NoFunc /\ i \in DOMAIN funcs'  BY <1>1, <1>2
<1>7. \A b \in DOMAIN now.args : ~ now.args[b].lit
  <2>1. \E h \in {j \in DOMAIN funcs' : (funcs')[j].name = (funcs')[i].body[s].fn} : IsGeneric((funcs')[h])
    BY <1>5 DEF now
  <2>2. (funcs')[i].body[s].fn # NoFunc  BY <1>6 DEF now
  <2>3. \A b \in DOMAIN (funcs')[i].body[s].args : ~ (funcs')[i].body[s].args[b].lit
    BY <1>2, <1>6, <2>1, <2>2 DEF NoLiterals, Named
  <2> QED  BY <2>3 DEF now
<1> HIDE DEF now
<1>8. k \in DOMAIN now.args  BY <1>2, <1>3, StatementFields DEF ArgsStay
<1> QED  BY <1>2, <1>7, <1>8 DEF ArgsStay

LEMMA OrderlyBefore ==
  ASSUME TypeInv, PosInv, WritingKept, PosKept, Orderly'
  PROVE  Orderly
<1>1. NoLiterals  BY LiteralsBefore DEF Orderly
<1>2. PICK level \in [Names -> Nat] : Descends(level)'  BY DEF Orderly
<1>3. Descends(level)  BY <1>2, DescendsBefore
<1> QED  BY <1>1, <1>3 DEF Orderly

(* What a step does to the function and to the statement it stands at.     *)
Forward(st) ==
  /\ Wrote(st) /\ Visiting
  /\ \/ stack' = <<>>
     \/ /\ Moved(top.s + 1) /\ (stack')[Len(stack)].tried = 0
        /\ top.generated /\ st.ret => st.fn = NoFunc /\ st.t # NoType

Walked ==
  /\ UNCHANGED <<funcs, overloads, order>>
  /\ stack' = <<>> \/ (Len(stack') = 1 /\ (stack')[1].tried = 0) \/ stack' = stack

LEMMA CallGoesForward ==
  ASSUME TypeInv, NEW st, Wrote(st), CallEnds
  PROVE  Forward(st)
<1>1. Visiting /\ st.ret = stmt.ret  BY DEF Wrote, InBody
<1>2. CASE top.generated /\ stmt.ret  BY <1>1, <1>2 DEF CallEnds, Forward
<1>3. CASE ~ (top.generated /\ stmt.ret)
  <2>1. stack' = NextStatement  BY <1>3 DEF CallEnds
  <2>2. Moved(top.s + 1) /\ (stack')[Len(stack)].tried = 0  BY <1>1, <2>1, NextMoves
  <2> QED  BY <1>1, <1>3, <2>2 DEF Forward
<1> QED  BY <1>2, <1>3

LEMMA StepCases ==
  TypeInv /\ [Next]_vars =>
    (\E st : Forward(st)) \/ NextOverload \/ CallGeneric \/ FinishFunc \/ FinishInstance \/ Walked
<1> SUFFICES ASSUME TypeInv, [Next]_vars
             PROVE  \/ \E st : Forward(st)
                    \/ NextOverload \/ CallGeneric \/ FinishFunc \/ FinishInstance \/ Walked
  OBVIOUS
<1>1. CASE ReturnValue
  <2>1. PICK st : Wrote(st) /\ st.fn = NoFunc /\ st.t \in Types /\ stack' = NextStatement
    BY <1>1, ReturnValueFacts
  <2>2. Visiting  BY <2>1 DEF Wrote, InBody
  <2>3. Moved(top.s + 1) /\ (stack')[Len(stack)].tried = 0  BY <2>1, <2>2, NextMoves
  <2>4. st.t # NoType  BY <2>1, TypesAssumption
  <2> QED  BY <2>1, <2>2, <2>3, <2>4 DEF Forward
<1>2. CASE CallExact
  <2>1. CallEnds  BY <1>2 DEF CallExact
  <2> QED  BY <1>2, <2>1, CallExactFacts, CallGoesForward
<1>3. CASE CallKept
  <2>1. CallEnds  BY <1>3 DEF CallKept
  <2> QED  BY <1>3, <2>1, CallKeptFacts, CallGoesForward
<1>4. CASE CallOverload
  <2>1. CallEnds  BY <1>4 DEF CallOverload
  <2> QED  BY <1>4, <2>1, CallOverloadFacts, CallGoesForward
<1>5. CASE CallFails
  <2>1. CallEnds  BY <1>5 DEF CallFails
  <2> QED  BY <1>5, <2>1, CallFailsFacts, CallGoesForward
<1>6. CASE RegisterFunc \/ VisitFunc
  <2>1. stack' = <<Frame(order[next], FALSE)>> /\ UNCHANGED <<funcs, overloads, order>>
    BY <1>6 DEF RegisterFunc, VisitFunc, Enter, tables
  <2>2. Len(stack') = 1 /\ (stack')[1].tried = 0  BY <2>1 DEF Frame
  <2> QED  BY <2>1, <2>2 DEF Walked
<1>7. CASE \/ RegisterGeneric \/ SkipGeneric \/ GenericMismatch \/ GenericOverflow \/ EndWalk
           \/ UNCHANGED vars
  BY <1>7 DEF RegisterGeneric, SkipGeneric, GenericMismatch, GenericOverflow, EndWalk, vars, tables, Walked
<1> QED  BY <1>1, <1>2, <1>3, <1>4, <1>5, <1>6, <1>7 DEF Next

(* What a copy returns stays.                                              *)
LEMMA ValuesLast ==
  ASSUME WritingKept, TypesLast, NEW i \in DOMAIN funcs, NEW n, GivesValues(funcs[i], n)
  PROVE  GivesValues((funcs')[i], n)
<1> SUFFICES ASSUME NEW s \in DOMAIN (funcs')[i].body, s <= n, (funcs')[i].body[s].ret
             PROVE  (funcs')[i].body[s].fn = NoFunc /\ (funcs')[i].body[s].t # NoType
  BY DEF GivesValues
<1>1. /\ s \in DOMAIN funcs[i].body /\ funcs[i].body[s].ret = (funcs')[i].body[s].ret
      /\ (funcs')[i].body[s].fn = funcs[i].body[s].fn
  BY DEF WritingKept, BodiesKept, StaysAs
<1>2. funcs[i].body[s].fn = NoFunc /\ funcs[i].body[s].t # NoType  BY <1>1 DEF GivesValues
<1>3. LastingAt(i, s)  BY <1>2 DEF LastingAt
<1> QED  BY <1>1, <1>2, <1>3 DEF TypesLast

LEMMA DecidedLasts ==
  ASSUME TypeInv, WritingKept, TypesLast, NEW i \in DOMAIN funcs, Decided(funcs[i])
  PROVE  Decided((funcs')[i])
<1> DEFINE n == Len(funcs[i].body)
<1>1. GivesValues(funcs[i], n)  BY DEF Decided
<1>2. funcs[i] \in Function /\ (funcs')[i] \in Function
  <2>1. i \in DOMAIN funcs'  BY HeadsFacts DEF WritingKept
  <2> QED  BY <2>1, FuncsFacts DEF TypeInv, WritingKept, HeadsKept
<1>3. DOMAIN (funcs')[i].body = DOMAIN funcs[i].body  BY DEF WritingKept, BodiesKept
<1>4. Len((funcs')[i].body) = n  BY <1>2, <1>3, FunctionFields
<1>5. GivesValues((funcs')[i], Len((funcs')[i].body))
  <2> HIDE DEF n
  <2> QED  BY <1>1, <1>4, ValuesLast
<1>6. Returns((funcs')[i]) = Returns(funcs[i]) /\ (funcs')[i].ret = funcs[i].ret
  BY ReturnsBefore DEF WritingKept, BodiesKept
<1>7. ASSUME NEW s \in Returns(funcs[i])
      PROVE  funcs[i].body[s].t # NoType /\ (funcs')[i].body[s].t = funcs[i].body[s].t
  <2>1. s \in DOMAIN funcs[i].body /\ funcs[i].body[s].ret  BY DEF Returns
  <2>2. s <= Len(funcs[i].body)  BY <1>2, <2>1, FunctionFields
  <2>3. funcs[i].body[s].fn = NoFunc /\ funcs[i].body[s].t # NoType
    BY <1>1, <2>1, <2>2 DEF GivesValues
  <2>4. LastingAt(i, s)  BY <2>3 DEF LastingAt
  <2> QED  BY <2>1, <2>3, <2>4 DEF TypesLast
<1>8. Known((funcs')[i]) = Known(funcs[i])  BY <1>6, <1>7 DEF Known
<1>9. \A s \in Known(funcs[i]) : (funcs')[i].body[s].t = funcs[i].body[s].t
  BY <1>7 DEF Known
<1>10. GoTogether((funcs')[i]) => GoTogether(funcs[i])  BY <1>8, <1>9 DEF GoTogether
<1>11. funcs[i].typed => (funcs')[i].typed  BY DEF WritingKept, HeadsKept
<1> QED  BY <1>5, <1>6, <1>10, <1>11 DEF Decided

(* What a step leaves of the functions being visited: those below the top  *)
(* are the same, and the top stands where it stood or behind that.         *)
LEMMA ForwardFacts ==
  ASSUME TypeInv, NEW st, Forward(st)
  PROVE  /\ Wrote(st) /\ Visiting /\ top.f \in DOMAIN funcs /\ fun = funcs[top.f]
         /\ DOMAIN funcs' = DOMAIN funcs
         /\ \A i \in DOMAIN funcs : SameHead(funcs[i], (funcs')[i])
         /\ UNCHANGED <<order, overloads>>
         /\ \A k \in DOMAIN stack' :
              /\ k \in DOMAIN stack /\ (stack')[k].f = stack[k].f
              /\ k # Len(stack) => (stack')[k] = stack[k]
              /\ k = Len(stack) => /\ (stack')[k].s = top.s + 1 /\ stack[k] = top
                                   /\ top.generated /\ st.ret => st.fn = NoFunc /\ st.t # NoType
         /\ stack' = <<>> \/ (stack')[Len(stack')].tried = 0
<1>1. Wrote(st) /\ Visiting  BY DEF Forward
<1>2. /\ top.f \in DOMAIN funcs /\ fun = funcs[top.f] /\ DOMAIN funcs' = DOMAIN funcs
      /\ \A i \in DOMAIN funcs : SameHead(funcs[i], (funcs')[i])
  BY <1>1, WroteFacts
<1>3. UNCHANGED <<order, overloads>>  BY <1>1 DEF Wrote, tables
<1>4. top = stack[Len(stack)]  BY <1>1, StackFacts DEF TypeInv
<1>5. CASE stack' = <<>>  BY <1>1, <1>2, <1>3, <1>5
<1>6. CASE /\ Moved(top.s + 1) /\ (stack')[Len(stack)].tried = 0
           /\ top.generated /\ st.ret => st.fn = NoFunc /\ st.t # NoType
  <2>1. Len(stack') = Len(stack) /\ DOMAIN stack' = DOMAIN stack  BY <1>6 DEF Moved
  <2>2. ASSUME NEW k \in DOMAIN stack'
        PROVE  /\ k \in DOMAIN stack /\ (stack')[k].f = stack[k].f
               /\ k # Len(stack) => (stack')[k] = stack[k]
               /\ k = Len(stack) => (stack')[k].s = top.s + 1 /\ stack[k] = top
    BY <1>4, <1>6, <2>1 DEF Moved
  <2> QED  BY <1>1, <1>2, <1>3, <1>6, <2>1, <2>2
<1> QED  BY <1>5, <1>6 DEF Forward

LEMMA AttemptStays ==
  ASSUME TypeInv, NextOverload
  PROVE  /\ Visiting /\ top.f \in DOMAIN funcs /\ fun = funcs[top.f]
         /\ DOMAIN funcs' = DOMAIN funcs
         /\ \A i \in DOMAIN funcs : SameHead(funcs[i], (funcs')[i])
         /\ UNCHANGED <<order, overloads>>
         /\ Len(stack') = Len(stack) /\ DOMAIN stack' = DOMAIN stack
         /\ \A k \in DOMAIN stack : (stack')[k].f = stack[k].f /\ (stack')[k].s = stack[k].s
         /\ (stack')[Len(stack)].tried = top.tried + 1
<1>1. PICK st : Wrote(st)  BY NextOverloadFacts
<1>0. stack' = [stack EXCEPT ![Len(stack)].tried = @ + 1]  BY DEF NextOverload
<1>2. Visiting  BY <1>1 DEF Wrote, InBody
<1>3. Moved(top.s) /\ (stack')[Len(stack)].tried = top.tried + 1  BY <1>0, <1>2, TriedMoves
<1>4. /\ top.f \in DOMAIN funcs /\ fun = funcs[top.f] /\ DOMAIN funcs' = DOMAIN funcs
      /\ \A i \in DOMAIN funcs : SameHead(funcs[i], (funcs')[i])
  BY <1>1, WroteFacts
<1>5. UNCHANGED <<order, overloads>>  BY <1>1 DEF Wrote, tables
<1>6. top = stack[Len(stack)]  BY <1>2, StackFacts DEF TypeInv
<1>7. ASSUME NEW k \in DOMAIN stack  PROVE (stack')[k].f = stack[k].f /\ (stack')[k].s = stack[k].s
  <2>1. CASE k = Len(stack)  BY <1>3, <1>6, <2>1 DEF Moved
  <2>2. CASE k # Len(stack)  BY <1>3, <2>2 DEF Moved
  <2> QED  BY <2>1, <2>2
<1> QED  BY <1>2, <1>3, <1>4, <1>5, <1>7 DEF Moved

LEMMA CopyStacked ==
  ASSUME TypeInv, CallGeneric
  PROVE  /\ Visiting /\ Len(stack) \in Nat /\ DOMAIN stack = 1 .. Len(stack)
         /\ DOMAIN stack' = 1 .. Len(stack) + 1 /\ Len(stack') = Len(stack) + 1
         /\ \A k \in DOMAIN stack : (stack')[k] = stack[k]
         /\ (stack')[Len(stack) + 1].f = Len(funcs) + 1 /\ (stack')[Len(stack) + 1].s = 1
         /\ (stack')[Len(stack) + 1].tried = 0
<1> DEFINE fr == Frame(Len(funcs) + 1, TRUE)
<1>1. stack' = Append(stack, fr) /\ InBody  BY CopyMade
<1>2. stack \in Seq(Frames)  BY DEF TypeInv, StackInv
<1>3. fr.f = Len(funcs) + 1 /\ fr.s = 1 /\ fr.tried = 0  BY DEF Frame
<1> HIDE DEF fr
<1>4. /\ Len(stack) \in Nat /\ DOMAIN stack = 1 .. Len(stack)
      /\ DOMAIN stack' = 1 .. Len(stack) + 1 /\ Len(stack') = Len(stack) + 1
      /\ \A k \in DOMAIN stack : (stack')[k] = stack[k]
      /\ (stack')[Len(stack) + 1] = fr
  BY <1>1, <1>2, SMTT(20)
<1> QED  BY <1>1, <1>3, <1>4 DEF InBody

LEMMA CopyLeft ==
  ASSUME TypeInv, FinishInstance
  PROVE  /\ Visiting /\ Len(stack) \in Nat /\ Len(stack) > 1 /\ DOMAIN stack = 1 .. Len(stack)
         /\ top = stack[Len(stack)] /\ Caller = stack[Len(stack) - 1]
         /\ \/ stack' = <<>>
            \/ /\ ~ Orphan
               /\ DOMAIN stack' = 1 .. Len(stack) - 1 /\ Len(stack') = Len(stack) - 1
               /\ \A k \in DOMAIN stack' : (stack')[k].f = stack[k].f
               /\ \A k \in DOMAIN stack' : k # Len(stack) - 1 => (stack')[k] = stack[k]
               /\ (stack')[Len(stack) - 1].s = Caller.s + 1
               /\ (stack')[Len(stack) - 1].tried = 0
<1>1. Visiting /\ top.generated  BY DEF FinishInstance, BodyDone
<1>2. /\ Len(stack) \in Nat \ {0} /\ DOMAIN stack = 1 .. Len(stack) /\ top = stack[Len(stack)]
      /\ Len(stack) > 1
  BY <1>1, StackFacts, Zenon DEF TypeInv
<1>4. stack' = IF Orphan THEN <<>>
               ELSE [Front(stack) EXCEPT ![Len(stack) - 1].s = @ + 1, ![Len(stack) - 1].tried = 0]
  BY DEF FinishInstance, Orphan, Caller, Waiting
<1> DEFINE m == Len(stack) - 1
<1>7. ASSUME ~ Orphan
      PROVE  /\ DOMAIN stack' = 1 .. m /\ Len(stack') = m
             /\ \A k \in DOMAIN stack' : k # m => (stack')[k] = stack[k]
             /\ (stack')[m].f = Caller.f /\ (stack')[m].s = Caller.s + 1 /\ (stack')[m].tried = 0
  BY <1>1, <1>4, <1>7, FinishedStack DEF TypeInv
<1>8. Caller = stack[m]  BY DEF Caller
<1>9. ~ Orphan => \A k \in DOMAIN stack' : (stack')[k].f = stack[k].f
  BY <1>7, <1>8
<1> QED  BY <1>1, <1>2, <1>4, <1>7, <1>8, <1>9, Zenon

-----------------------------------------------------------------------------
(* A copy that is visited has returned values only.                        *)
LEMMA ForwardFrames ==
  ASSUME TypeInv, FramesInv, WritingKept, TypesLast, PosKept, NEW st, Forward(st)
  PROVE  FramesInv'
<1>1. /\ Wrote(st) /\ Visiting /\ top.f \in DOMAIN funcs /\ fun = funcs[top.f]
      /\ \A k \in DOMAIN stack' :
           /\ k \in DOMAIN stack /\ (stack')[k].f = stack[k].f
           /\ k # Len(stack) => (stack')[k] = stack[k]
           /\ k = Len(stack) => /\ (stack')[k].s = top.s + 1 /\ stack[k] = top
                                /\ top.generated /\ st.ret => st.fn = NoFunc /\ st.t # NoType
  BY ForwardFacts
<1> SUFFICES ASSUME NEW k \in DOMAIN stack', k > 1
             PROVE  /\ (funcs')[(stack')[k].f].pos # (stack')[k].f
                    /\ GivesValues((funcs')[(stack')[k].f], (stack')[k].s - 1)
  BY DEF FramesInv, IsCopy
<1> DEFINE i == stack[k].f
<1>2. /\ k \in DOMAIN stack /\ (stack')[k].f = i /\ i \in DOMAIN funcs
      /\ funcs[i].pos # i /\ GivesValues(funcs[i], stack[k].s - 1)
  <2>1. k \in DOMAIN stack  BY <1>1
  <2> QED  BY <1>1, <2>1 DEF FramesInv, IsCopy, TypeInv, StackInv
<1>3. (funcs')[i].pos # i  BY <1>2 DEF PosKept
<1>4. GivesValues((funcs')[i], stack[k].s - 1)
  <2> DEFINE n == stack[k].s - 1
  <2> HIDE DEF n, i
  <2>1. GivesValues(funcs[i], n)  BY <1>2 DEF n
  <2>2. GivesValues((funcs')[i], n)  BY <1>2, <2>1, ValuesLast
  <2> QED  BY <2>2 DEF n
<1>5. CASE k # Len(stack)  BY <1>1, <1>2, <1>3, <1>4, <1>5
<1>6. CASE k = Len(stack)
  <2>1. /\ i = top.f /\ stack[k].s = top.s /\ (stack')[k].s - 1 = top.s /\ top.s \in Nat
        /\ top.generated
    <3>1. top.s \in Nat /\ (top.generated <=> Len(stack) > 1)  BY <1>1, StackFacts DEF TypeInv
    <3> QED  BY <1>1, <1>6, <3>1
  <2>2. /\ (funcs')[i].body[top.s] = st /\ DOMAIN (funcs')[i].body = DOMAIN fun.body
        /\ fun.body \in Seq(Statement)
    BY <1>1, <2>1, WroteFacts, Zenon
  <2>3. st.ret => st.fn = NoFunc /\ st.t # NoType  BY <1>1, <1>6, <2>1
  <2> HIDE DEF i
  <2>4. ASSUME NEW s \in DOMAIN (funcs')[i].body, s <= top.s, (funcs')[i].body[s].ret
        PROVE  (funcs')[i].body[s].fn = NoFunc /\ (funcs')[i].body[s].t # NoType
    <3>1. CASE s = top.s  BY <2>2, <2>3, <2>4, <3>1
    <3>2. CASE s # top.s
      <4>1. s \in Nat  BY <2>2
      <4>2. s <= top.s - 1  BY <2>1, <2>4, <3>2, <4>1
      <4> QED  BY <1>4, <2>1, <2>4, <4>2 DEF GivesValues
    <3> QED  BY <3>1, <3>2
  <2>5. GivesValues((funcs')[i], top.s)  BY <2>4 DEF GivesValues
  <2> QED  BY <1>2, <1>3, <2>1, <2>5
<1> QED  BY <1>5, <1>6

LEMMA StepFrames ==
  ASSUME TypeInv, CallsInv, PosInv, FramesInv, WritingKept, TypesLast, PosKept, [Next]_vars
  PROVE  FramesInv'
<1>0. ASSUME NEW k \in DOMAIN stack, k > 1
      PROVE  /\ stack[k].f \in DOMAIN funcs /\ (funcs')[stack[k].f].pos # stack[k].f
             /\ GivesValues((funcs')[stack[k].f], stack[k].s - 1)
  <2> DEFINE i == stack[k].f
             n == stack[k].s - 1
  <2>1. i \in DOMAIN funcs /\ funcs[i].pos # i /\ GivesValues(funcs[i], n)
    BY <1>0 DEF FramesInv, IsCopy, TypeInv, StackInv
  <2> HIDE DEF i, n
  <2>2. (funcs')[i].pos # i  BY <2>1 DEF PosKept
  <2>3. GivesValues((funcs')[i], n)  BY <2>1, ValuesLast
  <2> QED  BY <2>1, <2>2, <2>3 DEF i, n
<1> USE DEF IsCopy
<1>1. CASE \E st : Forward(st)  BY <1>1, ForwardFrames
<1>2. CASE NextOverload
  <2>1. /\ DOMAIN stack' = DOMAIN stack
        /\ \A k \in DOMAIN stack : (stack')[k].f = stack[k].f /\ (stack')[k].s = stack[k].s
    BY <1>2, AttemptStays
  <2> QED  BY <1>0, <2>1 DEF FramesInv
<1>3. CASE CallGeneric
  <2>1. /\ Len(stack) \in Nat /\ DOMAIN stack = 1 .. Len(stack)
        /\ DOMAIN stack' = 1 .. Len(stack) + 1
        /\ \A k \in DOMAIN stack : (stack')[k] = stack[k]
        /\ (stack')[Len(stack) + 1].f = Len(funcs) + 1 /\ (stack')[Len(stack) + 1].s = 1
    BY <1>3, CopyStacked
  <2>2. PICK g \in DOMAIN funcs :
          /\ IsGeneric(funcs[g]) /\ DOMAIN funcs = 1 .. Len(funcs) /\ Len(funcs) \in Nat
          /\ DOMAIN funcs' = 1 .. Len(funcs) + 1
          /\ (funcs')[Len(funcs) + 1].pos = funcs[g].pos
    BY <1>3, CopyMade
  <2> DEFINE c == (funcs')[Len(funcs) + 1]
  <2>3. c.pos # Len(funcs) + 1
    <3>1. funcs[g].pos = g  BY <2>2 DEF PosInv
    <3> QED  BY <2>2, <3>1
  <2>4. GivesValues(c, 0)
    <3>1. c \in Function  BY <2>2 DEF WritingKept, HeadsKept
    <3> HIDE DEF c
    <3>2. \A s \in DOMAIN c.body : ~ (s <= 0)  BY <3>1, FunctionFields
    <3> QED  BY <3>2 DEF GivesValues
  <2>5. ASSUME NEW k \in DOMAIN stack', k > 1
        PROVE  /\ (funcs')[(stack')[k].f].pos # (stack')[k].f
               /\ GivesValues((funcs')[(stack')[k].f], (stack')[k].s - 1)
    <3>1. CASE k \in DOMAIN stack  BY <1>0, <2>1, <2>5, <3>1
    <3>2. CASE k = Len(stack) + 1
      <4>1. (stack')[k].f = Len(funcs) + 1 /\ (stack')[k].s - 1 = 0  BY <2>1, <3>2
      <4> QED  BY <2>3, <2>4, <4>1
    <3> QED  BY <2>1, <2>5, <3>1, <3>2
  <2> QED  BY <2>5 DEF FramesInv
<1>4. CASE FinishFunc
  <2>1. stack' = <<>>  BY <1>4 DEF FinishFunc
  <2> QED  BY <2>1 DEF FramesInv
<1>5. CASE FinishInstance
  <2> DEFINE m == Len(stack) - 1
  <2>1. /\ Visiting /\ Len(stack) \in Nat /\ Len(stack) > 1 /\ DOMAIN stack = 1 .. Len(stack)
        /\ Caller = stack[m]
        /\ \/ stack' = <<>>
           \/ /\ ~ Orphan
              /\ DOMAIN stack' = 1 .. m
              /\ \A k \in DOMAIN stack' : (stack')[k].f = stack[k].f
              /\ \A k \in DOMAIN stack' : k # m => (stack')[k] = stack[k]
              /\ (stack')[m].s = Caller.s + 1
    BY <1>5, CopyLeft, Zenon
  <2>2. CASE stack' = <<>>  BY <2>2 DEF FramesInv
  <2>3. CASE ~ Orphan /\ stack' # <<>>
    <3> SUFFICES ASSUME NEW k \in DOMAIN stack', k > 1
                 PROVE  /\ (funcs')[(stack')[k].f].pos # (stack')[k].f
                        /\ GivesValues((funcs')[(stack')[k].f], (stack')[k].s - 1)
      BY DEF FramesInv
    <3>1. k \in DOMAIN stack /\ (stack')[k].f = stack[k].f  BY <2>1, <2>3
    <3>2. CASE k # m  BY <1>0, <2>1, <2>3, <3>1, <3>2
    <3>3. CASE k = m
      <4> DEFINE i == Caller.f
      <4>1. /\ (stack')[k].f = i /\ (stack')[k].s = Caller.s + 1
            /\ (funcs')[i].pos # i /\ GivesValues((funcs')[i], Caller.s - 1) /\ i \in DOMAIN funcs
        BY <1>0, <2>1, <2>3, <3>1, <3>3
      <4>2. Caller.generated /\ ~ Waiting.ret
        <5>1. stack[k].generated  BY <3>1 DEF TypeInv, StackInv
        <5> QED  BY <2>1, <2>3, <3>3, <5>1 DEF Orphan
      <4>3. Caller.s \in Nat /\ Caller.s \in DOMAIN funcs[i].body
        <5>1. top.generated  BY <1>5 DEF FinishInstance
        <5> QED  BY <2>1, <5>1, CallerFacts, Zenon DEF TypeInv
      <4>4. ~ (funcs')[i].body[Caller.s].ret /\ (funcs')[i].body \in Seq(Statement)
        <5>1. (funcs')[i].body[Caller.s].ret = funcs[i].body[Caller.s].ret
          BY <4>1, <4>3 DEF WritingKept, BodiesKept, StaysAs
        <5>2. i \in DOMAIN funcs'  BY <4>1, HeadsFacts DEF WritingKept
        <5>3. (funcs')[i] \in Function  BY <5>2 DEF WritingKept, HeadsKept
        <5> QED  BY <4>2, <5>1, <5>3, FunctionFields DEF Waiting
      <4> HIDE DEF i
      <4>5. ASSUME NEW s \in DOMAIN (funcs')[i].body, s <= Caller.s, (funcs')[i].body[s].ret
            PROVE  (funcs')[i].body[s].fn = NoFunc /\ (funcs')[i].body[s].t # NoType
        <5>1. s # Caller.s  BY <4>4, <4>5
        <5>2. s \in Nat  BY <4>4
        <5>3. s <= Caller.s - 1  BY <4>3, <4>5, <5>1, <5>2
        <5> QED  BY <4>1, <4>5, <5>3 DEF GivesValues
      <4>6. GivesValues((funcs')[i], Caller.s)  BY <4>5 DEF GivesValues
      <4>7. (stack')[k].s - 1 = Caller.s  BY <4>1, <4>3
      <4> QED  BY <4>1, <4>6, <4>7
    <3> QED  BY <3>2, <3>3
  <2> QED  BY <2>1, <2>2, <2>3, Zenon
<1>6. CASE Walked
  <2>1. CASE stack' = <<>> \/ Len(stack') = 1
    <3>1. stack' \in Seq(Frames)
      <4>1. TypeInv'  BY NextTypes
      <4> QED  BY <4>1 DEF TypeInv, StackInv
    <3>2. \A k \in DOMAIN stack' : ~ (k > 1)  BY <2>1, <3>1
    <3> QED  BY <3>2 DEF FramesInv
  <2>2. CASE stack' = stack  BY <1>0, <2>2 DEF FramesInv
  <2> QED  BY <1>6, <2>1, <2>2 DEF Walked
<1> QED  BY <1>1, <1>2, <1>3, <1>4, <1>5, <1>6, StepCases

(* A copy that is done has a type, or returns what does not go together.   *)
LEMMA StepPlaced ==
  ASSUME TypeInv, CallsInv, FramesInv, PlacedInv, WritingKept, TypesLast, PosKept, [Next]_vars
  PROVE  PlacedInv'
<1>1. ASSUME NEW i \in DOMAIN funcs, i \in Placed, (funcs')[i].pos # i
      PROVE  Decided((funcs')[i])
  <2>1. IsCopy(i)  BY <1>1 DEF PosKept, IsCopy
  <2>2. Decided(funcs[i])  BY <1>1, <2>1 DEF PlacedInv
  <2> QED  BY <2>2, DecidedLasts
<1>2. ASSUME order' = order  PROVE PlacedInv'
  <2>1. Placed \subseteq DOMAIN funcs
    <3>1. order \in Seq(DOMAIN funcs)  BY DEF TypeInv, TablesInv
    <3> QED  BY <3>1 DEF Placed
  <2>2. Placed' = Placed  BY <1>2 DEF Placed
  <2> QED  BY <1>1, <2>1, <2>2 DEF PlacedInv, IsCopy
<1>3. CASE FinishInstance
  <2> DEFINE g == Resolved(fun, FALSE)
  <2>1. g = Resolved(fun, FALSE)  OBVIOUS
  <2> HIDE DEF g
  <2>2. /\ g.body = fun.body /\ g.ret = fun.ret
        /\ fun.typed => g.typed
        /\ ~ fun.typed /\ ~ g.typed => ResultType(fun) = NoType
        /\ Len(order') = Len(order) + 1 /\ (order')[Len(order) + 1] = top.f
        /\ DOMAIN order' = 1 .. Len(order) + 1 /\ DOMAIN order = 1 .. Len(order) /\ Len(order) \in Nat
        /\ \A k \in DOMAIN order : (order')[k] = order[k]
        /\ top.s > Len(fun.body)
    BY <1>3, <2>1, FinishInstanceFacts
  <2>3. Visiting /\ top.f \in DOMAIN funcs /\ fun = funcs[top.f] /\ (funcs')[top.f] = g
        /\ DOMAIN funcs' = DOMAIN funcs
    BY <1>3, <2>1, FinishInstanceWriting DEF CallsInv
  <2>4. \A i \in Placed' : i \in Placed \/ i = top.f  BY <2>2 DEF Placed
  <2>5. fun \in Function /\ fun.body \in Seq(Statement) /\ Len(fun.body) \in Nat
        /\ DOMAIN fun.body = 1 .. Len(fun.body)
    BY <2>3, FuncsFacts, FunctionFields DEF TypeInv
  <2>6. GivesValues(fun, Len(fun.body))
    <3>1. top = stack[Len(stack)] /\ Len(stack) \in DOMAIN stack /\ Len(stack) > 1
      BY <1>3, <2>3, StackFacts, CopyLeft, Zenon DEF TypeInv
    <3>2. GivesValues(fun, top.s - 1)  BY <2>3, <3>1 DEF FramesInv
    <3>3. top.s \in Nat  BY <2>3, StackFacts DEF TypeInv
    <3>4. \A s \in DOMAIN fun.body : s <= top.s - 1  BY <2>2, <2>5, <3>3
    <3> QED  BY <3>2, <3>4, Zenon DEF GivesValues
  <2>7. ASSUME ~ g.typed  PROVE fun.ret = NoType /\ ~ GoTogether(fun)
    <3>1. ResultType(fun) = NoType  BY <2>2, <2>7
    <3>2. fun.ret = NoType /\ Deduction(fun) = NoType  BY <3>1 DEF ResultType
    <3>3. Returns(fun) # {}  BY <3>2, TypesAssumption DEF Deduction
    <3>4. PICK s \in Returns(fun) : TRUE  BY <3>3
    <3>5. s \in DOMAIN fun.body /\ fun.body[s].ret /\ s <= Len(fun.body)  BY <2>5 DEF Returns
    <3>6. s \in Known(fun)  BY <2>6, <3>4, <3>5 DEF GivesValues, Known
    <3> QED  BY <2>5, <3>2, <3>3, <3>6, DeductionFacts DEF Deduction
  <2>8. GoTogether(g) <=> GoTogether(fun)
    <3>1. Known(g) = Known(fun)  BY <2>2 DEF Known, Returns
    <3> QED  BY <2>2, <3>1 DEF GoTogether
  <2>9. GivesValues(g, Len(g.body))  BY <2>2, <2>6 DEF GivesValues
  <2>10. Decided(g)  BY <2>2, <2>7, <2>8, <2>9 DEF Decided
  <2> QED  BY <1>1, <2>3, <2>4, <2>10 DEF PlacedInv, IsCopy
<1>4. CASE \E st : Forward(st)
  <2>1. order' = order  BY <1>4, ForwardFacts
  <2> QED  BY <1>2, <2>1
<1>5. CASE NextOverload  BY <1>2, <1>5 DEF NextOverload
<1>6. CASE CallGeneric  BY <1>2, <1>6 DEF CallGeneric
<1>7. CASE FinishFunc  BY <1>2, <1>7 DEF FinishFunc
<1>8. CASE Walked  BY <1>2, <1>8 DEF Walked
<1> QED  BY <1>3, <1>4, <1>5, <1>6, <1>7, <1>8, StepCases

(* A copy is of a function on a lower level than the copies that wait.     *)
LEMMA StepLevels ==
  ASSUME TypeInv, CallsInv, PosInv, FramesInv, LevelInv, WritingKept, PosKept, [Next]_vars
  PROVE  LevelInv'
<1> SUFFICES ASSUME NEW level \in [Names -> Nat], Descends(level)',
                    NEW j \in DOMAIN stack', NEW k \in DOMAIN stack', 1 < j, j < k
             PROVE  level[(funcs')[(stack')[k].f].name] < level[(funcs')[(stack')[j].f].name]
  BY DEF LevelInv
<1>1. Descends(level)  BY DescendsBefore
<1>2. \A i \in DOMAIN funcs : (funcs')[i].name = funcs[i].name /\ funcs[i].name \in Names
  BY FuncsFacts, FunctionFields DEF TypeInv, WritingKept, HeadsKept
<1>3. ASSUME j \in DOMAIN stack, k \in DOMAIN stack, (stack')[j].f = stack[j].f, (stack')[k].f = stack[k].f
      PROVE  level[(funcs')[(stack')[k].f].name] < level[(funcs')[(stack')[j].f].name]
  <2>1. stack[j].f \in DOMAIN funcs /\ stack[k].f \in DOMAIN funcs  BY <1>3 DEF TypeInv, StackInv
  <2>2. level[funcs[stack[k].f].name] < level[funcs[stack[j].f].name]
    BY <1>1, <1>3 DEF LevelInv
  <2> QED  BY <1>2, <1>3, <2>1, <2>2
<1>4. CASE \E st : Forward(st)
  <2>1. \A b \in DOMAIN stack' : b \in DOMAIN stack /\ (stack')[b].f = stack[b].f
    BY <1>4, ForwardFacts
  <2> QED  BY <1>3, <2>1
<1>5. CASE NextOverload
  <2>1. DOMAIN stack' = DOMAIN stack /\ \A b \in DOMAIN stack : (stack')[b].f = stack[b].f
    BY <1>5, AttemptStays
  <2> QED  BY <1>3, <2>1
<1>6. CASE CallGeneric
  <2>1. /\ Visiting /\ Len(stack) \in Nat /\ DOMAIN stack = 1 .. Len(stack)
        /\ DOMAIN stack' = 1 .. Len(stack) + 1
        /\ \A b \in DOMAIN stack : (stack')[b] = stack[b]
        /\ (stack')[Len(stack) + 1].f = Len(funcs) + 1
    BY <1>6, CopyStacked
  <2>2. CASE k \in DOMAIN stack
    <3>1. j \in DOMAIN stack  BY <2>1, <2>2
    <3> QED  BY <1>3, <2>1, <2>2, <3>1
  <2>3. CASE k = Len(stack) + 1
    <3>1. j \in DOMAIN stack /\ Len(stack) > 1 /\ j <= Len(stack)  BY <2>1, <2>3
    <3>2. InBody /\ stmt.fn \in Names /\ (funcs')[Len(funcs) + 1].name = stmt.fn
      BY <1>6, CopyMade
    <3>3. /\ top = stack[Len(stack)] /\ Len(stack) \in DOMAIN stack
          /\ top.f \in DOMAIN funcs
      BY <2>1, StackFacts DEF TypeInv
    <3>4. fun = funcs[top.f] /\ top.s \in DOMAIN fun.body /\ stmt = fun.body[top.s]
      BY <3>2, BodyFacts DEF TypeInv
    <3>5. IsGeneric(funcs[fun.pos])
      <4>1. IsCopy(top.f)  BY <3>1, <3>3 DEF FramesInv
      <4> QED  BY <3>3, <3>4, <4>1 DEF IsCopy, PosInv
    <3>6. stmt.fn # NoFunc  BY <3>2, FuncDeclsAssumption
    <3>7. level[stmt.fn] < level[fun.name]  BY <1>1, <3>3, <3>4, <3>5, <3>6 DEF Descends
    <3>8. stack[j].f \in DOMAIN funcs /\ (stack')[j].f = stack[j].f
      BY <2>1, <3>1 DEF TypeInv, StackInv
    <3>9. level[fun.name] <= level[funcs[stack[j].f].name]
      <4>1. level[fun.name] \in Nat /\ level[funcs[stack[j].f].name] \in Nat  BY <1>2, <3>3, <3>4, <3>8
      <4>2. CASE j = Len(stack)  BY <3>3, <3>4, <4>1, <4>2
      <4>3. CASE j < Len(stack)
        <5>1. level[fun.name] < level[funcs[stack[j].f].name]
          BY <1>1, <3>1, <3>3, <3>4, <4>3 DEF LevelInv
        <5> QED  BY <4>1, <5>1
      <4> QED  BY <2>1, <3>1, <4>2, <4>3
    <3>10. level[stmt.fn] \in Nat /\ level[fun.name] \in Nat /\ level[funcs[stack[j].f].name] \in Nat
      BY <1>2, <3>2, <3>3, <3>4, <3>8
    <3>11. level[stmt.fn] < level[funcs[stack[j].f].name]  BY <3>7, <3>9, <3>10
    <3> QED  BY <1>2, <2>1, <2>3, <3>2, <3>8, <3>11
  <2> QED  BY <2>1, <2>2, <2>3
<1>7. CASE FinishFunc
  <2>1. stack' = <<>>  BY <1>7 DEF FinishFunc
  <2> QED  BY <2>1
<1>8. CASE FinishInstance
  <2>1. \/ stack' = <<>>
        \/ /\ DOMAIN stack' = 1 .. Len(stack) - 1 /\ DOMAIN stack = 1 .. Len(stack) /\ Len(stack) \in Nat
           /\ \A b \in DOMAIN stack' : (stack')[b].f = stack[b].f
    BY <1>8, CopyLeft, Zenon
  <2>2. CASE stack' = <<>>  BY <2>2
  <2>3. CASE stack' # <<>>
    <3>1. j \in DOMAIN stack /\ k \in DOMAIN stack  BY <2>1, <2>3
    <3> QED  BY <1>3, <2>1, <2>3, <3>1
  <2> QED  BY <2>2, <2>3, Zenon
<1>9. CASE Walked
  <2>1. CASE stack' = <<>> \/ Len(stack') = 1
    <3>1. stack' \in Seq(Frames)
      <4>1. TypeInv'  BY NextTypes
      <4> QED  BY <4>1 DEF TypeInv, StackInv
    <3>2. \A b \in DOMAIN stack' : ~ (b > 1)  BY <2>1, <3>1
    <3>3. j \in Nat  BY <3>1
    <3> QED  BY <3>2, <3>3
  <2>2. CASE stack' = stack  BY <1>3, <2>2
  <2> QED  BY <1>9, <2>1, <2>2 DEF Walked
<1> QED  BY <1>4, <1>5, <1>6, <1>7, <1>8, <1>9, StepCases

(* Every function that has a type is among the overloads of its name.      *)
LEMMA DeclaredListed ==
  ASSUME TypeInv, NEW g, ResolveFuncType(fun, g), fun.name \in Names
  PROVE  /\ \A n \in Names : \A k \in DOMAIN overloads[n] :
              k \in DOMAIN (overloads')[n] /\ (overloads')[n][k] = overloads[n][k]
         /\ g.typed /\ ~ fun.typed =>
              \E k \in DOMAIN (overloads')[fun.name] : (overloads')[fun.name][k] = top.f
<1>1. CASE fun.typed \/ ~ g.typed
  <2>1. overloads' = overloads  BY <1>1 DEF ResolveFuncType, Declare
  <2> QED  BY <1>1, <2>1
<1>2. CASE ~ fun.typed /\ g.typed
  <2> DEFINE q == overloads[fun.name]
             r == Append(q, top.f)
  <2>1. overloads' = [overloads EXCEPT ![fun.name] = r]
    BY <1>2 DEF ResolveFuncType, Declare
  <2>2. overloads \in [Names -> Seq(DOMAIN funcs)] /\ q \in Seq(DOMAIN funcs)
    BY DEF TypeInv, TablesInv
  <2>3. /\ \A k \in DOMAIN q : k \in DOMAIN r /\ r[k] = q[k]
        /\ Len(q) + 1 \in DOMAIN r /\ r[Len(q) + 1] = top.f
    <3> HIDE DEF q
    <3> QED  BY <2>2
  <2> HIDE DEF r
  <2>4. /\ (overloads')[fun.name] = r
        /\ \A n \in Names : n # fun.name => (overloads')[n] = overloads[n]
    BY <2>1, <2>2
  <2> QED  BY <2>3, <2>4
<1> QED  BY <1>1, <1>2

LEMMA StepListed ==
  ASSUME TypeInv, CallsInv, ListedInv, WritingKept, [Next]_vars
  PROVE  ListedInv'
<1>1. ASSUME overloads' = overloads,
             \A i \in DOMAIN funcs' : (funcs')[i].typed =>
               i \in DOMAIN funcs /\ funcs[i].typed /\ (funcs')[i].name = funcs[i].name
      PROVE  ListedInv'
  BY <1>1 DEF ListedInv
<1>2. CASE \E st : Forward(st)
  <2>1. /\ DOMAIN funcs' = DOMAIN funcs /\ overloads' = overloads
        /\ \A i \in DOMAIN funcs : SameHead(funcs[i], (funcs')[i])
    BY <1>2, ForwardFacts
  <2> QED  BY <1>1, <2>1 DEF SameHead
<1>3. CASE NextOverload
  <2>1. /\ DOMAIN funcs' = DOMAIN funcs /\ overloads' = overloads
        /\ \A i \in DOMAIN funcs : SameHead(funcs[i], (funcs')[i])
    BY <1>3, AttemptStays
  <2> QED  BY <1>1, <2>1 DEF SameHead
<1>4. CASE CallGeneric
  <2>1. /\ DOMAIN funcs' = 1 .. Len(funcs) + 1 /\ DOMAIN funcs = 1 .. Len(funcs) /\ Len(funcs) \in Nat
        /\ ~ (funcs')[Len(funcs) + 1].typed /\ overloads' = overloads
        /\ \A i \in DOMAIN funcs : SameHead(funcs[i], (funcs')[i])
    BY <1>4, CopyMade
  <2>2. \A i \in DOMAIN funcs' : i \in DOMAIN funcs \/ i = Len(funcs) + 1  BY <2>1
  <2> QED  BY <1>1, <2>1, <2>2 DEF SameHead
<1>5. ASSUME NEW g, ResolveFuncType(fun, g), top.f \in DOMAIN funcs, fun = funcs[top.f],
             (funcs')[top.f] = g, DOMAIN funcs' = DOMAIN funcs,
             \A i \in DOMAIN funcs : i # top.f => (funcs')[i].typed = funcs[i].typed
      PROVE  ListedInv'
  <2>1. \A i \in DOMAIN funcs : (funcs')[i].name = funcs[i].name /\ funcs[i].name \in Names
    BY FuncsFacts, FunctionFields DEF TypeInv, WritingKept, HeadsKept
  <2>2. /\ \A n \in Names : \A k \in DOMAIN overloads[n] :
             k \in DOMAIN (overloads')[n] /\ (overloads')[n][k] = overloads[n][k]
        /\ g.typed /\ ~ fun.typed =>
             \E k \in DOMAIN (overloads')[fun.name] : (overloads')[fun.name][k] = top.f
    BY <1>5, <2>1, DeclaredListed
  <2>3. ASSUME NEW i \in DOMAIN funcs, (funcs')[i].typed
        PROVE  \E k \in DOMAIN (overloads')[funcs[i].name] : (overloads')[funcs[i].name][k] = i
    <3>1. CASE funcs[i].typed
      <4>1. PICK k \in DOMAIN overloads[funcs[i].name] : overloads[funcs[i].name][k] = i
        BY <3>1 DEF ListedInv
      <4> QED  BY <2>1, <2>2, <4>1
    <3>2. CASE ~ funcs[i].typed
      <4>1. i = top.f /\ g.typed /\ ~ fun.typed  BY <1>5, <2>3, <3>2
      <4> QED  BY <1>5, <2>2, <4>1
    <3> QED  BY <3>1, <3>2
  <2> QED  BY <1>5, <2>1, <2>3 DEF ListedInv
<1>6. CASE FinishFunc
  <2> DEFINE g == Resolved(fun, pass = "register")
  <2>1. g = Resolved(fun, pass = "register")  OBVIOUS
  <2> HIDE DEF g
  <2>2. /\ top.f \in DOMAIN funcs /\ fun = funcs[top.f] /\ ResolveFuncType(fun, g)
        /\ DOMAIN funcs' = DOMAIN funcs /\ (funcs')[top.f] = g
        /\ \A i \in DOMAIN funcs : i # top.f => (funcs')[i] = funcs[i]
    BY <1>6, <2>1, FinishFuncFacts
  <2> QED  BY <1>5, <2>2
<1>7. CASE FinishInstance
  <2> DEFINE g == Resolved(fun, FALSE)
  <2>1. g = Resolved(fun, FALSE)  OBVIOUS
  <2> HIDE DEF g
  <2>2. /\ top.f \in DOMAIN funcs /\ fun = funcs[top.f] /\ (funcs')[top.f] = g
        /\ DOMAIN funcs' = DOMAIN funcs /\ ResolveFuncType(fun, g)
        /\ \A i \in DOMAIN funcs : i # top.f => SameHead(funcs[i], (funcs')[i])
    BY <1>7, <2>1, FinishInstanceWriting DEF CallsInv
  <2> QED  BY <1>5, <2>2 DEF SameHead
<1>8. CASE Walked  BY <1>8 DEF Walked, ListedInv
<1> QED  BY <1>2, <1>3, <1>4, <1>6, <1>7, <1>8, StepCases

-----------------------------------------------------------------------------
(* The overloads tried do not take the arguments of the call.              *)
LEMMA NoLiteralArgs ==
  ASSUME TypeInv, InBody, NoLiterals, stmt.fn # NoFunc, GenericNamed(stmt.fn)
  PROVE  /\ \A k \in DOMAIN callArgs : ~ callArgs[k].lit
         /\ DOMAIN callArgs = DOMAIN stmt.args /\ TypedArgs(callArgs) /\ Len(callArgs) = Len(stmt.args)
<1>1. /\ fun = funcs[top.f] /\ top.s \in DOMAIN fun.body /\ stmt = fun.body[top.s]
      /\ stmt \in Statement
  BY BodyFacts DEF TypeInv
<1>2. top.f \in DOMAIN funcs  BY StackFacts DEF TypeInv, InBody
<1>3. \A k \in DOMAIN stmt.args : ~ stmt.args[k].lit
  BY <1>1, <1>2 DEF NoLiterals, GenericNamed, Named
<1>4. /\ TypedArgs(callArgs) /\ Len(callArgs) = Len(stmt.args)
      /\ \A k \in DOMAIN stmt.args : callArgs[k].lit = stmt.args[k].lit
  BY TypedsFacts DEF TypeInv
<1>5. DOMAIN callArgs = DOMAIN stmt.args  BY DEF callArgs, Typeds
<1> QED  BY <1>3, <1>4, <1>5

LEMMA TypedParams ==
  ASSUME TypeInv, NEW i \in DOMAIN funcs, funcs[i].typed
  PROVE  /\ funcs[i].params \in Seq(Types \cup {Untyped})
         /\ \A k \in DOMAIN funcs[i].params : funcs[i].params[k] \in Types
<1>1. funcs[i] \in Function /\ GoodFunction(funcs[i])  BY FuncsFacts DEF TypeInv
<1>2. ~ IsGeneric(funcs[i])  BY <1>1 DEF GoodFunction, Parsed
<1> QED  BY <1>1, <1>2, FunctionFields DEF IsGeneric

LEMMA SameCallArgs ==
  ASSUME TypeInv, NextOverload, NoLiterals, GenericNamed(stmt.fn)
  PROVE  callArgs' = callArgs /\ stmt'.fn = stmt.fn
<1>1. PICK st : /\ Wrote(st) /\ st.fn # NoFunc
                /\ \/ st = stmt
                   \/ AttemptLeaves(callArgs, st.args) /\ KeepsArgs(callArgs, st.args)
  BY NextOverloadFacts
<1>2. stack' = [stack EXCEPT ![Len(stack)].tried = @ + 1]  BY DEF NextOverload
<1>3. fun'.params = fun.params /\ stmt' = st /\ st.fn = stmt.fn /\ InBody
  BY <1>1, <1>2, NextStands DEF Wrote
<1>4. /\ \A k \in DOMAIN callArgs : ~ callArgs[k].lit
      /\ DOMAIN callArgs = DOMAIN stmt.args /\ TypedArgs(callArgs)
      /\ callArgs \in Seq(Arg)
  BY <1>1, <1>3, NoLiteralArgs DEF TypedArgs
<1>5. \A k \in DOMAIN stmt.args : callArgs[k] = Typed(stmt.args[k])  BY DEF callArgs, Typeds
<1>6. callArgs' = [k \in DOMAIN st.args |->
                     IF st.args[k].lit \/ st.args[k].cast THEN st.args[k]
                     ELSE [st.args[k] EXCEPT !.t = fun.params[st.args[k].v]]]
  BY <1>3 DEF callArgs, Typeds, Typed
<1>7. CASE st = stmt
  <2>1. callArgs = [k \in DOMAIN stmt.args |->
                      IF stmt.args[k].lit \/ stmt.args[k].cast THEN stmt.args[k]
                      ELSE [stmt.args[k] EXCEPT !.t = fun.params[stmt.args[k].v]]]
    BY DEF callArgs, Typeds, Typed
  <2>2. callArgs' = callArgs  BY <1>6, <1>7, <2>1
  <2> QED  BY <1>1, <1>3, <2>2
<1>8. CASE AttemptLeaves(callArgs, st.args) /\ KeepsArgs(callArgs, st.args)
  <2>1. st.args \in Seq(Arg) /\ Len(st.args) = Len(callArgs)  BY <1>8 DEF KeepsArgs
  <2>2. DOMAIN st.args = DOMAIN callArgs  BY <1>4, <2>1
  <2>3. \A k \in DOMAIN callArgs : st.args[k] = callArgs[k]
    BY <1>4, <1>8 DEF AttemptLeaves, LeftOver, Literal
  <2>4. ASSUME NEW k \in DOMAIN callArgs
        PROVE  callArgs[k] = IF callArgs[k].lit \/ callArgs[k].cast THEN callArgs[k]
                             ELSE [callArgs[k] EXCEPT !.t = fun.params[callArgs[k].v]]
    <3> DEFINE a == stmt.args[k]
    <3>1. a \in Arg /\ callArgs[k] = Typed(a)
      <4>1. stmt \in Statement  BY <1>3, BodyFacts DEF TypeInv
      <4> QED  BY <1>4, <1>5, <4>1, StatementFields
    <3>2. CASE a.lit \/ a.cast  BY <3>1, <3>2 DEF Typed
    <3>3. CASE ~ (a.lit \/ a.cast)
      <4>1. callArgs[k] = [a EXCEPT !.t = fun.params[a.v]]  BY <3>1, <3>3 DEF Typed
      <4> HIDE DEF a
      <4>2. callArgs[k].v = a.v /\ callArgs[k].lit = a.lit /\ callArgs[k].cast = a.cast
        BY <3>1, <4>1 DEF Arg
      <4>3. [callArgs[k] EXCEPT !.t = fun.params[a.v]] = callArgs[k]
        BY <3>1, <4>1 DEF Arg
      <4> QED  BY <3>3, <4>2, <4>3
    <3> QED  BY <3>2, <3>3
  <2>5. callArgs' = [k \in DOMAIN callArgs |-> callArgs[k]]  BY <1>6, <2>2, <2>3, <2>4
  <2> QED  BY <1>3, <1>4, <2>5
<1> QED  BY <1>1, <1>3, <1>7, <1>8

LEMMA AttemptCompared ==
  ASSUME TypeInv, ComparedInv, WritingKept, NextOverload, NoLiterals', GenericNamed(stmt.fn)'
  PROVE  \A k \in 1 .. top'.tried : Refuses((funcs')[(overloads')[stmt'.fn][k]], callArgs')
<1>1. /\ Visiting /\ DOMAIN funcs' = DOMAIN funcs /\ overloads' = overloads
      /\ \A i \in DOMAIN funcs : SameHead(funcs[i], (funcs')[i])
      /\ Len(stack') = Len(stack) /\ (stack')[Len(stack)].tried = top.tried + 1
  BY AttemptStays
<1>2. top'.tried = top.tried + 1  BY <1>1 DEF top, Last
<1>3. NoLiterals  BY LiteralsBefore
<1>4. Comparing  BY DEF NextOverload
<1>5. /\ InBody /\ stmt.fn \in Names /\ candidate \in DOMAIN funcs /\ funcs[candidate].typed
      /\ funcs[candidate].params \in Seq(Types \cup {Untyped})
  BY <1>4, CandidateFacts
<1>6. PICK st : Wrote(st)  BY NextOverloadFacts
<1>7. stack' = [stack EXCEPT ![Len(stack)].tried = @ + 1]  BY DEF NextOverload
<1>8. stmt'.fn = stmt.fn  BY <1>6, <1>7, NextStands DEF Wrote
<1>9. GenericNamed(stmt.fn)
  <2>1. PICK h \in DOMAIN funcs' : IsGeneric((funcs')[h]) /\ (funcs')[h].name = stmt'.fn
    BY DEF GenericNamed
  <2>2. h \in DOMAIN funcs /\ IsGeneric(funcs[h]) /\ funcs[h].name = stmt.fn
    BY <1>1, <1>8, <2>1, HeadsFacts DEF WritingKept, SameHead
  <2> QED  BY <2>2 DEF GenericNamed
<1>10. callArgs' = callArgs  BY <1>3, <1>9, SameCallArgs
<1>11. top.tried \in Nat  BY <1>1, StackFacts DEF TypeInv
<1>12. top.tried < Len(Candidates)  BY <1>4 DEF Comparing
<1>13. Candidates = overloads[stmt.fn] /\ overloads[stmt.fn] \in Seq(DOMAIN funcs)
  <2>1. CASE stmt.fn \in bases  BY <1>5, <2>1 DEF Candidates, TypeInv, TablesInv
  <2>2. CASE stmt.fn \notin bases  BY <1>11, <1>12, <2>2 DEF Candidates
  <2> QED  BY <2>1, <2>2
<1>14. stmt.fn # NoFunc  BY <1>5, FuncDeclsAssumption
<1>15. /\ \A k \in DOMAIN callArgs : ~ callArgs[k].lit
       /\ TypedArgs(callArgs) /\ Len(callArgs) = Len(stmt.args)
  BY <1>3, <1>5, <1>9, <1>14, NoLiteralArgs
<1>16. ASSUME NEW k \in 1 .. top.tried + 1  PROVE Refuses(funcs[overloads[stmt.fn][k]], callArgs)
  <2>1. CASE k <= top.tried
    <3>1. k \in 1 .. top.tried /\ top.tried > 0  BY <1>11, <1>16, <2>1
    <3> QED  BY <1>1, <1>3, <1>9, <3>1 DEF ComparedInv
  <2>2. CASE k = top.tried + 1
    <3>1. overloads[stmt.fn][k] = candidate  BY <1>13, <2>2 DEF candidate
    <3>2. ASSUME Len(funcs[candidate].params) = Len(callArgs)
          PROVE  \E b \in DOMAIN callArgs : ~ Fits(callArgs[b], funcs[candidate].params[b])
      <4>1. SameLength  BY <1>15, <3>2 DEF SameLength
      <4>2. ~ Match(funcs[candidate].params, callArgs).ok  BY <4>1 DEF NextOverload
      <4>3. \A b \in DOMAIN funcs[candidate].params : funcs[candidate].params[b] \in Types
        BY <1>5, TypedParams
      <4> QED  BY <1>5, <1>15, <3>2, <4>2, <4>3, MatchFits
    <3> QED  BY <3>1, <3>2 DEF Refuses
  <2> QED  BY <1>11, <1>16, <2>1, <2>2
<1>17. ASSUME NEW k \in 1 .. top.tried + 1
       PROVE  (funcs')[overloads[stmt.fn][k]].params = funcs[overloads[stmt.fn][k]].params
  <2>1. k \in DOMAIN overloads[stmt.fn]  BY <1>11, <1>12, <1>13, <1>17
  <2>2. overloads[stmt.fn][k] \in DOMAIN funcs  BY <1>13, <2>1
  <2> QED  BY <1>1, <2>2 DEF SameHead
<1>18. ASSUME NEW k \in 1 .. top.tried + 1
       PROVE  Refuses((funcs')[overloads[stmt.fn][k]], callArgs)
  BY <1>16, <1>17 DEF Refuses
<1> QED  BY <1>1, <1>2, <1>8, <1>10, <1>18

LEMMA ComparedAnew ==
  ASSUME stack' = <<>> \/ (stack')[Len(stack')].tried = 0
  PROVE  ComparedInv'
<1>1. Visiting' => ~ (top'.tried > 0)  BY DEF Visiting, top, Last
<1> QED  BY <1>1 DEF ComparedInv

LEMMA StepCompared ==
  ASSUME TypeInv, ComparedInv, WritingKept, [Next]_vars
  PROVE  ComparedInv'
<1>1. CASE \E st : Forward(st)
  <2>1. stack' = <<>> \/ (stack')[Len(stack')].tried = 0  BY <1>1, ForwardFacts
  <2> QED  BY <2>1, ComparedAnew
<1>2. CASE NextOverload
  <2>1. NoLiterals' /\ GenericNamed(stmt.fn)' =>
          \A k \in 1 .. top'.tried : Refuses((funcs')[(overloads')[stmt'.fn][k]], callArgs')
    BY <1>2, AttemptCompared
  <2> QED  BY <2>1 DEF ComparedInv
<1>3. CASE CallGeneric  BY <1>3, CopyEntered, ComparedAnew
<1>4. CASE FinishFunc
  <2>1. stack' = <<>>  BY <1>4, Zenon DEF FinishFunc
  <2> QED  BY <2>1, ComparedAnew
<1>5. CASE FinishInstance
  <2>1. stack' = <<>> \/ (stack')[Len(stack')].tried = 0  BY <1>5, CopyLeft, Zenon
  <2> QED  BY <2>1, ComparedAnew
<1>6. CASE Walked
  <2>1. CASE stack' = <<>> \/ (Len(stack') = 1 /\ (stack')[1].tried = 0)
    BY <2>1, ComparedAnew
  <2>2. CASE stack' = stack
    <3>1. funcs' = funcs /\ overloads' = overloads  BY <1>6 DEF Walked
    <3>2. top' = top /\ fun' = fun /\ stmt' = stmt /\ Visiting' = Visiting
      BY <2>2, <3>1 DEF top, fun, stmt, Visiting
    <3>3. callArgs' = callArgs  BY <3>2 DEF callArgs, Typeds, Typed
    <3>4. NoLiterals' => NoLiterals  BY <3>1 DEF NoLiterals, Named, IsGeneric
    <3>5. GenericNamed(stmt.fn)' => GenericNamed(stmt.fn)
      BY <3>1, <3>2 DEF GenericNamed, IsGeneric
    <3> QED  BY <3>1, <3>2, <3>3, <3>4, <3>5 DEF ComparedInv, Refuses
  <2> QED  BY <1>6, <2>1, <2>2 DEF Walked
<1> QED  BY <1>1, <1>2, <1>3, <1>4, <1>5, <1>6, StepCases

(* So a copy has types that no overload of its name has.                   *)
LEMMA FreshCopy ==
  ASSUME TypeInv, ListedInv, ComparedInv, CallGeneric, NoLiterals,
         NEW i \in DOMAIN funcs, funcs[i].typed
  PROVE  Signature(funcs[i]) # Signature((funcs')[Len(funcs) + 1])
<1> DEFINE c == (funcs')[Len(funcs) + 1]
<1>1. PICK g \in GenericFor :
        /\ g \in DOMAIN funcs /\ IsGeneric(funcs[g]) /\ Len(funcs[g].params) = Len(stmt.args)
        /\ AllTried /\ InBody /\ stmt.fn \in Names
        /\ funcs[g].params \in Seq(Types \cup {Untyped})
        /\ Match(funcs[g].params, callArgs).ok
        /\ c.name = stmt.fn
        /\ c.params = TypesOf(Match(funcs[g].params, callArgs).args)
  BY CopyMade
<1> HIDE DEF c
<1> SUFFICES ASSUME funcs[i].name = stmt.fn, funcs[i].params = c.params  PROVE FALSE
  BY <1>1 DEF Signature, c
<1>2. GenericNamed(stmt.fn) /\ stmt.fn # NoFunc
  <2>1. funcs[g].name = stmt.fn  BY <1>1, GenericFacts
  <2> QED  BY <1>1, <2>1, FuncDeclsAssumption DEF GenericNamed
<1>3. /\ \A k \in DOMAIN callArgs : ~ callArgs[k].lit
      /\ TypedArgs(callArgs) /\ Len(callArgs) = Len(stmt.args)
  BY <1>1, <1>2, NoLiteralArgs
<1>4. stmt.fn \in bases
  <2>1. g \in {Templates[k] : k \in {b \in Suitable : \A j \in Suitable : b <= j}}
    BY DEF GenericFor
  <2>2. Suitable # {}  BY <2>1
  <2>3. Templates # <<>>  BY <2>2 DEF Suitable
  <2> QED  BY <2>3 DEF Templates
<1>5. Candidates = overloads[stmt.fn] /\ overloads[stmt.fn] \in Seq(DOMAIN funcs)
  BY <1>1, <1>4 DEF Candidates, TypeInv, TablesInv
<1>6. PICK k \in DOMAIN overloads[stmt.fn] : overloads[stmt.fn][k] = i  BY DEF ListedInv
<1>7. k \in 1 .. top.tried /\ top.tried > 0 /\ Visiting
  <2>1. top.tried = Len(overloads[stmt.fn])  BY <1>1, <1>5 DEF AllTried
  <2> QED  BY <1>1, <1>5, <2>1 DEF InBody
<1>8. Refuses(funcs[i], callArgs)  BY <1>2, <1>6, <1>7 DEF ComparedInv
<1> DEFINE args == Match(funcs[g].params, callArgs).args
<1>9. /\ DOMAIN args = DOMAIN callArgs
      /\ \A b \in DOMAIN callArgs : Fits(callArgs[b], args[b].t)
  BY <1>1, <1>3, MatchPassed
<1>10. KeepsArgs(callArgs, args)  BY <1>1, MatchKept
<1> HIDE DEF args
<1>11. c.params = TypesOf(args)  BY <1>1 DEF args
<1>12. Len(TypesOf(args)) = Len(callArgs)
  <2>1. TypedArgs(args) /\ Len(args) = Len(callArgs)  BY <1>3, <1>10, KeptArgsTyped DEF KeepsArgs
  <2> QED  BY <2>1, TypesOfFacts
<1>13. PICK b \in DOMAIN callArgs : ~ Fits(callArgs[b], funcs[i].params[b])
  BY <1>8, <1>11, <1>12 DEF Refuses
<1>14. funcs[i].params[b] = args[b].t  BY <1>9, <1>11, <1>13 DEF TypesOf
<1> QED  BY <1>9, <1>13, <1>14

(* What the copies being visited will be declared as is declared by none.  *)
LEMMA StepFresh ==
  ASSUME TypeInv, CallsInv, OnceInv, WritingKept, PosKept, [Next]_vars
  PROVE  FreshInv'
<1> SUFFICES ASSUME Orderly', NEW k \in DOMAIN stack', k > 1,
                    NEW i \in DOMAIN funcs', (funcs')[i].typed
             PROVE  Signature((funcs')[i]) # Signature((funcs')[(stack')[k].f])
  BY DEF FreshInv
<1> USE DEF OnceInv
<1>1. Orderly  BY OrderlyBefore
<1>2. \A j \in DOMAIN funcs : Signature((funcs')[j]) = Signature(funcs[j])
  BY HeadsFacts DEF WritingKept
<1>3. ASSUME k \in DOMAIN stack, (stack')[k].f = stack[k].f, i \in DOMAIN funcs, funcs[i].typed
      PROVE  Signature((funcs')[i]) # Signature((funcs')[(stack')[k].f])
  <2>1. stack[k].f \in DOMAIN funcs  BY <1>3 DEF TypeInv, StackInv
  <2>2. Signature(funcs[i]) # Signature(funcs[stack[k].f])  BY <1>1, <1>3 DEF FreshInv
  <2> QED  BY <1>2, <1>3, <2>1, <2>2
<1>4. CASE \E st : Forward(st)
  <2>1. /\ DOMAIN funcs' = DOMAIN funcs
        /\ \A j \in DOMAIN funcs : SameHead(funcs[j], (funcs')[j])
        /\ k \in DOMAIN stack /\ (stack')[k].f = stack[k].f
    BY <1>4, ForwardFacts
  <2> QED  BY <1>3, <2>1 DEF SameHead
<1>5. CASE NextOverload
  <2>1. /\ DOMAIN funcs' = DOMAIN funcs
        /\ \A j \in DOMAIN funcs : SameHead(funcs[j], (funcs')[j])
        /\ k \in DOMAIN stack /\ (stack')[k].f = stack[k].f
    BY <1>5, AttemptStays
  <2> QED  BY <1>3, <2>1 DEF SameHead
<1>6. CASE CallGeneric
  <2>1. /\ DOMAIN funcs' = 1 .. Len(funcs) + 1 /\ DOMAIN funcs = 1 .. Len(funcs) /\ Len(funcs) \in Nat
        /\ ~ (funcs')[Len(funcs) + 1].typed
        /\ \A j \in DOMAIN funcs : SameHead(funcs[j], (funcs')[j])
    BY <1>6, CopyMade
  <2>2. i \in DOMAIN funcs /\ funcs[i].typed
    <3>1. i # Len(funcs) + 1  BY <2>1
    <3>2. i \in DOMAIN funcs  BY <2>1, <3>1
    <3> QED  BY <2>1, <3>2 DEF SameHead
  <2>3. /\ Len(stack) \in Nat /\ DOMAIN stack = 1 .. Len(stack)
        /\ DOMAIN stack' = 1 .. Len(stack) + 1
        /\ \A b \in DOMAIN stack : (stack')[b] = stack[b]
        /\ (stack')[Len(stack) + 1].f = Len(funcs) + 1
    BY <1>6, CopyStacked
  <2>4. CASE k \in DOMAIN stack  BY <1>3, <2>2, <2>3, <2>4
  <2>5. CASE k = Len(stack) + 1
    <3>1. Signature(funcs[i]) # Signature((funcs')[Len(funcs) + 1])
      BY <1>1, <1>6, <2>2, FreshCopy DEF Orderly
    <3> QED  BY <1>2, <2>2, <2>3, <2>5, <3>1
  <2> QED  BY <2>3, <2>4, <2>5
<1>7. CASE FinishFunc
  <2>1. stack' = <<>>  BY <1>7 DEF FinishFunc
  <2> QED  BY <2>1
<1>8. CASE FinishInstance
  <2> DEFINE g == Resolved(fun, FALSE)
  <2>1. g = Resolved(fun, FALSE)  OBVIOUS
  <2> HIDE DEF g
  <2>2. /\ top.f \in DOMAIN funcs /\ fun = funcs[top.f] /\ DOMAIN funcs' = DOMAIN funcs
        /\ \A j \in DOMAIN funcs : j # top.f => SameHead(funcs[j], (funcs')[j])
    BY <1>8, <2>1, FinishInstanceWriting, Zenon DEF CallsInv
  <2>3. /\ k \in DOMAIN stack /\ k < Len(stack) /\ (stack')[k].f = stack[k].f
        /\ top = stack[Len(stack)] /\ Len(stack) \in DOMAIN stack
    <3>1. /\ Len(stack) \in Nat /\ Len(stack) > 1 /\ DOMAIN stack = 1 .. Len(stack)
          /\ top = stack[Len(stack)]
          /\ \/ stack' = <<>>
             \/ /\ DOMAIN stack' = 1 .. Len(stack) - 1
                /\ \A b \in DOMAIN stack' : (stack')[b].f = stack[b].f
      BY <1>8, CopyLeft, Zenon
    <3>2. stack' # <<>>  OBVIOUS
    <3>3. DOMAIN stack' = 1 .. Len(stack) - 1 /\ (stack')[k].f = stack[k].f  BY <3>1, <3>2
    <3> QED  BY <3>1, <3>3
  <2>4. CASE i # top.f  BY <1>3, <2>2, <2>3, <2>4 DEF SameHead
  <2>5. CASE i = top.f
    <3>1. PICK level \in [Names -> Nat] : Descends(level)  BY <1>1 DEF Orderly
    <3>2. level[fun.name] < level[funcs[stack[k].f].name]
      BY <2>2, <2>3, <3>1 DEF LevelInv
    <3>3. stack[k].f \in DOMAIN funcs  BY <2>3 DEF TypeInv, StackInv
    <3>4. fun.name \in Names  BY <2>2, FuncsFacts, FunctionFields DEF TypeInv
    <3>5. fun.name # funcs[stack[k].f].name  BY <3>1, <3>2, <3>4
    <3>6. Signature(fun) # Signature(funcs[stack[k].f])  BY <3>5 DEF Signature
    <3> QED  BY <1>2, <2>2, <2>3, <2>5, <3>3, <3>6
  <2> QED  BY <2>4, <2>5
<1>9. CASE Walked
  <2>1. CASE stack' = <<>> \/ Len(stack') = 1
    <3>1. stack' \in Seq(Frames)
      <4>1. TypeInv'  BY NextTypes
      <4> QED  BY <4>1 DEF TypeInv, StackInv
    <3> QED  BY <2>1, <3>1
  <2>2. CASE stack' = stack  BY <1>3, <1>9, <2>2 DEF Walked
  <2> QED  BY <1>9, <2>1, <2>2 DEF Walked
<1> QED  BY <1>4, <1>5, <1>6, <1>7, <1>8, <1>9, StepCases

(* No two copies that have a type are declared alike.                      *)
LEMMA StepOne ==
  ASSUME TypeInv, CallsInv, OnceInv, WritingKept, PosKept, [Next]_vars
  PROVE  OneInv'
<1> SUFFICES ASSUME Orderly', NEW i \in DOMAIN funcs', NEW j \in DOMAIN funcs', i # j,
                    (funcs')[i].pos # i, (funcs')[j].pos # j,
                    (funcs')[i].typed, (funcs')[j].typed
             PROVE  Signature((funcs')[i]) # Signature((funcs')[j])
  BY DEF OneInv, IsCopy
<1> USE DEF OnceInv
<1>1. Orderly  BY OrderlyBefore
<1>2. \A b \in DOMAIN funcs : Signature((funcs')[b]) = Signature(funcs[b])
  BY HeadsFacts DEF WritingKept
<1>3. \A b \in DOMAIN funcs : (funcs')[b].pos # b <=> IsCopy(b)  BY DEF PosKept, IsCopy
<1>4. ASSUME i \in DOMAIN funcs, j \in DOMAIN funcs, funcs[i].typed, funcs[j].typed
      PROVE  Signature((funcs')[i]) # Signature((funcs')[j])
  BY <1>1, <1>2, <1>3, <1>4 DEF OneInv
<1>5. CASE \E st : Forward(st)
  <2>1. DOMAIN funcs' = DOMAIN funcs /\ \A b \in DOMAIN funcs : SameHead(funcs[b], (funcs')[b])
    BY <1>5, ForwardFacts
  <2> QED  BY <1>4, <2>1 DEF SameHead
<1>6. CASE NextOverload
  <2>1. DOMAIN funcs' = DOMAIN funcs /\ \A b \in DOMAIN funcs : SameHead(funcs[b], (funcs')[b])
    BY <1>6, AttemptStays
  <2> QED  BY <1>4, <2>1 DEF SameHead
<1>7. CASE CallGeneric
  <2>1. /\ DOMAIN funcs' = 1 .. Len(funcs) + 1 /\ DOMAIN funcs = 1 .. Len(funcs) /\ Len(funcs) \in Nat
        /\ ~ (funcs')[Len(funcs) + 1].typed
        /\ \A b \in DOMAIN funcs : SameHead(funcs[b], (funcs')[b])
    BY <1>7, CopyMade
  <2>2. \A b \in DOMAIN funcs' : b \in DOMAIN funcs \/ b = Len(funcs) + 1  BY <2>1
  <2> QED  BY <1>4, <2>1, <2>2 DEF SameHead
<1>8. CASE FinishFunc
  <2> DEFINE g == Resolved(fun, pass = "register")
  <2>1. g = Resolved(fun, pass = "register")  OBVIOUS
  <2> HIDE DEF g
  <2>2. /\ Visiting /\ top.f \in DOMAIN funcs /\ fun = funcs[top.f] /\ fun \in Function
        /\ top.f = order[next] /\ next \in DOMAIN order
        /\ ~ fun.typed /\ g.typed => g.result = ResultType(fun)
        /\ GoodFunction(g)
        /\ DOMAIN funcs' = DOMAIN funcs /\ (funcs')[top.f] = g
        /\ \A b \in DOMAIN funcs : b # top.f => (funcs')[b] = funcs[b]
    BY <1>8, <2>1, FinishFuncFacts
  <2>3. ASSUME IsCopy(top.f), g.typed  PROVE fun.typed
    <3> SUFFICES ASSUME ~ fun.typed  PROVE FALSE  OBVIOUS
    <3>1. top.f \in Placed  BY <2>2 DEF Placed
    <3>2. fun.ret = NoType /\ ~ GoTogether(fun)  BY <2>2, <2>3, <3>1 DEF PlacedInv, Decided
    <3>3. Returns(fun) # {}
      <4>1. Known(fun) # {}  BY <3>2 DEF GoTogether
      <4> QED  BY <2>2, <4>1, DeductionFacts
    <3>4. ResultType(fun) = NoType  BY <3>2, <3>3 DEF ResultType, Deduction
    <3>5. g.result # NoType  BY <2>2, <2>3 DEF GoodFunction
    <3> QED  BY <2>2, <2>3, <3>4, <3>5
  <2>4. \A b \in DOMAIN funcs : IsCopy(b) /\ (funcs')[b].typed => funcs[b].typed
    BY <2>2, <2>3
  <2> QED  BY <1>3, <1>4, <2>2, <2>4
<1>9. CASE FinishInstance
  <2> DEFINE g == Resolved(fun, FALSE)
  <2>1. g = Resolved(fun, FALSE)  OBVIOUS
  <2> HIDE DEF g
  <2>2. /\ top.f \in DOMAIN funcs /\ fun = funcs[top.f] /\ DOMAIN funcs' = DOMAIN funcs
        /\ \A b \in DOMAIN funcs : b # top.f => SameHead(funcs[b], (funcs')[b])
    BY <1>9, <2>1, FinishInstanceWriting, Zenon DEF CallsInv
  <2>3. top = stack[Len(stack)] /\ Len(stack) \in DOMAIN stack /\ Len(stack) > 1
    <3>1. Visiting  BY <1>9, CopyLeft, Zenon
    <3> QED  BY <1>9, <3>1, StackFacts, CopyLeft, Zenon DEF TypeInv
  <2>4. \A b \in DOMAIN funcs : funcs[b].typed => Signature(funcs[b]) # Signature(fun)
    BY <1>1, <2>2, <2>3 DEF FreshInv
  <2>5. \A b \in DOMAIN funcs : b # top.f /\ (funcs')[b].typed => funcs[b].typed
    BY <2>2 DEF SameHead
  <2>6. CASE i # top.f /\ j # top.f  BY <1>4, <2>2, <2>5, <2>6
  <2>7. CASE i = top.f  BY <1>2, <2>2, <2>4, <2>5, <2>7
  <2>8. CASE j = top.f  BY <1>2, <2>2, <2>4, <2>5, <2>8
  <2> QED  BY <2>6, <2>7, <2>8
<1>10. CASE Walked  BY <1>4, <1>10 DEF Walked
<1> QED  BY <1>5, <1>6, <1>7, <1>8, <1>9, <1>10, StepCases

LEMMA InitOnce == Init => OnceInv
<1> SUFFICES ASSUME Init  PROVE OnceInv  OBVIOUS
<1>1. \A i \in DOMAIN funcs : Parsed(funcs[i]) /\ funcs[i].pos = i
  BY FuncDeclsAssumption DEF Init
<1>2. PosInv /\ PlacedInv  BY <1>1 DEF PosInv, PlacedInv, IsCopy
<1>3. stack = <<>>  BY DEF Init
<1>4. FramesInv /\ FreshInv /\ ComparedInv  BY <1>3 DEF FramesInv, FreshInv, ComparedInv, Visiting
<1>5. LevelInv  BY <1>3 DEF LevelInv
<1>6. ListedInv /\ OneInv  BY <1>1 DEF ListedInv, OneInv, Parsed
<1> QED  BY <1>2, <1>4, <1>5, <1>6 DEF OnceInv

LEMMA NextOnce ==
  TypeInv /\ CallsInv /\ PinsInv /\ ResultsInv /\ OnceInv /\ [Next]_vars => OnceInv'
<1> SUFFICES ASSUME TypeInv, CallsInv, PinsInv, ValueInv, OnceInv, [Next]_vars  PROVE OnceInv'
  BY DEF ResultsInv
<1>1. WritingKept /\ TypesLast  BY StepWriting, StepLasts
<1>2. PosKept /\ PosInv'  BY StepPositions DEF OnceInv
<1>3. FramesInv' /\ PlacedInv'  BY <1>1, <1>2, StepFrames, StepPlaced DEF OnceInv
<1>4. LevelInv' /\ ListedInv' /\ ComparedInv'
  BY <1>1, <1>2, StepLevels, StepListed, StepCompared DEF OnceInv
<1>5. FreshInv' /\ OneInv'  BY <1>1, <1>2, StepFresh, StepOne
<1> QED  BY <1>2, <1>3, <1>4, <1>5 DEF OnceInv

LEMMA OnceInvariant == Spec => [](TypeInv /\ CallsInv /\ PinsInv /\ ResultsInv /\ OnceInv)
<1>1. Init => OnceInv  BY InitOnce
<1>2. TypeInv /\ CallsInv /\ PinsInv /\ ResultsInv /\ OnceInv /\ [Next]_vars => OnceInv'
  BY NextOnce
<1> QED  BY <1>1, <1>2, ResultsInvariant, PTL DEF Spec

(* A generic function is copied once for each list of types it is called   *)
(* with, wherever the calls stand and whatever else is compiled between    *)
(* them, unless generic functions call each other in a circle or a call of *)
(* one is given a literal: a copy that is begun has types none of the      *)
(* overloads of its name was declared with, none of them comes to be while *)
(* its body is visited, and an accepted program has declared them all.     *)
THEOREM CopiesAreMadeOnce == Spec => []CopiedOnce
<1>1. TypeInv /\ CallsInv /\ ResultsInv /\ OnceInv => CopiedOnce
  <2> SUFFICES ASSUME TypeInv, CheckInv, JoinInv, PosInv, PlacedInv, OneInv,
                      Accepted, NoCircle, NoLiterals,
                      NEW i \in Declared, NEW j \in Declared, i < j,
                      Signature(funcs[i]) = Signature(funcs[j]), funcs[i].pos = funcs[j].pos
               PROVE  FALSE
    BY DEF CallsInv, ResultsInv, OnceInv, CopiedOnce
  <2>1. /\ i \in DOMAIN funcs /\ ~ IsGeneric(funcs[i]) /\ i \in Placed
        /\ j \in DOMAIN funcs /\ ~ IsGeneric(funcs[j]) /\ j \in Placed
        /\ i \in Nat /\ j \in Nat
    <3>1. DOMAIN funcs = 1 .. Len(funcs) /\ i \in DOMAIN funcs /\ j \in DOMAIN funcs
      BY FuncsFacts DEF TypeInv, Declared
    <3> QED  BY <3>1 DEF Declared, Placed, ToSet
  <2>2. IsCopy(i) /\ IsCopy(j)  BY <2>1 DEF PosInv, IsCopy
  <2>3. Orderly
    <3>1. PICK level \in [Names -> 0 .. Len(funcs)] : Descends(level)  BY DEF NoCircle
    <3>2. level \in [Names -> Nat]  OBVIOUS
    <3> QED  BY <3>1, <3>2 DEF Orderly
  <2>4. ASSUME NEW b \in DOMAIN funcs, b \in Placed, IsCopy(b), ~ IsGeneric(funcs[b])
        PROVE  funcs[b].typed
    <3> SUFFICES ASSUME ~ funcs[b].typed  PROVE FALSE  OBVIOUS
    <3>1. /\ GivesValues(funcs[b], Len(funcs[b].body))
          /\ funcs[b].ret = NoType
      BY <2>4 DEF PlacedInv, Decided
    <3>2. LastingReturns(b)
      <4>1. ASSUME NEW s \in Returns(funcs[b])  PROVE funcs[b].body[s].fn = NoFunc
        <5>1. s \in DOMAIN funcs[b].body /\ funcs[b].body[s].ret  BY DEF Returns
        <5>2. s <= Len(funcs[b].body)  BY <5>1, FuncsFacts, FunctionFields DEF TypeInv
        <5> QED  BY <3>1, <5>1, <5>2 DEF GivesValues
      <4> QED  BY <4>1 DEF LastingReturns, LastingAt
    <3>3. PICK k \in DOMAIN order : order[k] = b  BY <2>4 DEF Placed
    <3>4. errors = {} /\ pass = "accepted"  BY DEF Accepted, CheckInv
    <3>5. Joined(funcs[b])  BY <2>4, <3>1, <3>2, <3>3, <3>4 DEF JoinInv
    <3> QED  BY <3>5 DEF Joined
  <2>5. funcs[i].typed /\ funcs[j].typed  BY <2>1, <2>2, <2>4
  <2>6. i # j  BY <2>1
  <2> QED  BY <2>1, <2>2, <2>3, <2>5, <2>6 DEF OneInv
<1> QED  BY <1>1, OnceInvariant, PTL

-----------------------------------------------------------------------------
(* A program is accepted exactly if the language types it.  First, what    *)
(* the walks do to a file without generic functions: its text stays, and   *)
(* nothing but the file's own functions is visited.                        *)
Clear == \A i \in DOMAIN funcs : ~ IsGeneric(funcs[i])

FileInv ==
  Clear =>
    /\ DOMAIN order = DOMAIN funcs /\ \A k \in DOMAIN order : order[k] = k
    /\ Len(stack) <= 1

LEMMA ClearBefore ==
  ASSUME WritingKept, Clear'
  PROVE  Clear /\ DOMAIN funcs' = DOMAIN funcs
<1>1. /\ DOMAIN funcs \subseteq DOMAIN funcs'
      /\ \A i \in DOMAIN funcs : IsGeneric((funcs')[i]) <=> IsGeneric(funcs[i])
  BY HeadsFacts DEF WritingKept, HeadsKept
<1>2. Clear  BY <1>1 DEF Clear
<1>3. \A n : ~ GenericNamed(n)  BY <1>2 DEF Clear, GenericNamed
<1>4. DOMAIN funcs' \subseteq DOMAIN funcs  BY <1>3 DEF WritingKept, Grown
<1> QED  BY <1>1, <1>2, <1>4

Writes == ReturnValue \/ CallExact \/ CallKept \/ CallOverload \/ NextOverload \/ CallFails
Enters == RegisterFunc \/ VisitFunc

LEMMA ClearSteps ==
  ASSUME TypeInv, FileInv, Clear, [Next]_vars
  PROVE  Writes \/ Enters \/ FinishFunc \/ EndWalk \/ UNCHANGED vars
<1>1. ~ CallGeneric /\ ~ GenericMismatch /\ ~ GenericOverflow
  <2>1. AllTried => GenericFor = {}  BY GenericFacts DEF Clear
  <2> QED  BY <2>1 DEF CallGeneric, GenericMismatch, GenericOverflow
<1>2. ~ FinishInstance
  <2> SUFFICES ASSUME FinishInstance  PROVE FALSE  BY Zenon
  <2>1. Visiting /\ top.generated  BY DEF FinishInstance, BodyDone
  <2>2. Len(stack) > 1  BY <2>1, StackFacts DEF TypeInv
  <2>3. Len(stack) \in Nat  BY <2>1, StackFacts DEF TypeInv
  <2> QED  BY <2>2, <2>3 DEF FileInv
<1>3. ~ RegisterGeneric /\ ~ SkipGeneric
  <2>1. AtChild => ~ IsGeneric(child)  BY ChildFacts DEF Clear
  <2> QED  BY <2>1 DEF RegisterGeneric, SkipGeneric
<1> QED  BY <1>1, <1>2, <1>3 DEF Next, Writes, Enters

LEMMA WritesFacts ==
  ASSUME TypeInv, Writes
  PROVE  \E st : /\ Wrote(st)
                 /\ st = stmt \/ KeepsArgs(callArgs, st.args)
                 /\ OriginalTypes(st.args, fun) = OriginalTypes(stmt.args, fun)
<1>1. \E st : Wrote(st) /\ (st = stmt \/ KeepsArgs(callArgs, st.args))
  <2>1. CASE ReturnValue
    <3>1. PICK st : Wrote(st) /\ st.args = callArgs  BY <2>1, ReturnValueFacts
    <3>2. InBody  BY <3>1 DEF Wrote
    <3> QED  BY <3>1, <3>2, CallArgsStay
  <2>2. CASE CallExact
    <3>1. PICK st : Wrote(st) /\ st.args = callArgs  BY <2>2, CallExactFacts
    <3>2. InBody  BY <3>1 DEF Wrote
    <3> QED  BY <3>1, <3>2, CallArgsStay
  <2>3. CASE CallKept
    <3>1. PICK st : Wrote(st) /\ st.args = callArgs  BY <2>3, CallKeptFacts
    <3>2. InBody  BY <3>1 DEF Wrote
    <3> QED  BY <3>1, <3>2, CallArgsStay
  <2>4. CASE CallOverload  BY <2>4, CallOverloadFacts
  <2>5. CASE NextOverload  BY <2>5, NextOverloadFacts
  <2>6. CASE CallFails
    <3>1. PICK st : Wrote(st) /\ st.args = callArgs  BY <2>6, CallFailsFacts
    <3>2. InBody  BY <3>1 DEF Wrote
    <3> QED  BY <3>1, <3>2, CallArgsStay
  <2> QED  BY <2>1, <2>2, <2>3, <2>4, <2>5, <2>6 DEF Writes
<1>2. PICK st : Wrote(st) /\ (st = stmt \/ KeepsArgs(callArgs, st.args))  BY <1>1
<1>3. InBody  BY <1>2 DEF Wrote
<1>4. OriginalTypes(st.args, fun) = OriginalTypes(stmt.args, fun)
  BY <1>2, <1>3, KeptOriginals
<1> QED  BY <1>2, <1>4

LEMMA StepOriginals ==
  ASSUME TypeInv, FileInv, Clear, [Next]_vars, NEW i \in DOMAIN funcs, NEW s \in DOMAIN funcs[i].body
  PROVE  OriginalTypes((funcs')[i].body[s].args, funcs[i]) = OriginalTypes(funcs[i].body[s].args, funcs[i])
<1>1. CASE Writes
  <2>1. PICK st : Wrote(st) /\ OriginalTypes(st.args, fun) = OriginalTypes(stmt.args, fun)
    BY <1>1, WritesFacts
  <2>2. /\ \A j \in DOMAIN funcs : j # top.f => (funcs')[j] = funcs[j]
        /\ (funcs')[top.f].body[top.s] = st
        /\ \A r \in DOMAIN fun.body : r # top.s => (funcs')[top.f].body[r] = fun.body[r]
        /\ fun = funcs[top.f] /\ stmt = fun.body[top.s]
    BY <2>1, WroteFacts
  <2>3. CASE i # top.f  BY <2>2, <2>3
  <2>4. CASE i = top.f /\ s # top.s  BY <2>2, <2>4
  <2>5. CASE i = top.f /\ s = top.s  BY <2>1, <2>2, <2>5
  <2> QED  BY <2>3, <2>4, <2>5
<1>2. CASE FinishFunc
  <2>1. (funcs')[i].body = funcs[i].body  BY <1>2, FinishFuncFacts
  <2> QED  BY <2>1
<1>3. CASE Enters \/ EndWalk \/ UNCHANGED vars
  <2>1. funcs' = funcs  BY <1>3 DEF Enters, RegisterFunc, VisitFunc, EndWalk, vars
  <2> QED  BY <2>1
<1> QED  BY <1>1, <1>2, <1>3, ClearSteps

Words(i, s) == Source[i].body[s].args

Word(f, a) == [lit |-> a.lit, v |-> a.v, t |-> Original(f, a), cast |-> FALSE]

TextOfArgs(args, f) == [k \in DOMAIN args |-> Word(f, args[k])]

TextOfStatement(st, f) == [ret |-> st.ret, fn |-> st.fn, args |-> TextOfArgs(st.args, f)]

TextOfBody(body, f) == [s \in DOMAIN body |-> TextOfStatement(body[s], f)]

Text(f) == [name |-> f.name, params |-> f.params, ret |-> f.ret, body |-> TextOfBody(f.body, f)]

LEMMA SourceFields ==
  /\ Source = [i \in DOMAIN funcs |-> Text(funcs[i])]
  /\ DOMAIN Source = DOMAIN funcs
  /\ \A i \in DOMAIN funcs :
       /\ Source[i].name = funcs[i].name /\ Source[i].params = funcs[i].params /\ Source[i].ret = funcs[i].ret
       /\ DOMAIN Source[i].body = DOMAIN funcs[i].body
       /\ \A s \in DOMAIN funcs[i].body :
            /\ Source[i].body[s].ret = funcs[i].body[s].ret /\ Source[i].body[s].fn = funcs[i].body[s].fn
            /\ DOMAIN Words(i, s) = DOMAIN funcs[i].body[s].args
            /\ \A k \in DOMAIN funcs[i].body[s].args :
                 Words(i, s)[k] = Word(funcs[i], funcs[i].body[s].args[k])
<1>1. Source = [i \in DOMAIN funcs |-> Text(funcs[i])]
  BY DEF Source, Text, TextOfBody, TextOfStatement, TextOfArgs, Word
<1>2. DOMAIN Source = DOMAIN funcs  BY <1>1
<1>3. ASSUME NEW i \in DOMAIN funcs
      PROVE  /\ Source[i].name = funcs[i].name /\ Source[i].params = funcs[i].params /\ Source[i].ret = funcs[i].ret
             /\ Source[i].body = TextOfBody(funcs[i].body, funcs[i])
  BY <1>1 DEF Text
<1>4. ASSUME NEW i \in DOMAIN funcs, NEW s \in DOMAIN funcs[i].body
      PROVE  Source[i].body[s] = TextOfStatement(funcs[i].body[s], funcs[i])
  BY <1>3 DEF TextOfBody
<1>5. \A i \in DOMAIN funcs : DOMAIN Source[i].body = DOMAIN funcs[i].body  BY <1>3 DEF TextOfBody
<1>6. ASSUME NEW i \in DOMAIN funcs, NEW s \in DOMAIN funcs[i].body
      PROVE  /\ Source[i].body[s].ret = funcs[i].body[s].ret /\ Source[i].body[s].fn = funcs[i].body[s].fn
             /\ Words(i, s) = TextOfArgs(funcs[i].body[s].args, funcs[i])
  <2>1. Source[i].body[s] = TextOfStatement(funcs[i].body[s], funcs[i])  BY <1>4
  <2> QED  BY <2>1 DEF TextOfStatement, Words
<1>7. ASSUME NEW i \in DOMAIN funcs, NEW s \in DOMAIN funcs[i].body
      PROVE  /\ DOMAIN Words(i, s) = DOMAIN funcs[i].body[s].args
             /\ \A k \in DOMAIN funcs[i].body[s].args :
                  Words(i, s)[k] = Word(funcs[i], funcs[i].body[s].args[k])
  BY <1>6 DEF TextOfArgs
<1> QED  BY <1>1, <1>2, <1>3, <1>5, <1>6, <1>7

LEMMA SourceStays ==
  ASSUME TypeInv, CallsInv, FileInv, Clear, DOMAIN funcs' = DOMAIN funcs, [Next]_vars
  PROVE  Source' = Source
<1>1. WritingKept  BY StepWriting
<1>2. Source = [i \in DOMAIN funcs |-> Text(funcs[i])]  BY SourceFields
<1>3. Source' = [i \in DOMAIN funcs' |-> Text((funcs')[i])]
  BY DEF Source, Text, TextOfBody, TextOfStatement, TextOfArgs, Word
<1>4. ASSUME NEW i \in DOMAIN funcs  PROVE Text((funcs')[i]) = Text(funcs[i])
  <2> DEFINE f == funcs[i]
             h == (funcs')[i]
  <2>1. /\ h.name = f.name /\ h.params = f.params /\ h.ret = f.ret /\ DOMAIN h.body = DOMAIN f.body
        /\ \A s \in DOMAIN f.body : StaysAs(f.body[s], h.body[s])
    BY <1>1 DEF WritingKept, HeadsKept, BodiesKept
  <2>2. ASSUME NEW s \in DOMAIN f.body
        PROVE  TextOfStatement(h.body[s], h) = TextOfStatement(f.body[s], f)
    <3> DEFINE now == h.body[s].args
               old == f.body[s].args
    <3>1. OriginalTypes(now, f) = OriginalTypes(old, f)  BY StepOriginals
    <3>2. OriginalTypes(now, h) = OriginalTypes(now, f)  BY <2>1, SameOriginals
    <3>3. \A k \in DOMAIN old : now[k].lit = old[k].lit /\ now[k].v = old[k].v
      BY <2>1 DEF StaysAs, ArgsStay
    <3>4. h.body[s].ret = f.body[s].ret /\ h.body[s].fn = f.body[s].fn  BY <2>1 DEF StaysAs
    <3> HIDE DEF now, old, h, f
    <3>5. DOMAIN now = DOMAIN old /\ \A k \in DOMAIN old : Original(h, now[k]) = Original(f, old[k])
      BY <3>1, <3>2 DEF OriginalTypes
    <3>6. \A k \in DOMAIN old : Word(h, now[k]) = Word(f, old[k])  BY <3>3, <3>5 DEF Word
    <3>7. TextOfArgs(now, h) = TextOfArgs(old, f)  BY <3>5, <3>6 DEF TextOfArgs
    <3> QED  BY <3>4, <3>7 DEF now, old, TextOfStatement
  <2> HIDE DEF f, h
  <2>3. TextOfBody(h.body, h) = TextOfBody(f.body, f)  BY <2>1, <2>2 DEF TextOfBody
  <2>4. Text(h) = Text(f)  BY <2>1, <2>3 DEF Text
  <2> QED  BY <2>4 DEF f, h
<1> QED  BY <1>2, <1>3, <1>4

LEMMA WritesMove ==
  ASSUME TypeInv, FileInv, Clear, Writes
  PROVE  /\ Visiting /\ Len(stack) = 1 /\ Visiting' /\ Len(stack') = 1
         /\ top'.f = top.f /\ pass' = pass /\ UNCHANGED <<order, tables, sub, next>>
         /\ ~ NextOverload => /\ top'.s = top.s + 1 /\ top'.tried = 0
         /\ NextOverload => top'.s = top.s /\ top'.tried = top.tried + 1
<1>1. PICK st : Wrote(st)  BY WritesFacts
<1>2. Visiting /\ Len(stack) = 1 /\ ~ top.generated
  <2>1. InBody  BY <1>1 DEF Wrote
  <2>2. Visiting  BY <2>1 DEF InBody
  <2>3. Len(stack) \in Nat \ {0}  BY <2>2, StackFacts DEF TypeInv
  <2>4. Len(stack) <= 1  BY DEF FileInv
  <2>5. Len(stack) = 1  BY <2>3, <2>4
  <2>6. top.generated <=> Len(stack) > 1  BY <2>2, StackFacts DEF TypeInv
  <2>7. ~ top.generated  BY <2>5, <2>6
  <2> QED  BY <2>2, <2>5, <2>7
<1>3. CASE ~ NextOverload
  <2>1. stack' = NextStatement /\ pass' = pass
    BY <1>2, <1>3 DEF Writes, ReturnValue, CallExact, CallKept, CallOverload, CallFails, CallEnds, walk
  <2>2. Moved(top.s + 1) /\ (stack')[Len(stack)].tried = 0  BY <1>2, <2>1, NextMoves
  <2> QED  BY <1>1, <1>2, <1>3, <2>1, <2>2 DEF Moved, Visiting, top, Last, Wrote
<1>4. CASE NextOverload
  <2>1. pass' = pass /\ stack' = [stack EXCEPT ![Len(stack)].tried = @ + 1]
    BY <1>4 DEF NextOverload, walk
  <2>2. Moved(top.s) /\ (stack')[Len(stack)].tried = top.tried + 1  BY <1>2, <2>1, TriedMoves
  <2> QED  BY <1>1, <1>2, <1>4, <2>1, <2>2 DEF Moved, Visiting, top, Last, Wrote
<1> QED  BY <1>3, <1>4

LEMMA StepFile == TypeInv /\ CallsInv /\ FileInv /\ [Next]_vars => FileInv'
<1> SUFFICES ASSUME TypeInv, CallsInv, FileInv, [Next]_vars, Clear'
             PROVE  /\ DOMAIN order' = DOMAIN funcs' /\ \A k \in DOMAIN order' : (order')[k] = k
                    /\ Len(stack') <= 1
  BY DEF FileInv
<1>1. WritingKept  BY StepWriting
<1>2. Clear /\ DOMAIN funcs' = DOMAIN funcs  BY <1>1, ClearBefore
<1>3. DOMAIN order = DOMAIN funcs /\ (\A k \in DOMAIN order : order[k] = k) /\ Len(stack) <= 1
  BY <1>2 DEF FileInv
<1>4. CASE Writes
  BY <1>2, <1>3, <1>4, WritesMove
<1>5. CASE Enters
  <2>1. order' = order /\ Len(stack') = 1
    BY <1>5 DEF Enters, RegisterFunc, VisitFunc, Enter
  <2> QED  BY <1>2, <1>3, <2>1
<1>6. CASE FinishFunc
  <2>1. order' = order /\ Len(stack') = 0  BY <1>6 DEF FinishFunc
  <2> QED  BY <1>2, <1>3, <2>1
<1>7. CASE EndWalk \/ UNCHANGED vars
  <2>1. order' = order /\ stack' = stack  BY <1>7 DEF EndWalk, vars
  <2> QED  BY <1>2, <1>3, <2>1
<1> QED  BY <1>2, <1>4, <1>5, <1>6, <1>7, ClearSteps

LEMMA InitFile == Init => FileInv
BY DEF Init, FileInv

(* A step of the compiler that leaves a program plain: what the program    *)
(* says is the same before and after.                                      *)
PlainStep ==
  /\ [Next]_vars /\ WritingKept /\ Clear /\ Plain(Source)
  /\ Source' = Source /\ DOMAIN funcs' = DOMAIN funcs

LEMMA PlainClear == Plain(Source) => Clear
<1>1. \A i \in DOMAIN funcs : IsGeneric(Source[i]) <=> IsGeneric(funcs[i])  BY SourceFields DEF IsGeneric
<1> QED  BY <1>1, SourceFields DEF Plain, Clear

LEMMA PlainBefore ==
  ASSUME TypeInv, CallsInv, FileInv, [Next]_vars, Plain(Source)'
  PROVE  PlainStep
<1>1. WritingKept  BY StepWriting
<1>2. Clear'  BY PlainClear, PTL
<1>3. Clear /\ DOMAIN funcs' = DOMAIN funcs  BY <1>1, <1>2, ClearBefore
<1>4. Source' = Source  BY <1>3, SourceStays
<1>5. ASSUME NEW n \in Names
      PROVE  (Alone(n)' => Alone(n)) /\ (Together(n)' => Together(n))
  BY <1>1, AloneBefore, TogetherBefore
<1>6. \A i \in DOMAIN Source : \A s \in DOMAIN Source[i].body :
        Source[i].body[s].fn # NoFunc => Source[i].body[s].fn \in Names
  <2> SUFFICES ASSUME NEW i \in DOMAIN funcs, NEW s \in DOMAIN funcs[i].body, funcs[i].body[s].fn # NoFunc
               PROVE  funcs[i].body[s].fn \in Names
    BY SourceFields
  <2> QED  BY FuncsFacts, FunctionFields, StatementFields DEF TypeInv
<1>7. Plain(Source)
  <2>1. /\ \A i \in DOMAIN Source : ~ IsGeneric(Source[i])
        /\ \A i, j \in DOMAIN Source : i # j => Signature(Source[i]) # Signature(Source[j])
    BY <1>4 DEF Plain
  <2>2. \A i \in DOMAIN Source : \A s \in DOMAIN Source[i].body : \A n \in Names :
          Source[i].body[s].fn = n /\ n # NoFunc =>
               \/ Alone(n)'
               \/ /\ Together(n)' /\ Lasts(Source, Source[i].body[s])
                  /\ \A k \in DOMAIN Source[i].body[s].args : ~ Source[i].body[s].args[k].lit
    BY <1>4 DEF Plain
  <2>3. \A i \in DOMAIN Source : \A s \in DOMAIN Source[i].body : \A n \in Names :
          Source[i].body[s].fn = n /\ n # NoFunc =>
               \/ Alone(n)
               \/ /\ Together(n) /\ Lasts(Source, Source[i].body[s])
                  /\ \A k \in DOMAIN Source[i].body[s].args : ~ Source[i].body[s].args[k].lit
    BY <1>5, <2>2
  <2> QED  BY <1>6, <2>1, <2>3 DEF Plain
<1> QED  BY <1>1, <1>3, <1>4, <1>7 DEF PlainStep

T(i, s) == Target(Source, Source[i].body[s])

LEMMA PlainKeeps ==
  ASSUME TypeInv, PlainStep
  PROVE  /\ \A i \in DOMAIN funcs :
              /\ (funcs')[i].name = funcs[i].name /\ (funcs')[i].params = funcs[i].params
              /\ (funcs')[i].ret = funcs[i].ret /\ DOMAIN (funcs')[i].body = DOMAIN funcs[i].body
              /\ \A s \in DOMAIN funcs[i].body :
                   /\ (funcs')[i].body[s].fn = funcs[i].body[s].fn
                   /\ (funcs')[i].body[s].ret = funcs[i].body[s].ret
                   /\ Len((funcs')[i].body[s].args) = Len(funcs[i].body[s].args)
         /\ \A n : /\ Named(n)' = Named(n) /\ (Alone(n)' <=> Alone(n))
                   /\ Together(n)' <=> Together(n)
         /\ \A i, s : Words(i, s)' = Words(i, s) /\ T(i, s)' = T(i, s)
<1>1. \A i \in DOMAIN funcs :
        /\ (funcs')[i].name = funcs[i].name /\ (funcs')[i].params = funcs[i].params
        /\ (funcs')[i].ret = funcs[i].ret /\ DOMAIN (funcs')[i].body = DOMAIN funcs[i].body
        /\ \A s \in DOMAIN funcs[i].body :
             /\ (funcs')[i].body[s].fn = funcs[i].body[s].fn
             /\ (funcs')[i].body[s].ret = funcs[i].body[s].ret
             /\ Len((funcs')[i].body[s].args) = Len(funcs[i].body[s].args)
  BY DEF PlainStep, WritingKept, HeadsKept, BodiesKept, StaysAs, ArgsStay
<1>2. DOMAIN funcs' = DOMAIN funcs  BY DEF PlainStep
<1>3. \A n : Named(n)' = Named(n)  BY <1>1, <1>2 DEF Named
<1>4. \A i \in DOMAIN funcs : IsGeneric((funcs')[i]) <=> IsGeneric(funcs[i])
  BY <1>1 DEF IsGeneric
<1>5. \A n : Named(n) \subseteq DOMAIN funcs  BY DEF Named
<1>6. \A n : Alone(n)' <=> Alone(n)
  BY <1>3, <1>4, <1>5 DEF Alone
<1>7. ASSUME NEW n, NEW i \in Named(n)
      PROVE  (\A s \in DOMAIN (funcs')[i].body : (funcs')[i].body[s].fn = NoFunc)
               <=> (\A s \in DOMAIN funcs[i].body : funcs[i].body[s].fn = NoFunc)
  BY <1>1, <1>5
<1>8. ASSUME NEW n, NEW i \in Named(n)
      PROVE  (~ IsGeneric((funcs')[i]) /\ (funcs')[i].ret # NoType)
               <=> (~ IsGeneric(funcs[i]) /\ funcs[i].ret # NoType)
  BY <1>1, <1>4, <1>5
<1>9. ASSUME NEW n  PROVE Together(n)' <=> Together(n)
  BY <1>3, <1>7, <1>8 DEF Together
<1>10. \A i, s : Words(i, s)' = Words(i, s) /\ T(i, s)' = T(i, s)
  BY DEF PlainStep, Words, T
<1> QED  BY <1>1, <1>3, <1>6, <1>9, <1>10

LEMMA CoercedTwice ==
  ASSUME NEW a \in Arg, a.t \in Types, NEW to \in Types
  PROVE  Coerced(Coerced(a, to), to) = Coerced(a, to)
<1>1. CASE Coerced(a, to) = a  BY <1>1
<1>2. CASE Coerced(a, to) = [a EXCEPT !.t = to]
  <2>1. Coerced(a, to).t = to  BY <1>2 DEF Arg
  <2>2. Convertible(to, to)  BY SameTypePasses
  <2> HIDE DEF Arg
  <2> DEFINE c == Coerced(a, to)
  <2>3. Convertible(c.t, to)  BY <2>1, <2>2
  <2> HIDE DEF c
  <2>4. Coerced(c, to) = c  BY <2>3 DEF Coerced
  <2> QED  BY <2>4 DEF c
<1> QED  BY <1>1, <1>2 DEF Coerced

LEMMA CoercedToItself ==
  ASSUME NEW a \in Arg, a.t \in Types
  PROVE  /\ Coerced(a, a.t) = a /\ Fits(Coerced(a, a.t), a.t) /\ CastTo(a, a.t) = a
<1>1. Convertible(a.t, a.t) /\ ~ NeedsCast(a.t, a.t)  BY SameTypePasses
<1>2. Coerced(a, a.t) = a  BY <1>1 DEF Coerced
<1>3. CastTo(a, a.t) = a  BY <1>1 DEF CastTo
<1> QED  BY <1>1, <1>2, <1>3 DEF Fits

LEMMA WordsFacts ==
  ASSUME TypeInv, Clear, NEW i \in DOMAIN funcs, NEW s \in DOMAIN funcs[i].body
  PROVE  /\ TypedArgs(Words(i, s)) /\ Len(Words(i, s)) = Len(funcs[i].body[s].args)
         /\ DOMAIN Words(i, s) = DOMAIN funcs[i].body[s].args
         /\ DOMAIN Words(i, s) = 1 .. Len(Words(i, s)) /\ Len(Words(i, s)) \in Nat
         /\ \A k \in DOMAIN Words(i, s) :
              /\ Words(i, s)[k] = Word(funcs[i], funcs[i].body[s].args[k])
              /\ Words(i, s)[k] \in Arg /\ Words(i, s)[k].t \in Types /\ ~ Words(i, s)[k].cast
              /\ Words(i, s)[k].lit = funcs[i].body[s].args[k].lit
<1> DEFINE f == funcs[i]
           st == f.body[s]
<1>1. f \in Function /\ GoodFunction(f) /\ ~ IsGeneric(f)  BY FuncsFacts DEF TypeInv, Clear
<1>2. st \in Statement /\ GoodStatement(st, f)  BY <1>1, FunctionFields DEF GoodFunction
<1>3. st.args \in Seq(Arg) /\ Len(st.args) \in Nat /\ DOMAIN st.args = 1 .. Len(st.args)
      /\ \A k \in DOMAIN st.args : st.args[k] \in Arg
  BY <1>2, StatementFields
<1>4. DOMAIN Words(i, s) = DOMAIN st.args
      /\ \A k \in DOMAIN st.args : Words(i, s)[k] = Word(f, st.args[k])
  BY SourceFields
<1>5. ASSUME NEW k \in DOMAIN st.args
      PROVE  /\ Word(f, st.args[k]) \in Arg /\ Word(f, st.args[k]).t \in Types
             /\ ~ Word(f, st.args[k]).cast /\ Word(f, st.args[k]).lit = st.args[k].lit
  <2> DEFINE a == st.args[k]
  <2>1. a \in Arg /\ (~ a.lit => a.v \in DOMAIN f.params)  BY <1>2, <1>3 DEF GoodStatement, GoodArg
  <2>2. a.lit \in BOOLEAN /\ a.v \in Nat  BY <2>1 DEF Arg
  <2>3. \A v \in DOMAIN f.params : f.params[v] \in Types  BY <1>1, ParamsTyped
  <2>4. Original(f, a) \in Types
    BY <2>1, <2>3, FuncDeclsAssumption, TypesAssumption DEF Original
  <2> HIDE DEF a, st, f
  <2> QED  BY <2>2, <2>4 DEF Word, Arg, a
<1>6. Words(i, s) = TextOfArgs(st.args, f)
  <2>1. Source[i] = Text(f)  BY SourceFields
  <2>2. Source[i].body = TextOfBody(f.body, f)  BY <2>1 DEF Text
  <2>3. Source[i].body[s] = TextOfStatement(st, f)  BY <2>2 DEF TextOfBody
  <2> QED  BY <2>3 DEF TextOfStatement, Words
<1>7. Words(i, s) \in Seq(Arg) /\ Len(Words(i, s)) = Len(st.args)
  <2> HIDE DEF st, f
  <2> QED  BY <1>3, <1>5, <1>6 DEF TextOfArgs
<1> QED  BY <1>3, <1>4, <1>5, <1>7 DEF TypedArgs

(* What Target says of a call: it is the function declared with the types  *)
(* of the words, or the first to take them.                                *)
Same(i, s) == {g \in Named(funcs[i].body[s].fn) : funcs[g].params = TypesOf(Words(i, s))}

Takers(i, s) == {g \in Named(funcs[i].body[s].fn) : Accepts(funcs[g].params, Words(i, s))}

LEMMA MinFacts ==
  ASSUME NEW n \in Nat, NEW S, S \subseteq 1 .. n, S # {}
  PROVE  Min(S) \in S /\ \A m \in S : Min(S) <= m
<1>1. \E m \in S : \A s \in S : m <= s  BY LeastFacts
<1> QED  BY <1>1 DEF Min

LEMMA NamedFacts ==
  ASSUME TypeInv
  PROVE  /\ Len(funcs) \in Nat /\ DOMAIN funcs = 1 .. Len(funcs)
         /\ \A n : Named(n) \subseteq 1 .. Len(funcs)
         /\ Named(NoFunc) = {}
<1>1. Len(funcs) \in Nat /\ DOMAIN funcs = 1 .. Len(funcs)  BY DEF TypeInv, FunctionsInv
<1>2. \A n : Named(n) \subseteq 1 .. Len(funcs)  BY <1>1 DEF Named
<1>3. \A g \in DOMAIN funcs : funcs[g].name \in Names  BY FuncsFacts, FunctionFields DEF TypeInv
<1>4. Named(NoFunc) = {}  BY <1>3, FuncDeclsAssumption DEF Named
<1> QED  BY <1>1, <1>2, <1>4

LEMMA TargetIs ==
  ASSUME TypeInv, NEW i \in DOMAIN funcs, NEW s \in DOMAIN funcs[i].body
  PROVE  T(i, s) = IF Same(i, s) # {} THEN Min(Same(i, s))
                   ELSE IF Takers(i, s) # {} THEN Min(Takers(i, s)) ELSE 0
<1> DEFINE p == Source
           st == Source[i].body[s]
           named == {g \in DOMAIN p : p[g].name = st.fn}
<1>1. named = Named(funcs[i].body[s].fn)  BY SourceFields DEF Named
<1>2. st.args = Words(i, s)  BY DEF Words
<1>3. {g \in named : p[g].params = TypesOf(st.args)} = Same(i, s)
  <2>1. \A g \in named : p[g].params = funcs[g].params  BY SourceFields
  <2> QED  BY <1>1, <1>2, <2>1 DEF Same
<1>4. {g \in named : Accepts(p[g].params, st.args)} = Takers(i, s)
  <2>1. \A g \in named : p[g].params = funcs[g].params  BY SourceFields
  <2> QED  BY <1>1, <1>2, <2>1 DEF Takers
<1>5. Target(p, st) = IF {g \in named : p[g].params = TypesOf(st.args)} # {}
                      THEN Min({g \in named : p[g].params = TypesOf(st.args)})
                      ELSE IF {g \in named : Accepts(p[g].params, st.args)} # {}
                      THEN Min({g \in named : Accepts(p[g].params, st.args)}) ELSE 0
  BY DEF Target
<1> QED  BY <1>3, <1>4, <1>5 DEF T

LEMMA TargetFacts ==
  ASSUME TypeInv, Plain(Source), NEW i \in DOMAIN funcs, NEW s \in DOMAIN funcs[i].body
  PROVE  /\ T(i, s) # 0 => T(i, s) \in Takers(i, s)
         /\ \A g \in Same(i, s) : T(i, s) = g
         /\ Same(i, s) = {} => \A g \in Takers(i, s) : T(i, s) # 0 /\ T(i, s) <= g
         /\ Takers(i, s) # {} => T(i, s) # 0
         /\ T(i, s) \in Nat /\ 0 \notin Takers(i, s)
<1> DEFINE n == funcs[i].body[s].fn
           w == Words(i, s)
<1>1. Clear  BY PlainClear
<1>2. Len(funcs) \in Nat /\ DOMAIN funcs = 1 .. Len(funcs) /\ Named(n) \subseteq 1 .. Len(funcs)
  BY NamedFacts
<1>3. Same(i, s) \subseteq 1 .. Len(funcs) /\ Takers(i, s) \subseteq 1 .. Len(funcs)
  BY <1>2 DEF Same, Takers
<1>4. ASSUME NEW g \in Same(i, s)  PROVE g \in Takers(i, s)
  <2>1. g \in Named(n) /\ funcs[g].params = TypesOf(w)  BY DEF Same
  <2>2. TypedArgs(w) /\ \A k \in DOMAIN w : w[k] \in Arg /\ w[k].t \in Types  BY <1>1, WordsFacts
  <2>3. Len(TypesOf(w)) = Len(w)  BY <2>2, TypesOfFacts
  <2>4. \A k \in DOMAIN w : TypesOf(w)[k] = w[k].t  BY DEF TypesOf
  <2>5. \A k \in DOMAIN w : Fits(Coerced(w[k], TypesOf(w)[k]), TypesOf(w)[k])
    BY <2>2, <2>4, CoercedToItself
  <2>6. Accepts(TypesOf(w), w)  BY <2>3, <2>5 DEF Accepts
  <2> QED  BY <2>1, <2>6 DEF Takers
<1>5. ASSUME NEW g \in Same(i, s), NEW h \in Same(i, s)  PROVE g = h
  <2>1. g \in DOMAIN funcs /\ h \in DOMAIN funcs /\ funcs[g].name = funcs[h].name /\ funcs[g].params = funcs[h].params
    BY DEF Same, Named
  <2>2. g \in DOMAIN Source /\ h \in DOMAIN Source /\ Signature(Source[g]) = Signature(Source[h])
    BY <2>1, SourceFields DEF Signature
  <2> QED  BY <2>2 DEF Plain
<1>6. Same(i, s) # {} => Min(Same(i, s)) \in Same(i, s)  BY <1>2, <1>3, MinFacts
<1>7. Takers(i, s) # {} => Min(Takers(i, s)) \in Takers(i, s) /\ \A g \in Takers(i, s) : Min(Takers(i, s)) <= g
  BY <1>2, <1>3, MinFacts
<1>8. 0 \notin Takers(i, s)  BY <1>2, <1>3
<1> HIDE DEF n, w
<1>9. CASE Same(i, s) # {}
  <2>1. T(i, s) = Min(Same(i, s))  BY <1>9, TargetIs
  <2>2. T(i, s) \in Same(i, s)  BY <1>6, <1>9, <2>1
  <2> QED  BY <1>2, <1>3, <1>4, <1>5, <1>8, <2>2, <1>9
<1>10. CASE Same(i, s) = {} /\ Takers(i, s) # {}
  <2>1. T(i, s) = Min(Takers(i, s))  BY <1>10, TargetIs
  <2> QED  BY <1>2, <1>3, <1>7, <1>8, <1>10, <2>1
<1>11. CASE Same(i, s) = {} /\ Takers(i, s) = {}
  <2>1. T(i, s) = 0  BY <1>11, TargetIs
  <2> QED  BY <1>8, <1>11, <2>1
<1> QED  BY <1>9, <1>10, <1>11

(* The arguments of a call that no function has taken yet are its words,   *)
(* but for literals that an attempt has made fit.                          *)
LooseArgs(args, i, s) ==
  \A k \in DOMAIN args :
    LET a == args[k]
        w == Words(i, s)[k]
    IN ~ a.cast /\ (a.lit => \/ a = w
                             \/ \E g \in Named(funcs[i].body[s].fn) :
                                  Len(funcs[g].params) = Len(args) /\ a = Coerced(w, funcs[g].params[k]))

CastsFor(i, s, g) == [k \in DOMAIN Words(i, s) |-> CastTo(Words(i, s)[k], funcs[g].params[k]).t]

(* A call that has its type calls the function it names.                   *)
Aimed(st, i, s) ==
  /\ T(i, s) # 0 /\ st.callee = T(i, s)
  /\ Alone(st.fn) \/ TypesOf(st.args) = CastsFor(i, s, T(i, s))

Meaning(st, i, s) ==
  IF st.fn = NoFunc \/ st.t = NoType THEN LooseArgs(st.args, i, s) ELSE Aimed(st, i, s)

TargetInv ==
  Plain(Source) =>
    \A i \in DOMAIN funcs : \A s \in DOMAIN funcs[i].body : Meaning(funcs[i].body[s], i, s)

LEMMA PlainCall ==
  ASSUME TypeInv, Plain(Source), NEW i \in DOMAIN funcs, NEW s \in DOMAIN funcs[i].body,
         funcs[i].body[s].fn # NoFunc
  PROVE  LET n == funcs[i].body[s].fn IN
         \/ Alone(n)
         \/ /\ Together(n) /\ \A k \in DOMAIN Words(i, s) : ~ Words(i, s)[k].lit
            /\ \A h \in Named(n) : T(i, s) # 0 /\ funcs[h].params = CastsFor(i, s, T(i, s)) => h = T(i, s)
<1> DEFINE n == funcs[i].body[s].fn
           st == Source[i].body[s]
<1>1. i \in DOMAIN Source /\ s \in DOMAIN Source[i].body /\ st.fn = n /\ st.args = Words(i, s)
  BY SourceFields DEF Words
<1>2. Alone(n) \/ (Together(n) /\ Lasts(Source, st) /\ \A k \in DOMAIN Words(i, s) : ~ Words(i, s)[k].lit)
  BY <1>1, Zenon DEF Plain
<1>3. ASSUME Lasts(Source, st), NEW h \in Named(n), T(i, s) # 0, funcs[h].params = CastsFor(i, s, T(i, s))
      PROVE  h = T(i, s)
  <2>1. T(i, s) \in Named(n)  BY <1>3, TargetFacts DEF Takers
  <2>2. /\ h \in DOMAIN Source /\ Source[h].name = st.fn /\ Source[h].params = funcs[h].params
        /\ Source[T(i, s)].params = funcs[T(i, s)].params
    BY <1>1, <2>1, SourceFields, Zenon DEF Named
  <2>3. Source[h].params = [k \in DOMAIN st.args |-> CastTo(st.args[k], Source[Target(Source, st)].params[k]).t]
    BY <1>1, <1>3, <2>2 DEF CastsFor, T
  <2> QED  BY <1>3, <2>2, <2>3, Zenon DEF Lasts, T
<1> QED  BY <1>2, <1>3

LEMMA SameArgs ==
  ASSUME NEW a \in Arg, NEW b \in Arg, a.lit = b.lit, a.v = b.v, a.t = b.t, a.cast = b.cast
  PROVE  a = b
BY DEF Arg

LEMMA LooseWords ==
  ASSUME TypeInv, Clear, InBody, LooseArgs(stmt.args, top.f, top.s)
  PROVE  LET w == Words(top.f, top.s) IN
         /\ Len(callArgs) = Len(w) /\ DOMAIN callArgs = DOMAIN w
         /\ \A k \in DOMAIN w :
              \/ callArgs[k] = w[k]
              \/ /\ w[k].lit
                 /\ \E g \in Named(stmt.fn) : /\ Len(funcs[g].params) = Len(w)
                                              /\ callArgs[k] = Coerced(w[k], funcs[g].params[k])
<1> DEFINE w == Words(top.f, top.s)
<1>1. /\ top.f \in DOMAIN funcs /\ fun = funcs[top.f] /\ top.s \in DOMAIN fun.body /\ stmt = fun.body[top.s]
      /\ stmt \in Statement
  <2>1. Visiting  BY DEF InBody
  <2> QED  BY <2>1, BodyFacts, StackFacts DEF TypeInv
<1>2. /\ TypedArgs(w) /\ Len(w) = Len(stmt.args) /\ DOMAIN w = DOMAIN stmt.args
      /\ \A k \in DOMAIN w : w[k] = Word(fun, stmt.args[k]) /\ w[k] \in Arg /\ w[k].lit = stmt.args[k].lit
  BY <1>1, WordsFacts
<1>3. /\ TypedArgs(callArgs) /\ Len(callArgs) = Len(stmt.args)
      /\ \A k \in DOMAIN stmt.args :
           /\ callArgs[k].lit = stmt.args[k].lit /\ callArgs[k].v = stmt.args[k].v
           /\ callArgs[k].cast = stmt.args[k].cast
           /\ stmt.args[k].lit \/ stmt.args[k].cast => callArgs[k] = stmt.args[k]
           /\ ~ stmt.args[k].lit /\ ~ stmt.args[k].cast => callArgs[k].t = fun.params[stmt.args[k].v]
  BY TypedsFacts DEF TypeInv
<1>4. callArgs \in Seq(Arg) /\ DOMAIN callArgs = DOMAIN w /\ \A k \in DOMAIN w : callArgs[k] \in Arg
  BY <1>2, <1>3, SMTT(20) DEF TypedArgs
<1>5. \A k \in DOMAIN w :
        /\ ~ stmt.args[k].cast
        /\ stmt.args[k].lit => \/ stmt.args[k] = w[k]
                               \/ \E g \in Named(stmt.fn) : /\ Len(funcs[g].params) = Len(stmt.args)
                                                            /\ stmt.args[k] = Coerced(w[k], funcs[g].params[k])
  BY <1>1, <1>2, Zenon DEF LooseArgs
<1> HIDE DEF w
<1>6. ASSUME NEW k \in DOMAIN w, ~ w[k].lit  PROVE callArgs[k] = w[k]
  <2> DEFINE a == stmt.args[k]
  <2>1. ~ a.lit /\ ~ a.cast /\ a \in Arg
    BY <1>1, <1>2, <1>5, <1>6, StatementFields, Zenon
  <2>2. w[k] = Word(fun, a)  BY <1>2
  <2>3. w[k].v = a.v /\ w[k].t = fun.params[a.v] /\ w[k].cast = FALSE
    BY <2>1, <2>2 DEF Word, Original
  <2>4. a.cast = FALSE  BY <2>1 DEF Arg
  <2> HIDE DEF a
  <2>5. callArgs[k].lit = w[k].lit /\ callArgs[k].v = w[k].v /\ callArgs[k].cast = w[k].cast
        /\ callArgs[k].t = w[k].t
    BY <1>2, <1>3, <2>1, <2>3, <2>4 DEF a
  <2> QED  BY <1>2, <1>4, <2>5, SameArgs, Zenon
<1>7. ASSUME NEW k \in DOMAIN w, w[k].lit
      PROVE  \/ callArgs[k] = w[k]
             \/ \E g \in Named(stmt.fn) : /\ Len(funcs[g].params) = Len(w)
                                          /\ callArgs[k] = Coerced(w[k], funcs[g].params[k])
  BY <1>2, <1>3, <1>5, <1>7
<1> QED  BY <1>2, <1>3, <1>4, <1>6, <1>7 DEF w

LEMMA LooseAttempts ==
  ASSUME TypeInv, Plain(Source), InBody, stmt.fn # NoFunc, LooseArgs(stmt.args, top.f, top.s),
         NEW g \in Named(stmt.fn), Len(funcs[g].params) = Len(stmt.args)
  PROVE  LET w == Words(top.f, top.s)
             params == funcs[g].params
         IN \A k \in DOMAIN w :
              /\ callArgs[k] = w[k] \/ callArgs[k] = Coerced(w[k], params[k])
              /\ Coerced(callArgs[k], params[k]) = Coerced(w[k], params[k])
              /\ params[k] \in Types
<1> DEFINE w == Words(top.f, top.s)
           params == funcs[g].params
<1>1. Clear  BY PlainClear
<1>2. /\ top.f \in DOMAIN funcs /\ fun = funcs[top.f] /\ top.s \in DOMAIN fun.body /\ stmt = fun.body[top.s]
  <2>1. Visiting  BY DEF InBody
  <2> QED  BY <2>1, BodyFacts, StackFacts DEF TypeInv
<1>3. /\ Len(w) = Len(stmt.args) /\ DOMAIN w = 1 .. Len(w)
      /\ \A k \in DOMAIN w : w[k] \in Arg /\ w[k].t \in Types
  BY <1>1, <1>2, WordsFacts
<1>4. \A k \in DOMAIN w :
         \/ callArgs[k] = w[k]
         \/ w[k].lit /\ \E h \in Named(stmt.fn) : callArgs[k] = Coerced(w[k], funcs[h].params[k])
  BY <1>1, LooseWords
<1>5. Alone(stmt.fn) \/ \A k \in DOMAIN w : ~ w[k].lit  BY <1>2, PlainCall
<1>6. Alone(stmt.fn) => \A h \in Named(stmt.fn) : h = g  BY DEF Alone
<1>7. \A k \in DOMAIN w : params[k] \in Types
  <2>1. g \in DOMAIN funcs  BY DEF Named
  <2>2. funcs[g] \in Function /\ ~ IsGeneric(funcs[g])  BY <1>1, <2>1, FuncsFacts DEF TypeInv, Clear
  <2>3. DOMAIN params = 1 .. Len(params)  BY <2>2, FunctionFields
  <2> QED  BY <1>3, <2>2, <2>3, ParamsTyped
<1>8. \A k \in DOMAIN w : callArgs[k] = w[k] \/ callArgs[k] = Coerced(w[k], params[k])
  BY <1>4, <1>5, <1>6
<1> HIDE DEF w, params
<1>9. \A k \in DOMAIN w : Coerced(callArgs[k], params[k]) = Coerced(w[k], params[k])
  BY <1>3, <1>7, <1>8, CoercedTwice
<1> QED  BY <1>7, <1>8, <1>9 DEF w, params

LEMMA LooseMatch ==
  ASSUME TypeInv, Plain(Source), InBody, stmt.fn # NoFunc, LooseArgs(stmt.args, top.f, top.s),
         NEW g \in Named(stmt.fn), Len(funcs[g].params) = Len(stmt.args)
  PROVE  LET w == Words(top.f, top.s)
             params == funcs[g].params
             m == Match(params, callArgs)
         IN /\ m.ok <=> g \in Takers(top.f, top.s)
            /\ m.ok => \A k \in DOMAIN w : m.args[k] = CastTo(Coerced(w[k], params[k]), params[k])
            /\ ~ m.ok => \A k \in DOMAIN w : m.args[k] = callArgs[k] \/ m.args[k] = Coerced(w[k], params[k])
<1> DEFINE w == Words(top.f, top.s)
           params == funcs[g].params
           tries == [k \in DOMAIN callArgs |-> Attempt(callArgs[k], params[k])]
           m == Match(params, callArgs)
<1>1. Clear  BY PlainClear
<1>2. /\ top.f \in DOMAIN funcs /\ fun = funcs[top.f] /\ top.s \in DOMAIN fun.body /\ stmt = fun.body[top.s]
  <2>1. Visiting  BY DEF InBody
  <2> QED  BY <2>1, BodyFacts, StackFacts DEF TypeInv
<1>3. DOMAIN callArgs = DOMAIN w /\ Len(w) = Len(stmt.args)  BY <1>1, <1>2, LooseWords, WordsFacts
<1>4. \A k \in DOMAIN w : Coerced(callArgs[k], params[k]) = Coerced(w[k], params[k]) /\ params[k] \in Types
  BY LooseAttempts
<1>5. m = Outcome(tries, callArgs)  BY DEF Match
<1>6. g \in Takers(top.f, top.s) <=> \A k \in DOMAIN w : Fits(Coerced(w[k], params[k]), params[k])
  BY <1>2, <1>3 DEF Takers, Accepts
<1> HIDE DEF w, params, m, tries
<1>7. ASSUME NEW k \in DOMAIN w
      PROVE  /\ tries[k].left = Coerced(w[k], params[k])
             /\ tries[k].fits <=> Fits(Coerced(w[k], params[k]), params[k])
             /\ tries[k].passed = CastTo(Coerced(w[k], params[k]), params[k])
  <2>1. tries[k] = Attempt(callArgs[k], params[k])  BY <1>3 DEF tries
  <2>2. params[k] # Untyped  BY <1>4, FuncDeclsAssumption
  <2>3. tries[k] = [left |-> Coerced(w[k], params[k]), fits |-> Fits(Coerced(w[k], params[k]), params[k]),
                    passed |-> CastTo(Coerced(w[k], params[k]), params[k])]
    BY <1>4, <2>1, <2>2 DEF Attempt
  <2> QED  BY <2>3
<1> DEFINE bad == {k \in DOMAIN callArgs : ~ tries[k].fits}
<1>8. /\ m.ok <=> bad = {}
      /\ m.args = [k \in DOMAIN callArgs |->
                     IF bad = {} THEN tries[k].passed
                     ELSE IF \A j \in bad : k <= j THEN tries[k].left ELSE callArgs[k]]
  BY <1>5 DEF Outcome
<1>9. bad = {} <=> \A k \in DOMAIN w : tries[k].fits  BY <1>3
<1>10. \A k \in DOMAIN w : tries[k].fits <=> Fits(Coerced(w[k], params[k]), params[k])  BY <1>7
<1>11. m.ok <=> g \in Takers(top.f, top.s)
  <2> HIDE DEF bad
  <2> QED  BY <1>6, <1>8, <1>9, <1>10
<1> HIDE DEF bad
<1>12. \A k \in DOMAIN w :
         m.args[k] = IF bad = {} THEN tries[k].passed
                     ELSE IF \A j \in bad : k <= j THEN tries[k].left ELSE callArgs[k]
  BY <1>3, <1>8
<1>13. m.ok => \A k \in DOMAIN w : m.args[k] = CastTo(Coerced(w[k], params[k]), params[k])
  BY <1>7, <1>8, <1>12
<1>14. ~ m.ok => \A k \in DOMAIN w : m.args[k] = callArgs[k] \/ m.args[k] = Coerced(w[k], params[k])
  BY <1>7, <1>8, <1>12
<1> QED  BY <1>11, <1>13, <1>14 DEF w, params, m

LEMMA ExactFacts ==
  ASSUME TypeInv, InBody, stmt.fn # NoFunc, exact \in DOMAIN symbols
  PROVE  /\ symbols[exact] \in Named(stmt.fn) /\ funcs[symbols[exact]].params = TypesOf(callArgs)
         /\ funcs[symbols[exact]].typed
<1> DEFINE g == symbols[exact]
<1>1. g \in DOMAIN funcs /\ funcs[g].typed /\ Signature(funcs[g]) = exact  BY DEF TypeInv, TablesInv
<1>2. funcs[g].name = stmt.fn /\ funcs[g].params = TypesOf(callArgs)  BY <1>1 DEF Signature, exact
<1> QED  BY <1>1, <1>2 DEF Named

LEMMA CastsOfExact ==
  ASSUME TypeInv, Clear, NEW i \in DOMAIN funcs, NEW s \in DOMAIN funcs[i].body,
         NEW g, funcs[g].params = TypesOf(Words(i, s))
  PROVE  CastsFor(i, s, g) = TypesOf(Words(i, s))
<1>1. \A k \in DOMAIN Words(i, s) : Words(i, s)[k] \in Arg /\ Words(i, s)[k].t \in Types  BY WordsFacts
<1>2. \A k \in DOMAIN Words(i, s) : funcs[g].params[k] = Words(i, s)[k].t  BY DEF TypesOf
<1>3. \A k \in DOMAIN Words(i, s) : CastTo(Words(i, s)[k], funcs[g].params[k]).t = Words(i, s)[k].t
  BY <1>1, <1>2, CoercedToItself
<1> QED  BY <1>3 DEF CastsFor, TypesOf

LEMMA LooseExact ==
  ASSUME TypeInv, Plain(Source), InBody, stmt.fn # NoFunc, LooseArgs(stmt.args, top.f, top.s), exact \in DOMAIN symbols
  PROVE  /\ T(top.f, top.s) # 0 /\ symbols[exact] = T(top.f, top.s)
         /\ Alone(stmt.fn) \/ TypesOf(callArgs) = CastsFor(top.f, top.s, T(top.f, top.s))
<1> DEFINE w == Words(top.f, top.s)
           g == symbols[exact]
           params == funcs[g].params
<1>1. Clear  BY PlainClear
<1>2. /\ top.f \in DOMAIN funcs /\ fun = funcs[top.f] /\ top.s \in DOMAIN fun.body /\ stmt = fun.body[top.s]
  <2>1. Visiting  BY Zenon DEF InBody
  <2> QED  BY <2>1, BodyFacts, StackFacts DEF TypeInv
<1>3. /\ DOMAIN callArgs = DOMAIN w /\ Len(w) = Len(stmt.args) /\ Len(callArgs) = Len(w)
      /\ TypedArgs(callArgs) /\ TypedArgs(w)
      /\ \A k \in DOMAIN w : w[k] \in Arg /\ w[k].t \in Types
  BY <1>1, <1>2, LooseWords, WordsFacts, TypedsFacts, Zenon DEF TypeInv
<1>4. g \in Named(stmt.fn) /\ params = TypesOf(callArgs)  BY ExactFacts
<1>5. Len(params) = Len(w)  BY <1>3, <1>4, TypesOfFacts
<1>6. \A k \in DOMAIN w : params[k] = callArgs[k].t  BY <1>3, <1>4 DEF TypesOf
<1>7. \A k \in DOMAIN w : /\ callArgs[k] = w[k] \/ callArgs[k] = Coerced(w[k], params[k])
                          /\ params[k] \in Types
  BY <1>3, <1>4, <1>5, LooseAttempts
<1>8. g \in Takers(top.f, top.s)
  <2>1. ASSUME NEW k \in DOMAIN w  PROVE Fits(Coerced(w[k], params[k]), params[k])
    <3>1. CASE callArgs[k] = w[k]
      <4>1. params[k] = w[k].t  BY <1>6, <3>1
      <4>2. w[k] \in Arg /\ w[k].t \in Types  BY <1>3
      <4>3. Fits(Coerced(w[k], w[k].t), w[k].t)  BY <4>2, CoercedToItself
      <4> QED  BY <4>1, <4>3
    <3>2. CASE callArgs[k] = Coerced(w[k], params[k])
      <4>1. Coerced(w[k], params[k]).t = params[k] /\ params[k] \in Types  BY <1>6, <1>7, <3>2
      <4>2. Convertible(params[k], params[k])  BY <4>1, SameTypePasses
      <4> QED  BY <4>1, <4>2 DEF Fits
    <3> QED  BY <1>7, <3>1, <3>2
  <2> QED  BY <1>2, <1>4, <1>5, <2>1 DEF Takers, Accepts
<1>9. T(top.f, top.s) # 0 /\ T(top.f, top.s) \in Takers(top.f, top.s)  BY <1>2, <1>8, TargetFacts
<1>10. CASE Alone(stmt.fn)
  <2>1. T(top.f, top.s) \in Named(stmt.fn)  BY <1>2, <1>9 DEF Takers
  <2>2. T(top.f, top.s) = g  BY <1>4, <1>10, <2>1 DEF Alone
  <2> QED  BY <1>9, <1>10, <2>2
<1>11. CASE \A k \in DOMAIN w : ~ w[k].lit
  <2>1. \A k \in DOMAIN w : callArgs[k] = w[k]  BY <1>1, <1>11, LooseWords
  <2>2. TypesOf(callArgs) = TypesOf(w)  BY <1>3, <2>1 DEF TypesOf
  <2>3. g \in Same(top.f, top.s)  BY <1>2, <1>4, <2>2 DEF Same
  <2>4. T(top.f, top.s) = g  BY <1>2, <2>3, TargetFacts
  <2>5. CastsFor(top.f, top.s, g) = TypesOf(w)  BY <1>1, <1>2, <1>4, <2>2, CastsOfExact
  <2> QED  BY <1>9, <2>2, <2>4, <2>5
<1> QED  BY <1>2, <1>10, <1>11, PlainCall

LEMMA MeaningStays ==
  ASSUME TypeInv, PlainStep, NEW i \in DOMAIN funcs, NEW s \in DOMAIN funcs[i].body,
         NEW st, st = (funcs')[i].body[s]
  PROVE  Meaning(funcs[i].body[s], i, s)' <=> Meaning(st, i, s)
<1> DEFINE n == funcs[i].body[s].fn
<1>1. /\ Words(i, s)' = Words(i, s) /\ T(i, s)' = T(i, s) /\ st.fn = n
      /\ \A m : Named(m)' = Named(m) /\ (Alone(m)' <=> Alone(m))
      /\ \A g \in DOMAIN funcs : (funcs')[g].params = funcs[g].params
  BY PlainKeeps
<1>2. \A g \in Named(n) : g \in DOMAIN funcs  BY DEF Named
<1>3. LooseArgs(funcs[i].body[s].args, i, s)' <=> LooseArgs(st.args, i, s)
  <2>1. {g \in DOMAIN funcs' : (funcs')[g].name = st.fn} = Named(n)
    BY <1>1, PlainKeeps DEF Named, PlainStep
  <2>2. LooseArgs(funcs[i].body[s].args, i, s)' <=>
          \A k \in DOMAIN st.args :
            /\ ~ st.args[k].cast
            /\ st.args[k].lit =>
                 \/ st.args[k] = Words(i, s)[k]
                 \/ \E g \in {h \in DOMAIN funcs' : (funcs')[h].name = st.fn} :
                      /\ Len((funcs')[g].params) = Len(st.args)
                      /\ st.args[k] = Coerced(Words(i, s)[k], (funcs')[g].params[k])
    BY <1>1 DEF LooseArgs, Named
  <2>3. LooseArgs(st.args, i, s) <=>
          \A k \in DOMAIN st.args :
            /\ ~ st.args[k].cast
            /\ st.args[k].lit =>
                 \/ st.args[k] = Words(i, s)[k]
                 \/ \E g \in Named(n) : /\ Len(funcs[g].params) = Len(st.args)
                                        /\ st.args[k] = Coerced(Words(i, s)[k], funcs[g].params[k])
    BY DEF LooseArgs
  <2> HIDE DEF n
  <2>4. \A g \in Named(n) : (funcs')[g].params = funcs[g].params  BY <1>1, <1>2
  <2> QED  BY <2>1, <2>2, <2>3, <2>4
<1>4. Aimed(funcs[i].body[s], i, s)' <=> Aimed(st, i, s)
  <2>1. ASSUME T(i, s) # 0  PROVE CastsFor(i, s, T(i, s))' = CastsFor(i, s, T(i, s))
    <3>1. Plain(Source)  BY DEF PlainStep
    <3>2. T(i, s) \in Named(n)  BY <2>1, <3>1, TargetFacts DEF Takers
    <3>3. (funcs')[T(i, s)].params = funcs[T(i, s)].params  BY <1>1, <1>2, <3>2
    <3> QED  BY <1>1, <3>3 DEF CastsFor
  <2>2. Alone(funcs[i].body[s].fn)' <=> Alone(st.fn)
    <3>1. {g \in DOMAIN funcs' : (funcs')[g].name = st.fn} = Named(n)
      BY <1>1, PlainKeeps DEF Named, PlainStep
    <3>2. \A g \in Named(n) : IsGeneric((funcs')[g]) <=> IsGeneric(funcs[g])  BY <1>1, <1>2 DEF IsGeneric
    <3>3. Alone(funcs[i].body[s].fn)' <=>
            \A g \in {h \in DOMAIN funcs' : (funcs')[h].name = st.fn} :
              ~ IsGeneric((funcs')[g]) /\ {h \in DOMAIN funcs' : (funcs')[h].name = st.fn} = {g}
      BY DEF Alone, Named
    <3>4. Alone(st.fn) <=> \A g \in Named(n) : ~ IsGeneric(funcs[g]) /\ Named(n) = {g}
      BY <1>1 DEF Alone
    <3> HIDE DEF n
    <3> QED  BY <3>1, <3>2, <3>3, <3>4
  <2>3. Aimed(funcs[i].body[s], i, s)' <=>
          /\ T(i, s)' # 0 /\ st.callee = T(i, s)'
          /\ Alone(funcs[i].body[s].fn)' \/ TypesOf(st.args) = CastsFor(i, s, T(i, s))'
    BY DEF Aimed
  <2> QED  BY <1>1, <2>1, <2>2, <2>3 DEF Aimed
<1>5. Meaning(funcs[i].body[s], i, s)' <=>
        IF st.fn = NoFunc \/ st.t = NoType THEN LooseArgs(funcs[i].body[s].args, i, s)'
        ELSE Aimed(funcs[i].body[s], i, s)'
  BY DEF Meaning
<1> QED  BY <1>3, <1>4, <1>5 DEF Meaning

LEMMA AtStatement ==
  ASSUME TypeInv, InBody
  PROVE  /\ Visiting /\ top.f \in DOMAIN funcs /\ fun = funcs[top.f] /\ top.s \in DOMAIN fun.body
         /\ stmt = fun.body[top.s] /\ stmt \in Statement
<1>1. Visiting  BY DEF InBody
<1> QED  BY <1>1, BodyFacts, StackFacts DEF TypeInv

LEMMA LooseStays ==
  ASSUME TypeInv, InBody, LooseArgs(stmt.args, top.f, top.s)
  PROVE  LooseArgs(callArgs, top.f, top.s)
<1>1. /\ Len(callArgs) = Len(stmt.args) /\ DOMAIN callArgs = DOMAIN stmt.args
      /\ \A k \in DOMAIN stmt.args :
           /\ callArgs[k].lit = stmt.args[k].lit /\ callArgs[k].cast = stmt.args[k].cast
           /\ stmt.args[k].lit => callArgs[k] = stmt.args[k]
  BY TypedsFacts DEF TypeInv, Typeds, callArgs
<1> QED  BY <1>1 DEF LooseArgs

LEMMA TypedAgain ==
  ASSUME TypeInv, CallInv, InBody, stmt.fn # NoFunc, stmt.t # NoType
  PROVE  TypesOf(callArgs) = TypesOf(stmt.args)
<1>1. ArgsTyped(stmt, fun)  BY AtStatement DEF CallInv
<1>2. /\ DOMAIN callArgs = DOMAIN stmt.args
      /\ \A k \in DOMAIN stmt.args :
           /\ stmt.args[k].lit \/ stmt.args[k].cast => callArgs[k] = stmt.args[k]
           /\ ~ stmt.args[k].lit /\ ~ stmt.args[k].cast => callArgs[k].t = fun.params[stmt.args[k].v]
  BY TypedsFacts DEF TypeInv, Typeds, callArgs
<1>3. \A k \in DOMAIN stmt.args : callArgs[k].t = stmt.args[k].t  BY <1>1, <1>2 DEF ArgsTyped
<1> QED  BY <1>2, <1>3 DEF TypesOf

LEMMA AimedExact ==
  ASSUME TypeInv, CallInv, Plain(Source), InBody, stmt.fn # NoFunc, stmt.t # NoType,
         Aimed(stmt, top.f, top.s), exact \in DOMAIN symbols
  PROVE  symbols[exact] = T(top.f, top.s)
<1>1. symbols[exact] \in Named(stmt.fn) /\ funcs[symbols[exact]].params = TypesOf(callArgs)  BY ExactFacts
<1>2. TypesOf(callArgs) = TypesOf(stmt.args)  BY TypedAgain
<1>3. T(top.f, top.s) # 0  BY DEF Aimed
<1>4. T(top.f, top.s) \in Named(stmt.fn)  BY <1>3, AtStatement, TargetFacts DEF Takers
<1>5. CASE Alone(stmt.fn)  BY <1>1, <1>4, <1>5 DEF Alone
<1>6. CASE ~ Alone(stmt.fn)
  <2>1. funcs[symbols[exact]].params = CastsFor(top.f, top.s, T(top.f, top.s))
    BY <1>1, <1>2, <1>6 DEF Aimed
  <2> QED  BY <1>1, <1>3, <1>6, <2>1, AtStatement, PlainCall
<1> QED  BY <1>5, <1>6

(* While overloads are tried, those tried do not take the words; and       *)
(* overloads that are known all at once stand in the order of the file.    *)
TakenInv ==
  Plain(Source) /\ Visiting /\ top.tried > 0 =>
    \A k \in 1 .. top.tried : overloads[stmt.fn][k] \notin Takers(top.f, top.s)

AscendInv ==
  Plain(Source) => \A n \in Names : Together(n) =>
    \A j, k \in DOMAIN overloads[n] : j < k => overloads[n][j] < overloads[n][k]

LEMMA OverloadAims ==
  ASSUME TypeInv, KnownInv, BestsInv, ListedInv, TakenInv, AscendInv, Plain(Source), Comparing, SameLength,
         LooseArgs(stmt.args, top.f, top.s), Match(funcs[candidate].params, callArgs).ok
  PROVE  /\ T(top.f, top.s) # 0 /\ candidate = T(top.f, top.s)
         /\ \/ Alone(stmt.fn)
            \/ TypesOf(Match(funcs[candidate].params, callArgs).args) = CastsFor(top.f, top.s, candidate)
<1> DEFINE w == Words(top.f, top.s)
           n == stmt.fn
           now == Match(funcs[candidate].params, callArgs).args
           t == T(top.f, top.s)
<1>1. Clear  BY PlainClear
<1>2. /\ InBody /\ n \in Names /\ n # NoFunc /\ candidate \in Named(n) /\ funcs[candidate].typed
      /\ n \in bases /\ candidate = overloads[n][top.tried + 1] /\ top.tried + 1 \in DOMAIN overloads[n]
  <2>1. /\ InBody /\ n \in Names /\ candidate \in DOMAIN funcs /\ funcs[candidate].typed
        /\ funcs[candidate].name = n
    BY CandidateFacts
  <2>2. n # NoFunc  BY <2>1, FuncDeclsAssumption
  <2>3. top.tried \in Nat  BY <2>1, AtStatement, StackFacts DEF TypeInv
  <2>4. top.tried < Len(Candidates)  BY DEF Comparing
  <2>5. n \in bases  BY <2>3, <2>4 DEF Candidates
  <2>6. overloads[n] \in Seq(DOMAIN funcs)  BY <2>1 DEF TypeInv, TablesInv
  <2>7. top.tried < Len(overloads[n])  BY <2>4, <2>5 DEF Candidates
  <2>8. top.tried + 1 \in DOMAIN overloads[n]  BY <2>3, <2>6, <2>7, SMTT(20)
  <2> QED  BY <2>1, <2>2, <2>5, <2>8 DEF Named, candidate, Candidates
<1>3. candidate \in Takers(top.f, top.s)
      /\ \A k \in DOMAIN w : now[k] = CastTo(Coerced(w[k], funcs[candidate].params[k]), funcs[candidate].params[k])
  BY <1>2, LooseMatch, Zenon DEF SameLength
<1>4. t # 0 /\ t \in Takers(top.f, top.s) /\ t \in Named(n)
  BY <1>2, <1>3, AtStatement, TargetFacts, Zenon DEF Takers
<1>5. CASE Alone(n)
  BY <1>2, <1>4, <1>5 DEF Alone
<1>6. CASE Together(n) /\ \A k \in DOMAIN w : ~ w[k].lit
  <2>1. /\ DOMAIN callArgs = DOMAIN w /\ DOMAIN w = DOMAIN stmt.args
        /\ \A k \in DOMAIN w : w[k] = Word(fun, stmt.args[k]) /\ w[k] \in Arg /\ w[k].t \in Types
    BY <1>1, <1>2, AtStatement, LooseWords, WordsFacts
  <2>2. Same(top.f, top.s) = {}
    <3>1. ~ Meant(stmt, fun)  BY <1>6, NeverCompared
    <3>2. TypesOf(w) = OriginalTypes(stmt.args, fun)
      <4> HIDE DEF w
      <4>1. \A a : Word(fun, a).t = Original(fun, a)  BY DEF Word
      <4>2. \A k \in DOMAIN w : w[k].t = Original(fun, stmt.args[k])  BY <2>1, <4>1, Zenon
      <4> QED  BY <2>1, <4>2 DEF TypesOf, OriginalTypes
    <3> QED  BY <1>2, <3>1, <3>2, AtStatement DEF Meant, Same
  <2>3. t <= candidate /\ t \in Nat  BY <1>2, <1>3, <2>2, AtStatement, TargetFacts
  <2>4. funcs[t].typed  BY <1>2, <1>4, <1>6, CalledFromBehind DEF AllTyped
  <2>5. funcs[t].name = n /\ t \in DOMAIN funcs  BY <1>4 DEF Named
  <2>6. PICK k \in DOMAIN overloads[n] : overloads[n][k] = t  BY <2>4, <2>5 DEF ListedInv
  <2>7. top.tried \in Nat /\ k \in Nat \ {0} /\ candidate \in Nat
    <3>1. overloads[n] \in Seq(DOMAIN funcs)  BY <1>2 DEF TypeInv, TablesInv
    <3>2. k \in Nat \ {0}  BY <3>1
    <3> QED  BY <1>2, <3>2, AtStatement, StackFacts, CandidateFacts DEF TypeInv
  <2>8. ~ (k <= top.tried)  BY <1>2, <1>4, <2>6, <2>7, AtStatement DEF TakenInv
  <2>9. ~ (top.tried + 1 < k)
    <3> SUFFICES ASSUME top.tried + 1 < k  PROVE FALSE  OBVIOUS
    <3>1. overloads[n][top.tried + 1] < overloads[n][k]  BY <1>2, <1>6, <2>6 DEF AscendInv
    <3>2. candidate < t  BY <1>2, <2>6, <3>1
    <3> QED  BY <2>3, <2>7, <3>2
  <2>10. k = top.tried + 1  BY <2>7, <2>8, <2>9
  <2>11. candidate = t  BY <1>2, <2>6, <2>10
  <2>12. \A k2 \in DOMAIN w : Coerced(w[k2], funcs[candidate].params[k2]) = w[k2]  BY <1>6 DEF Coerced
  <2>13. \A k2 \in DOMAIN w : now[k2] = CastTo(w[k2], funcs[candidate].params[k2])  BY <1>3, <2>12
  <2>14. DOMAIN now = DOMAIN w
    <3>1. DOMAIN now = DOMAIN callArgs  BY DEF Match, Outcome
    <3> QED  BY <2>1, <3>1
  <2>15. TypesOf(now) = CastsFor(top.f, top.s, candidate)  BY <2>13, <2>14 DEF TypesOf, CastsFor
  <2> QED  BY <1>4, <2>11, <2>15
<1> QED  BY <1>2, <1>5, <1>6, AtStatement, PlainCall

LEMMA Set ==
  ASSUME TypeInv, InBody, NEW st \in Statement, funcs' = SetStatement(st)
  PROVE  (funcs')[top.f].body[top.s] = st
<1>1. /\ top.f \in DOMAIN funcs /\ fun = funcs[top.f] /\ top.s \in DOMAIN fun.body /\ funcs \in Seq(Function)
  BY AtStatement DEF TypeInv, FunctionsInv
<1>2. funcs' = WithStatement(funcs, top.f, top.s, st)  BY DEF SetStatement, WithStatement
<1>3. (funcs')[top.f].body = [fun.body EXCEPT ![top.s] = st]  BY <1>1, <1>2, WithStatementFacts
<1> QED  BY <1>1, <1>3

LEMMA WrittenMeaning ==
  ASSUME TypeInv, CallInv, KnownInv, BestsInv, ListedInv, TakenInv, AscendInv, TargetInv, Plain(Source), Writes
  PROVE  Meaning((funcs')[top.f].body[top.s], top.f, top.s)
<1> DEFINE now == (funcs')[top.f].body[top.s]
           w == Words(top.f, top.s)
<1>1. PICK wr : Wrote(wr)  BY WritesFacts
<1>2. InBody  BY <1>1 DEF Wrote
<1>3. Meaning(stmt, top.f, top.s)  BY <1>2, AtStatement DEF TargetInv
<1>4. ASSUME NEW st, Wrote(st)
      PROVE  now = st /\ st.fn = stmt.fn
  <2>1. now = st  BY <1>4, WroteFacts
  <2> QED  BY <1>4, <2>1 DEF Wrote
<1>5. stmt.fn = NoFunc \/ stmt.t = NoType =>
        LooseArgs(stmt.args, top.f, top.s) /\ LooseArgs(callArgs, top.f, top.s)
  BY <1>2, <1>3, LooseStays DEF Meaning
<1>6. stmt.fn # NoFunc /\ stmt.t # NoType => Aimed(stmt, top.f, top.s)  BY <1>3 DEF Meaning
<1> HIDE DEF now
<1>7. CASE ReturnValue
  <2>1. PICK st : Wrote(st) /\ st.fn = NoFunc /\ st.args = callArgs  BY <1>7, ReturnValueFacts
  <2>2. now = st /\ st.fn = stmt.fn  BY <1>4, <2>1
  <2>3. Meaning(now, top.f, top.s)  BY <1>5, <2>1, <2>2 DEF Meaning
  <2> QED  BY <2>3 DEF now
<1>8. CASE CallExact
  <2>1. PICK st : /\ Wrote(st) /\ st.fn # NoFunc /\ st.args = callArgs /\ exact \in DOMAIN symbols
                  /\ st.callee = symbols[exact] /\ st.t # NoType
    BY <1>8, CallExactFacts
  <2>2. now = st /\ st.fn = stmt.fn  BY <1>4, <2>1
  <2>3. /\ T(top.f, top.s) # 0 /\ symbols[exact] = T(top.f, top.s)
        /\ Alone(stmt.fn) \/ TypesOf(callArgs) = CastsFor(top.f, top.s, T(top.f, top.s))
    <3>1. CASE stmt.t = NoType  BY <1>2, <1>5, <2>1, <2>2, <3>1, LooseExact
    <3>2. CASE stmt.t # NoType
      <4>1. symbols[exact] = T(top.f, top.s)  BY <1>2, <1>6, <2>1, <2>2, <3>2, AimedExact
      <4>2. TypesOf(callArgs) = TypesOf(stmt.args)  BY <1>2, <2>1, <2>2, <3>2, TypedAgain
      <4> QED  BY <1>6, <2>1, <2>2, <3>2, <4>1, <4>2 DEF Aimed
    <3> QED  BY <3>1, <3>2
  <2>4. Meaning(now, top.f, top.s)  BY <2>1, <2>2, <2>3 DEF Meaning, Aimed
  <2> QED  BY <2>4 DEF now
<1>9. CASE CallKept
  <2>1. PICK st : /\ Wrote(st) /\ st.fn # NoFunc /\ st.args = callArgs
                  /\ st.callee = stmt.callee /\ st.t = stmt.t /\ st.t # NoType
    BY <1>9, CallKeptFacts
  <2>2. now = st /\ st.fn = stmt.fn  BY <1>4, <2>1
  <2>3. TypesOf(callArgs) = TypesOf(stmt.args)  BY <1>2, <2>1, <2>2, TypedAgain
  <2>4. Meaning(now, top.f, top.s)  BY <1>6, <2>1, <2>2, <2>3 DEF Meaning, Aimed
  <2> QED  BY <2>4 DEF now
<1>10. CASE CallOverload
  <2>1. PICK st : /\ Wrote(st) /\ st.fn # NoFunc /\ stmt.t = NoType /\ Comparing /\ st.callee = candidate
                  /\ st.t # NoType
    BY <1>10, CallOverloadFacts
  <2>2. now = st /\ st.fn = stmt.fn  BY <1>4, <2>1
  <2> DEFINE m == Match(funcs[candidate].params, callArgs)
  <2>3. SameLength /\ m.ok
        /\ funcs' = SetStatement(WithCall(stmt, m.args, candidate, funcs[candidate].result))
    BY <1>10 DEF CallOverload, WithCall
  <2>4. /\ funcs[candidate].params \in Seq(Types \cup {Untyped}) /\ candidate \in Nat
        /\ funcs[candidate].result \in Types \cup {NoType}
        /\ Len(funcs[candidate].params) = Len(stmt.args)
    BY <2>1, <2>3, CandidateFacts DEF SameLength
  <2>5. WithCall(stmt, m.args, candidate, funcs[candidate].result) \in Statement /\ m.args \in Seq(Arg)
    BY <1>2, <2>4, MatchKept DEF KeepsArgs
  <2>6. now = WithCall(stmt, m.args, candidate, funcs[candidate].result)
    BY <1>2, <2>3, <2>5, Set DEF now
  <2> HIDE DEF m
  <2>7. now.args = m.args  BY <1>2, <2>4, <2>5, <2>6, AtStatement, StatementWith
  <2>8. /\ T(top.f, top.s) # 0 /\ candidate = T(top.f, top.s)
        /\ Alone(stmt.fn) \/ TypesOf(m.args) = CastsFor(top.f, top.s, candidate)
    BY <1>2, <1>5, <2>1, <2>2, <2>3, OverloadAims DEF m
  <2>9. Meaning(now, top.f, top.s)  BY <2>1, <2>2, <2>7, <2>8 DEF Meaning, Aimed
  <2> QED  BY <2>9 DEF now
<1>11. CASE NextOverload
  <2>1. PICK st : Wrote(st) /\ st.fn # NoFunc /\ stmt.t = NoType /\ st.t = NoType /\ Comparing
                  /\ (SameLength => ~ Match(funcs[candidate].params, callArgs).ok)
    BY <1>11, NextOverloadFacts
  <2>2. now = st /\ st.fn = stmt.fn  BY <1>4, <2>1
  <2> DEFINE m == Match(funcs[candidate].params, callArgs)
  <2>3. CASE ~ SameLength
    <3>1. funcs' = funcs  BY <1>11, <2>3 DEF NextOverload
    <3>2. now = stmt  BY <1>2, <3>1, AtStatement DEF now
    <3>3. Meaning(now, top.f, top.s)  BY <1>3, <3>2
    <3> QED  BY <3>3 DEF now
  <2>4. CASE SameLength
    <3>1. funcs' = SetStatement([stmt EXCEPT !.args = m.args])
      BY <1>11, <2>4 DEF NextOverload
    <3>2. /\ funcs[candidate].params \in Seq(Types \cup {Untyped}) /\ candidate \in Named(stmt.fn)
          /\ Len(funcs[candidate].params) = Len(stmt.args)
      BY <2>1, <2>4, CandidateFacts DEF SameLength, Named
    <3>3. [stmt EXCEPT !.args = m.args] \in Statement /\ m.args \in Seq(Arg) /\ Len(m.args) = Len(callArgs)
      BY <1>2, <3>2, MatchKept DEF KeepsArgs
    <3>4. now = [stmt EXCEPT !.args = m.args]  BY <1>2, <3>1, <3>3, Set DEF now
    <3>5. now.args = m.args  BY <1>2, <3>3, <3>4, AtStatement, StatementWithArgs
    <3>6. \A k \in DOMAIN w : m.args[k] = callArgs[k] \/ m.args[k] = Coerced(w[k], funcs[candidate].params[k])
      BY <1>2, <1>5, <2>1, <2>2, <2>4, <3>2, LooseMatch
    <3>7. Clear  BY PlainClear
    <3>8. /\ DOMAIN callArgs = DOMAIN w /\ Len(w) = Len(stmt.args) /\ Len(w) = Len(callArgs)
          /\ \A k \in DOMAIN w : w[k] \in Arg /\ w[k].t \in Types /\ ~ w[k].cast
      BY <1>2, <1>5, <2>1, <3>7, AtStatement, LooseWords, WordsFacts
    <3>9. DOMAIN m.args = DOMAIN callArgs  BY DEF Match, Outcome
    <3>10. \A k \in DOMAIN w : funcs[candidate].params[k] \in Types
      BY <1>2, <1>5, <2>1, <2>2, <3>2, LooseAttempts
    <3> HIDE DEF m, w
    <3>11. LooseArgs(callArgs, top.f, top.s)  BY <1>5, <2>1
    <3>12. ASSUME NEW k \in DOMAIN w
           PROVE  /\ ~ m.args[k].cast
                  /\ m.args[k].lit =>
                       \/ m.args[k] = w[k]
                       \/ \E g \in Named(stmt.fn) : /\ Len(funcs[g].params) = Len(m.args)
                                                    /\ m.args[k] = Coerced(w[k], funcs[g].params[k])
      <4>1. CASE m.args[k] = callArgs[k]
        BY <1>2, <3>3, <3>8, <3>11, <4>1, AtStatement DEF LooseArgs, w
      <4>2. CASE m.args[k] = Coerced(w[k], funcs[candidate].params[k])
        <5>1. ~ m.args[k].cast  BY <3>8, <3>10, <4>2, CoerceFacts
        <5> QED  BY <3>2, <3>3, <3>8, <4>2, <5>1
      <4> QED  BY <3>6, <4>1, <4>2
    <3>13. LooseArgs(m.args, top.f, top.s)
      BY <1>2, <3>8, <3>9, <3>12, AtStatement DEF LooseArgs, w
    <3>14. Meaning(now, top.f, top.s)  BY <2>1, <2>2, <3>5, <3>13 DEF Meaning
    <3> QED  BY <3>14 DEF now
  <2> QED  BY <2>3, <2>4
<1>12. CASE CallFails
  <2>1. PICK st : Wrote(st) /\ st.args = callArgs /\ stmt.t = NoType /\ st.t = NoType
    BY <1>12, CallFailsFacts
  <2>2. now = st  BY <1>4, <2>1
  <2>3. Meaning(now, top.f, top.s)  BY <1>5, <2>1, <2>2 DEF Meaning
  <2> QED  BY <2>3 DEF now
<1> QED  BY <1>7, <1>8, <1>9, <1>10, <1>11, <1>12 DEF Writes

(* A step under which a program is plain writes at most the statement that *)
(* is being visited.                                                       *)
LEMMA StepBodies ==
  ASSUME TypeInv, FileInv, PlainStep, NEW i \in DOMAIN funcs, NEW s \in DOMAIN funcs[i].body
  PROVE  \/ (funcs')[i].body[s] = funcs[i].body[s]
         \/ Writes /\ InBody /\ i = top.f /\ s = top.s
<1>1. Clear /\ [Next]_vars  BY DEF PlainStep
<1>2. CASE Writes
  <2>1. PICK st : Wrote(st)  BY <1>2, WritesFacts
  <2>2. /\ \A j \in DOMAIN funcs : j # top.f => (funcs')[j] = funcs[j]
        /\ \A r \in DOMAIN fun.body : r # top.s => (funcs')[top.f].body[r] = fun.body[r]
        /\ fun = funcs[top.f]
    BY <2>1, WroteFacts
  <2>3. InBody  BY <2>1 DEF Wrote
  <2> QED  BY <1>2, <2>2, <2>3
<1>3. CASE FinishFunc
  <2>1. (funcs')[i].body = funcs[i].body  BY <1>3, FinishFuncFacts
  <2> QED  BY <2>1
<1>4. CASE Enters \/ EndWalk \/ UNCHANGED vars
  <2>1. funcs' = funcs  BY <1>4 DEF Enters, RegisterFunc, VisitFunc, EndWalk, vars
  <2> QED  BY <2>1
<1> QED  BY <1>1, <1>2, <1>3, <1>4, ClearSteps

LEMMA StepTarget ==
  ASSUME TypeInv, CallsInv, KnownInv, BestsInv, ListedInv, FileInv, TakenInv, AscendInv, TargetInv, [Next]_vars
  PROVE  TargetInv'
<1> SUFFICES ASSUME Plain(Source)', NEW i \in DOMAIN funcs', NEW s \in DOMAIN (funcs')[i].body
             PROVE  Meaning(funcs[i].body[s], i, s)'
  BY DEF TargetInv
<1>1. PlainStep  BY PlainBefore
<1>2. i \in DOMAIN funcs /\ s \in DOMAIN funcs[i].body  BY <1>1, PlainKeeps DEF PlainStep
<1> DEFINE now == (funcs')[i].body[s]
<1>3. Meaning(now, i, s)
  <2>1. CASE (funcs')[i].body[s] = funcs[i].body[s]
    BY <1>1, <1>2, <2>1 DEF TargetInv, PlainStep
  <2>2. CASE Writes /\ i = top.f /\ s = top.s
    BY <1>1, <2>2, WrittenMeaning DEF PlainStep, CallsInv
  <2> QED  BY <1>1, <1>2, <2>1, <2>2, StepBodies
<1> QED  BY <1>1, <1>2, <1>3, MeaningStays

LEMMA TopTakers ==
  ASSUME TypeInv, PlainStep, top'.f = top.f, top'.s = top.s, top.f \in DOMAIN funcs,
         top.s \in DOMAIN funcs[top.f].body
  PROVE  Takers(top.f, top.s)' = Takers(top.f, top.s)
<1> DEFINE n == funcs[top.f].body[top.s].fn
<1>1. /\ (funcs')[top'.f].body[top'.s].fn = n
      /\ \A g \in DOMAIN funcs : (funcs')[g].params = funcs[g].params /\ (funcs')[g].name = funcs[g].name
      /\ DOMAIN funcs' = DOMAIN funcs /\ Source' = Source
  BY PlainKeeps DEF PlainStep
<1>2. Words(top.f, top.s)' = Words(top.f, top.s)  BY <1>1 DEF Words
<1>3. Named(funcs[top.f].body[top.s].fn)' = Named(n)  BY <1>1 DEF Named
<1>4. Takers(top.f, top.s)' = {g \in Named(funcs[top.f].body[top.s].fn)' :
                                  Accepts((funcs')[g].params, Words(top.f, top.s)')}
  BY DEF Takers
<1>5. \A g \in Named(n) : (funcs')[g].params = funcs[g].params  BY <1>1 DEF Named
<1> QED  BY <1>2, <1>3, <1>4, <1>5 DEF Takers

LEMMA NextRefused ==
  ASSUME TypeInv, TargetInv, Plain(Source), NextOverload
  PROVE  overloads[stmt.fn][top.tried + 1] \notin Takers(top.f, top.s)
<1>1. PICK st : /\ Wrote(st) /\ st.fn # NoFunc /\ stmt.t = NoType /\ Comparing
                /\ SameLength => ~ Match(funcs[candidate].params, callArgs).ok
  BY NextOverloadFacts
<1>2. InBody /\ stmt.fn # NoFunc  BY <1>1 DEF Wrote
<1>3. LooseArgs(stmt.args, top.f, top.s)
  <2>1. Meaning(stmt, top.f, top.s)  BY <1>2, AtStatement DEF TargetInv
  <2> QED  BY <1>1, <2>1 DEF Meaning
<1>4. candidate = overloads[stmt.fn][top.tried + 1]
  <2>1. top.tried \in Nat  BY <1>2, AtStatement, StackFacts DEF TypeInv
  <2>2. top.tried < Len(Candidates)  BY <1>1 DEF Comparing
  <2>3. stmt.fn \in bases  BY <2>1, <2>2 DEF Candidates
  <2> QED  BY <2>3 DEF candidate, Candidates
<1>5. candidate \in Named(stmt.fn)  BY <1>1, CandidateFacts DEF Named
<1>6. CASE SameLength  BY <1>1, <1>2, <1>3, <1>4, <1>5, <1>6, LooseMatch DEF SameLength
<1>7. CASE ~ SameLength
  <2>1. Len(Words(top.f, top.s)) = Len(stmt.args)  BY <1>2, AtStatement, PlainClear, WordsFacts
  <2> QED  BY <1>4, <1>7, <2>1 DEF SameLength, Takers, Accepts
<1> QED  BY <1>6, <1>7

LEMMA StepTaken ==
  ASSUME TypeInv, CallsInv, FileInv, TargetInv, TakenInv, [Next]_vars
  PROVE  TakenInv'
<1> SUFFICES ASSUME Plain(Source)', Visiting', top'.tried > 0, NEW k \in 1 .. top'.tried
             PROVE  (overloads')[stmt'.fn][k] \notin Takers(top.f, top.s)'
  BY DEF TakenInv
<1>1. PlainStep /\ Clear /\ Plain(Source)  BY PlainBefore DEF PlainStep
<1>2. CASE NextOverload
  <2>1. /\ Visiting /\ top'.f = top.f /\ top'.s = top.s /\ top'.tried = top.tried + 1 /\ overloads' = overloads
    BY <1>1, <1>2, WritesMove DEF Writes, tables
  <2>2. InBody  BY <1>2, NextOverloadFacts DEF Wrote
  <2>3. top.f \in DOMAIN funcs /\ top.s \in DOMAIN funcs[top.f].body /\ stmt = funcs[top.f].body[top.s]
    BY <2>2, AtStatement
  <2>4. stmt' = (funcs')[top.f].body[top.s]  BY <2>1 DEF stmt, fun
  <2>5. stmt'.fn = stmt.fn  BY <1>1, <2>3, <2>4, PlainKeeps
  <2>6. Takers(top.f, top.s)' = Takers(top.f, top.s)  BY <1>1, <2>1, <2>3, TopTakers
  <2>7. top.tried \in Nat  BY <2>1, StackFacts DEF TypeInv
  <2>8. k = top.tried + 1 \/ (top.tried > 0 /\ k \in 1 .. top.tried)  BY <2>1, <2>7
  <2>9. overloads[stmt.fn][k] \notin Takers(top.f, top.s)
    BY <1>1, <1>2, <2>1, <2>8, NextRefused DEF TakenInv
  <2> QED  BY <2>1, <2>5, <2>6, <2>9
<1>3. CASE Writes /\ ~ NextOverload  BY <1>1, <1>3, WritesMove
<1>4. CASE Enters
  <2>1. stack' = <<Frame(order[next], FALSE)>>  BY <1>4 DEF Enters, RegisterFunc, VisitFunc, Enter
  <2>2. top' = Frame(order[next], FALSE)  BY <2>1 DEF top, Last
  <2> QED  BY <2>2 DEF Frame
<1>5. CASE FinishFunc  BY <1>5 DEF FinishFunc, Visiting
<1>6. CASE EndWalk
  <2>1. ~ Visiting /\ stack' = stack  BY <1>6 DEF EndWalk, AtEnd
  <2> QED  BY <2>1 DEF Visiting
<1>7. CASE UNCHANGED vars
  <2>1. /\ stack' = stack /\ overloads' = overloads /\ funcs' = funcs  BY <1>7 DEF vars, tables
  <2>2. top' = top /\ Visiting  BY <2>1 DEF top, Visiting
  <2>3. stmt' = stmt  BY <2>1, <2>2 DEF stmt, fun
  <2>4. Takers(top.f, top.s)' = Takers(top.f, top.s)
    <3>1. top.f \in DOMAIN funcs /\ top.s \in DOMAIN funcs[top.f].body
      <4>1. Len(stack) \in DOMAIN stack /\ top = stack[Len(stack)] /\ top.f \in DOMAIN funcs
        BY <2>2, StackFacts DEF TypeInv
      <4>2. top.s <= Len(funcs[top.f].body) /\ top.s \in Nat \ {0}
        BY <2>2, <4>1, StackFacts DEF TypeInv, StackInv
      <4>3. DOMAIN funcs[top.f].body = 1 .. Len(funcs[top.f].body) /\ Len(funcs[top.f].body) \in Nat
        BY <4>1, FuncsFacts, FunctionFields DEF TypeInv
      <4> QED  BY <4>1, <4>2, <4>3
    <3> QED  BY <1>1, <2>2, <3>1, TopTakers
  <2>5. overloads[stmt.fn][k] \notin Takers(top.f, top.s)  BY <1>1, <2>2 DEF TakenInv
  <2> QED  BY <2>1, <2>3, <2>4, <2>5
<1> QED  BY <1>1, <1>2, <1>3, <1>4, <1>5, <1>6, <1>7, ClearSteps DEF PlainStep

LEMMA StepAscend ==
  ASSUME TypeInv, CallsInv, KnownInv, FileInv, AscendInv, [Next]_vars
  PROVE  AscendInv'
<1> SUFFICES ASSUME Plain(Source)', NEW n \in Names, Together(n)',
                    NEW j \in DOMAIN (overloads')[n], NEW k \in DOMAIN (overloads')[n], j < k
             PROVE  (overloads')[n][j] < (overloads')[n][k]
  BY DEF AscendInv
<1>1. PlainStep /\ Clear /\ Plain(Source) /\ Together(n)
  BY PlainBefore, PlainKeeps DEF PlainStep
<1>2. CASE (overloads')[n] = overloads[n]  BY <1>1, <1>2 DEF AscendInv
<1>3. CASE FinishFunc /\ (overloads')[n] # overloads[n]
  <2> DEFINE g == Resolved(fun, pass = "register")
  <2>1. /\ Visiting /\ top.f \in DOMAIN funcs /\ fun = funcs[top.f] /\ top.f = order[next]
        /\ next \in DOMAIN order /\ fun \in Function /\ ResolveFuncType(fun, g)
        /\ ~ fun.typed /\ g.typed => pass # "register"
    BY <1>3, FinishFuncFacts
  <2>2. top.f = next  BY <1>1, <2>1 DEF FileInv
  <2>3. overloads \in [Names -> Seq(DOMAIN funcs)] /\ fun.name \in Names
    BY <2>1, FunctionFields DEF TypeInv, TablesInv
  <2> HIDE DEF g
  <2>4. g.typed /\ ~ fun.typed /\ overloads' = [overloads EXCEPT ![fun.name] = Append(@, top.f)]
    BY <1>3, <2>1 DEF ResolveFuncType, Declare
  <2>5. fun.name = n  BY <1>3, <2>3, <2>4
  <2>6. (overloads')[n] = Append(overloads[n], top.f) /\ overloads[n] \in Seq(DOMAIN funcs)  BY <2>3, <2>4, <2>5
  <2>7. top.f \in Named(n) /\ Met(top.f)  BY <1>1, <2>1, <2>5 DEF Named, KnownInv
  <2>8. pass = "resolve" /\ sub = 0
    <3>1. pass \in Walks /\ sub \in 0 .. PassLimit  BY <2>1, StackFacts DEF TypeInv, WalkInv
    <3>2. ~ ((pass = "resolve" /\ sub > 0) \/ pass = "check")  BY <2>1, <2>4, <2>7 DEF Met
    <3> QED  BY <2>1, <2>4, <3>1, <3>2, FuncDeclsAssumption DEF Walks
  <2>9. ASSUME NEW m \in DOMAIN overloads[n]  PROVE overloads[n][m] < top.f
    <3>1. funcs[overloads[n][m]].typed /\ overloads[n][m] \in Named(n)
      BY <2>6 DEF TypeInv, TablesInv, Named
    <3>2. Met(overloads[n][m])  BY <1>1, <3>1 DEF KnownInv
    <3> QED  BY <2>2, <2>8, <3>1, <3>2 DEF Met
  <2>10. /\ Len(overloads[n]) \in Nat /\ DOMAIN overloads[n] = 1 .. Len(overloads[n])
         /\ DOMAIN (overloads')[n] = 1 .. Len(overloads[n]) + 1
         /\ (overloads')[n][Len(overloads[n]) + 1] = top.f
         /\ \A m \in DOMAIN overloads[n] : (overloads')[n][m] = overloads[n][m]
    BY <2>1, <2>6, SeqAppend
  <2>11. j \in DOMAIN overloads[n]  BY <2>10
  <2>12. CASE k = Len(overloads[n]) + 1  BY <2>9, <2>10, <2>11, <2>12
  <2>13. CASE k \in DOMAIN overloads[n]  BY <1>1, <2>10, <2>11, <2>13 DEF AscendInv
  <2> QED  BY <2>10, <2>12, <2>13
<1>4. CASE Writes  BY <1>1, <1>2, <1>4, WritesMove DEF tables
<1>5. CASE Enters \/ EndWalk \/ UNCHANGED vars
  <2>1. overloads' = overloads  BY <1>5 DEF Enters, RegisterFunc, VisitFunc, EndWalk, vars, tables
  <2> QED  BY <1>2, <2>1
<1> QED  BY <1>1, <1>2, <1>3, <1>4, <1>5, ClearSteps DEF PlainStep

(* The type of a statement, once it has one, is what the program says.     *)
SaysInv ==
  Plain(Source) => \A i \in DOMAIN funcs : \A s \in DOMAIN funcs[i].body :
    LET st == funcs[i].body[s] IN
    st.t # NoType =>
      IF st.fn = NoFunc THEN st.t = ValueOf(Words(i, s))
      ELSE /\ T(i, s) # 0 /\ T(i, s) \in DOMAIN funcs
           /\ funcs[T(i, s)].typed /\ st.t = funcs[T(i, s)].result

LEMMA ProgramSays == TypeInv /\ CallInv /\ ValueInv /\ TargetInv => SaysInv
<1> SUFFICES ASSUME TypeInv, CallInv, ValueInv, TargetInv, Plain(Source),
                    NEW i \in DOMAIN funcs, NEW s \in DOMAIN funcs[i].body, funcs[i].body[s].t # NoType
             PROVE  LET st == funcs[i].body[s] IN
                    IF st.fn = NoFunc THEN st.t = ValueOf(Words(i, s))
                    ELSE /\ T(i, s) # 0 /\ T(i, s) \in DOMAIN funcs
                         /\ funcs[T(i, s)].typed /\ st.t = funcs[T(i, s)].result
  BY DEF SaysInv
<1> DEFINE st == funcs[i].body[s]
           w == Words(i, s)
<1>1. Clear  BY PlainClear
<1>2. Meaning(st, i, s)  BY DEF TargetInv
<1>3. CASE st.fn = NoFunc
  <2>1. ArgsTyped(st, funcs[i]) /\ st.t = ValueOf(st.args)  BY <1>3 DEF ValueInv
  <2>2. LooseArgs(st.args, i, s)  BY <1>2, <1>3 DEF Meaning
  <2>3. /\ TypedArgs(w) /\ DOMAIN w = DOMAIN st.args /\ DOMAIN w = 1 .. Len(w) /\ Len(w) \in Nat
        /\ Len(w) = Len(st.args)
        /\ \A k \in DOMAIN w : w[k] = Word(funcs[i], st.args[k])
    BY <1>1, WordsFacts
  <2>4. st.args \in Seq(Arg)
    BY FuncsFacts, FunctionFields, StatementFields DEF TypeInv
  <2>5. Named(st.fn) = {}  BY <1>3, NamedFacts
  <2>6. ASSUME NEW k \in DOMAIN w  PROVE w[k].t = st.args[k].t
    <3>1. ~ st.args[k].cast /\ (st.args[k].lit => st.args[k] = w[k])  BY <2>2, <2>3, <2>5 DEF LooseArgs
    <3>2. CASE ~ st.args[k].lit
      <4>1. st.args[k].t = funcs[i].params[st.args[k].v]  BY <2>1, <2>3, <3>1, <3>2 DEF ArgsTyped
      <4>2. w[k] = Word(funcs[i], st.args[k])  BY <2>3
      <4>3. w[k].t = funcs[i].params[st.args[k].v]  BY <3>2, <4>2 DEF Word, Original
      <4> QED  BY <4>1, <4>3
    <3> QED  BY <3>1, <3>2
  <2>7. w \in Seq(Arg)  BY <2>3 DEF TypedArgs
  <2> HIDE DEF w, st
  <2>8. CASE w = <<>>
    <3>1. st.args = <<>>  BY <2>3, <2>4, <2>8
    <3> QED  BY <1>3, <2>1, <2>8, <3>1 DEF ValueOf, st, w
  <2>9. CASE w # <<>>
    <3>1. st.args # <<>> /\ 1 \in DOMAIN w  BY <2>3, <2>4, <2>7, <2>9
    <3>2. ValueOf(st.args) = ValueOf(w)  BY <2>6, <2>9, <3>1 DEF ValueOf
    <3> QED  BY <1>3, <2>1, <3>2 DEF st, w
  <2> QED  BY <2>8, <2>9
<1>4. CASE st.fn # NoFunc
  <2>1. Aimed(st, i, s)  BY <1>2, <1>4 DEF Meaning
  <2>2. Agrees(st, funcs, Placed)  BY <1>4 DEF CallInv
  <2> QED  BY <1>4, <2>1, <2>2 DEF Aimed, Agrees
<1> QED  BY <1>3, <1>4

LEMMA SourceTypesStay ==
  ASSUME TypeInv, FileInv, PlainStep, SaysInv, SaysInv', Plain(Source)',
         NEW i \in DOMAIN funcs, NEW s \in DOMAIN funcs[i].body, funcs[i].body[s].t # NoType
  PROVE  (funcs')[i].body[s].t = funcs[i].body[s].t
<1>1. CASE (funcs')[i].body[s] = funcs[i].body[s]  BY <1>1
<1>2. CASE Writes /\ InBody /\ i = top.f /\ s = top.s
  <2>1. PICK st : Wrote(st)  BY <1>2, WritesFacts
  <2>2. /\ (funcs')[i].body[s] = st /\ fun = funcs[i] /\ stmt = fun.body[s]
        /\ \A j \in DOMAIN funcs : SameHead(funcs[j], (funcs')[j])
    BY <1>2, <2>1, WroteFacts
  <2>3. st.t # NoType /\ st.fn = stmt.fn  BY <2>1, <2>2 DEF Wrote
  <2>4. Words(i, s)' = Words(i, s) /\ T(i, s)' = T(i, s) /\ DOMAIN funcs' = DOMAIN funcs
        /\ DOMAIN (funcs')[i].body = DOMAIN funcs[i].body
    BY PlainKeeps DEF PlainStep
  <2>5. Plain(Source)  BY DEF PlainStep
  <2>6. IF st.fn = NoFunc THEN st.t = ValueOf(Words(i, s)')
        ELSE T(i, s)' \in DOMAIN funcs' /\ st.t = (funcs')[T(i, s)'].result
    BY <2>2, <2>3, <2>4 DEF SaysInv
  <2>7. IF stmt.fn = NoFunc THEN stmt.t = ValueOf(Words(i, s))
        ELSE T(i, s) \in DOMAIN funcs /\ stmt.t = funcs[T(i, s)].result
    BY <2>2, <2>5 DEF SaysInv
  <2> QED  BY <2>2, <2>3, <2>4, <2>6, <2>7 DEF SameHead
<1> QED  BY <1>1, <1>2, StepBodies

(* A deduced result is the type of a statement that returns it.            *)
FoundInv ==
  Plain(Source) => \A i \in DOMAIN funcs : funcs[i].typed =>
    IF funcs[i].ret # NoType THEN funcs[i].result = funcs[i].ret
    ELSE IF Returns(funcs[i]) = {} THEN funcs[i].result = "void"
    ELSE \E s \in Known(funcs[i]) : funcs[i].body[s].t = funcs[i].result

LEMMA ResultFound ==
  ASSUME TypeInv, NEW i \in DOMAIN funcs, ResultType(funcs[i]) # NoType
  PROVE  IF funcs[i].ret # NoType THEN ResultType(funcs[i]) = funcs[i].ret
         ELSE IF Returns(funcs[i]) = {} THEN ResultType(funcs[i]) = "void"
         ELSE \E s \in Known(funcs[i]) : funcs[i].body[s].t = ResultType(funcs[i])
<1>1. funcs[i] \in Function  BY FuncsFacts DEF TypeInv
<1>2. CASE funcs[i].ret # NoType  BY <1>2 DEF ResultType
<1>3. CASE funcs[i].ret = NoType /\ Returns(funcs[i]) = {}  BY <1>3 DEF ResultType, Deduction
<1>4. CASE funcs[i].ret = NoType /\ Returns(funcs[i]) # {}
  <2>1. ResultType(funcs[i]) = Deduction(funcs[i])  BY <1>4 DEF ResultType
  <2>2. Known(funcs[i]) # {} /\ Deduction(funcs[i]) = funcs[i].body[Max(Known(funcs[i]))].t
    BY <1>1, <1>4, <2>1, DeductionFacts
  <2>3. Max(Known(funcs[i])) \in Known(funcs[i])  BY <1>1, <2>2, DeductionFacts
  <2> QED  BY <1>4, <2>1, <2>2, <2>3
<1> QED  BY <1>2, <1>3, <1>4

LEMMA StepFound ==
  ASSUME TypeInv, CallsInv, FileInv, FoundInv, SaysInv, SaysInv', [Next]_vars
  PROVE  FoundInv'
<1> SUFFICES ASSUME Plain(Source)', NEW i \in DOMAIN funcs', (funcs')[i].typed
             PROVE  IF (funcs')[i].ret # NoType THEN (funcs')[i].result = (funcs')[i].ret
                    ELSE IF Returns((funcs')[i]) = {} THEN (funcs')[i].result = "void"
                    ELSE \E s \in Known((funcs')[i]) : (funcs')[i].body[s].t = (funcs')[i].result
  BY DEF FoundInv
<1>1. PlainStep /\ Plain(Source) /\ WritingKept  BY PlainBefore DEF PlainStep
<1>2. i \in DOMAIN funcs /\ Typing(i)  BY StepTypings
<1>3. (funcs')[i].ret = funcs[i].ret /\ Returns((funcs')[i]) = Returns(funcs[i])
  BY <1>1, <1>2, PlainKeeps, ReturnsBefore
<1>4. CASE funcs[i].typed /\ (funcs')[i].result = funcs[i].result
  <2>1. IF funcs[i].ret # NoType THEN funcs[i].result = funcs[i].ret
        ELSE IF Returns(funcs[i]) = {} THEN funcs[i].result = "void"
        ELSE \E s \in Known(funcs[i]) : funcs[i].body[s].t = funcs[i].result
    BY <1>1, <1>2, <1>4 DEF FoundInv
  <2>2. ASSUME NEW s \in Known(funcs[i])
        PROVE  s \in Known((funcs')[i]) /\ (funcs')[i].body[s].t = funcs[i].body[s].t
    <3>1. s \in Returns(funcs[i]) /\ funcs[i].body[s].t # NoType /\ s \in DOMAIN funcs[i].body
      BY DEF Known, Returns
    <3>2. (funcs')[i].body[s].t = funcs[i].body[s].t  BY <1>1, <1>2, <3>1, SourceTypesStay
    <3> QED  BY <1>3, <3>1, <3>2 DEF Known
  <2> QED  BY <1>3, <1>4, <2>1, <2>2
<1>5. CASE (funcs')[i].body = funcs[i].body /\ (funcs')[i].result # NoType
           /\ (funcs')[i].result = ResultType(funcs[i])
  <2>1. Known((funcs')[i]) = Known(funcs[i])  BY <1>3, <1>5 DEF Known
  <2> QED  BY <1>2, <1>3, <1>5, <2>1, ResultFound
<1> QED  BY <1>2, <1>4, <1>5 DEF Typing

(* A function gets its type at the end of a visit, once it has a result.   *)
WalkStep == TypeInv /\ FileInv /\ PlainStep

LEMMA WalkCases ==
  ASSUME WalkStep
  PROVE  /\ Writes \/ Enters \/ FinishFunc \/ EndWalk \/ UNCHANGED vars
         /\ Len(order) = Len(funcs) /\ Len(funcs) \in Nat /\ DOMAIN order = DOMAIN funcs
         /\ DOMAIN funcs = 1 .. Len(funcs) /\ next \in Nat \ {0}
         /\ \A k \in DOMAIN funcs : order[k] = k
         /\ Writes => \A i \in DOMAIN funcs :
              /\ SameHead(funcs[i], (funcs')[i])
              /\ i # next => (funcs')[i] = funcs[i]
         /\ Enters \/ EndWalk \/ UNCHANGED vars => funcs' = funcs
         /\ Visiting => top.f = next /\ next \in DOMAIN funcs
<1>1. Writes \/ Enters \/ FinishFunc \/ EndWalk \/ UNCHANGED vars  BY ClearSteps DEF WalkStep, PlainStep
<1>2. /\ DOMAIN order = DOMAIN funcs /\ Len(stack) <= 1
      /\ \A k \in DOMAIN order : order[k] = k
  BY DEF WalkStep, FileInv, PlainStep
<1>3. /\ Len(funcs) \in Nat /\ DOMAIN funcs = 1 .. Len(funcs)
      /\ order \in Seq(DOMAIN funcs) /\ next \in Nat \ {0}
  BY NamedFacts DEF WalkStep, TypeInv, TablesInv, WalkInv
<1>4. Len(order) = Len(funcs)
  <2>1. DOMAIN order = 1 .. Len(order) /\ Len(order) \in Nat  BY <1>3
  <2> QED  BY <1>2, <1>3, <2>1
<1>5. ASSUME Visiting  PROVE top.f = next /\ next \in DOMAIN funcs
  <2>1. /\ top = stack[Len(stack)] /\ Len(stack) \in Nat \ {0} /\ next <= Len(order)
        /\ stack[1].f = order[next]
    BY <1>5, StackFacts DEF WalkStep, TypeInv
  <2>2. Len(stack) = 1
    <3> DEFINE n == Len(stack)
    <3>1. n \in Nat /\ n # 0 /\ n <= 1  BY <1>2, <2>1
    <3> HIDE DEF n
    <3>2. n = 1  BY <3>1
    <3> QED  BY <3>2 DEF n
  <2>3. next \in DOMAIN funcs
    <3>1. next \in Nat \ {0} /\ next <= Len(funcs) /\ Len(funcs) \in Nat  BY <1>3, <1>4, <2>1
    <3> QED  BY <1>3, <3>1
  <2> QED  BY <1>2, <2>1, <2>2, <2>3
<1>6. ASSUME Writes, NEW i \in DOMAIN funcs
      PROVE  SameHead(funcs[i], (funcs')[i]) /\ (i # next => (funcs')[i] = funcs[i])
  <2>1. PICK st : Wrote(st)  BY <1>6, WritesFacts DEF WalkStep
  <2>2. Visiting  BY <2>1 DEF Wrote, InBody
  <2> QED  BY <1>5, <1>6, <2>1, <2>2, WroteFacts DEF WalkStep
<1>7. Enters \/ EndWalk \/ UNCHANGED vars => funcs' = funcs
  BY DEF Enters, RegisterFunc, VisitFunc, EndWalk, vars
<1> QED  BY <1>1, <1>2, <1>3, <1>4, <1>5, <1>6, <1>7

LEMMA TypingStep ==
  ASSUME WalkStep, NEW i \in DOMAIN funcs, (funcs')[i].typed
  PROVE  \/ funcs[i].typed /\ (funcs')[i].result = funcs[i].result
         \/ /\ FinishFunc /\ Visiting /\ ~ funcs[i].typed /\ i = next /\ pass # "register"
            /\ ResultType(funcs[i]) # NoType /\ (funcs')[i].result = ResultType(funcs[i])
<1>1. CASE Writes  BY <1>1, WalkCases DEF SameHead
<1>2. CASE Enters \/ EndWalk \/ UNCHANGED vars  BY <1>2, WalkCases
<1>3. CASE FinishFunc
  <2> DEFINE g == Resolved(fun, pass = "register")
  <2>1. g = Resolved(fun, pass = "register")  OBVIOUS
  <2> HIDE DEF g
  <2>2. /\ Visiting /\ fun = funcs[top.f] /\ GoodFunction(g)
        /\ fun.typed => g.typed /\ g.result = fun.result
        /\ ~ fun.typed /\ g.typed => pass # "register" /\ g.result = ResultType(fun)
        /\ (funcs')[top.f] = g /\ \A j \in DOMAIN funcs : j # top.f => (funcs')[j] = funcs[j]
    BY <1>3, <2>1, FinishFuncFacts DEF WalkStep
  <2>3. top.f = next  BY <2>2, WalkCases
  <2>4. CASE i = next  BY <1>3, <2>2, <2>3, <2>4 DEF GoodFunction
  <2>5. CASE i # next  BY <2>2, <2>3, <2>5
  <2> QED  BY <2>4, <2>5
<1> QED  BY <1>1, <1>2, <1>3, WalkCases

(* The name of a function has its base symbol from its first visit on.     *)
Registered(i) == pass # "register" \/ sub > 0 \/ i < next \/ (i = next /\ Visiting)

BasesInv ==
  Plain(Source) => \A i \in DOMAIN funcs :
    funcs[i].typed \/ Registered(i) => funcs[i].name \in bases

LEMMA StepBases ==
  ASSUME TypeInv, CallsInv, FileInv, BasesInv, [Next]_vars
  PROVE  BasesInv'
<1> SUFFICES ASSUME Plain(Source)', NEW i \in DOMAIN funcs', (funcs')[i].typed \/ Registered(i)'
             PROVE  (funcs')[i].name \in bases'
  BY DEF BasesInv
<1>1. PlainStep /\ Plain(Source) /\ DOMAIN funcs' = DOMAIN funcs  BY PlainBefore DEF PlainStep
<1>2. WalkStep  BY <1>1 DEF WalkStep
<1>3. (funcs')[i].name = funcs[i].name  BY <1>1, PlainKeeps
<1>4. /\ Len(order) = Len(funcs) /\ Len(funcs) \in Nat /\ DOMAIN funcs = 1 .. Len(funcs)
      /\ next \in Nat \ {0} /\ \A k \in DOMAIN funcs : order[k] = k
  BY <1>2, WalkCases
<1>5. bases \subseteq bases' /\ (Writes \/ FinishFunc \/ EndWalk \/ UNCHANGED vars => bases' = bases)
  <2>1. Writes => bases' = bases  BY <1>1, WritesMove DEF PlainStep, tables
  <2>2. Enters => bases \subseteq bases'  BY DEF Enters, RegisterFunc, VisitFunc, tables
  <2>3. FinishFunc \/ EndWalk \/ UNCHANGED vars => bases' = bases
    BY DEF FinishFunc, EndWalk, vars, tables
  <2> QED  BY <1>2, <2>1, <2>2, <2>3, WalkCases
<1>6. CASE funcs[i].typed \/ Registered(i)  BY <1>1, <1>3, <1>5, <1>6 DEF BasesInv
<1>7. CASE (funcs')[i].typed /\ ~ funcs[i].typed
  <2>1. Registered(i)  BY <1>1, <1>2, <1>7, TypingStep DEF Registered
  <2> QED  BY <1>6, <2>1
<1>8. CASE Registered(i)' /\ ~ Registered(i)
  <2>1. CASE Writes
    <3>1. UNCHANGED <<pass, sub, next>> /\ Visiting  BY <1>1, <2>1, WritesMove DEF PlainStep
    <3> QED  BY <1>8, <3>1 DEF Registered
  <2>2. CASE Enters
    <3>1. UNCHANGED <<pass, sub, next>> /\ AtChild  BY <2>2 DEF Enters, RegisterFunc, VisitFunc, walk
    <3>2. i = next /\ pass = "register"  BY <1>8, <3>1 DEF Registered
    <3>3. RegisterFunc  BY <2>2, <3>2 DEF Enters, VisitFunc
    <3>4. child = funcs[i]  BY <1>1, <1>4, <3>2 DEF child
    <3> QED  BY <1>3, <3>3, <3>4 DEF RegisterFunc
  <2>3. CASE FinishFunc
    <3>1. UNCHANGED <<pass, sub>> /\ Visiting /\ next' = next + 1 /\ stack' = <<>>
      BY <2>3 DEF FinishFunc, BodyDone
    <3>2. i < next + 1 \/ (i = next + 1 /\ Visiting')  BY <1>8, <3>1 DEF Registered
    <3>3. ~ Visiting'  BY <3>1 DEF Visiting
    <3>4. i < next \/ i = next  BY <1>1, <1>4, <3>2, <3>3
    <3> QED  BY <1>8, <3>1, <3>4 DEF Registered
  <2>4. CASE EndWalk
    <3>1. next > Len(order)  BY <2>4 DEF EndWalk, AtEnd
    <3>2. i < next  BY <1>1, <1>4, <3>1
    <3> QED  BY <1>8, <3>2 DEF Registered
  <2>5. CASE UNCHANGED vars
    <3>1. UNCHANGED <<pass, sub, next, stack>>  BY <2>5 DEF vars, walk
    <3> QED  BY <1>8, <3>1 DEF Registered, Visiting
  <2> QED  BY <1>2, <2>1, <2>2, <2>3, <2>4, <2>5, WalkCases
<1> QED  BY <1>6, <1>7, <1>8

(* Where results come from: among any functions that have their type there *)
(* is one that is declared with it, or returns a value, or a call of a     *)
(* function outside of them that has its own.                              *)
TypedFuncs == {i \in DOMAIN funcs : funcs[i].typed}

Based(i) ==
  \/ funcs[i].ret # NoType \/ Returns(funcs[i]) = {}
  \/ \E s \in Returns(funcs[i]) : funcs[i].body[s].fn = NoFunc

LeadsOut(i, X) ==
  \E s \in Returns(funcs[i]) :
    funcs[i].body[s].fn # NoFunc /\ T(i, s) \in TypedFuncs /\ T(i, s) \notin X

GroundInv ==
  Plain(Source) => \A X \in SUBSET TypedFuncs :
    X # {} => \E i \in X : Based(i) \/ LeadsOut(i, X)

LEMMA BasedStays ==
  ASSUME WalkStep, NEW i \in DOMAIN funcs
  PROVE  /\ Based(i)' <=> Based(i)
         /\ Returns((funcs')[i]) = Returns(funcs[i])
         /\ \A s \in Returns(funcs[i]) : (funcs')[i].body[s].fn = funcs[i].body[s].fn /\ T(i, s)' = T(i, s)
<1>1. /\ (funcs')[i].ret = funcs[i].ret /\ Returns((funcs')[i]) = Returns(funcs[i])
      /\ \A s \in Returns(funcs[i]) : (funcs')[i].body[s].fn = funcs[i].body[s].fn
  BY PlainKeeps, ReturnsBefore DEF WalkStep, PlainStep, Returns
<1>2. \A s : T(i, s)' = T(i, s)  BY PlainKeeps DEF WalkStep
<1>3. Based(i)' <=> Based(i)  BY <1>1 DEF Based
<1> QED  BY <1>1, <1>2, <1>3

LEMMA StepGround ==
  ASSUME TypeInv, CallsInv, FileInv, SaysInv, GroundInv, [Next]_vars
  PROVE  GroundInv'
<1> SUFFICES ASSUME Plain(Source)', NEW X \in SUBSET TypedFuncs', X # {}
             PROVE  \E i \in X : (Based(i) \/ LeadsOut(i, X))'
  BY DEF GroundInv
<1>1. PlainStep /\ Plain(Source) /\ DOMAIN funcs' = DOMAIN funcs /\ WritingKept
  BY PlainBefore DEF PlainStep
<1>2. WalkStep  BY <1>1 DEF WalkStep
<1>3. X \subseteq DOMAIN funcs /\ \A i \in X : (funcs')[i].typed  BY <1>1 DEF TypedFuncs
<1>4. TypedFuncs \subseteq TypedFuncs'  BY <1>1 DEF TypedFuncs, WritingKept, HeadsKept
<1> DEFINE Y == X \cap TypedFuncs
<1>5. ASSUME Y # {}
      PROVE  \E i \in Y : Based(i) \/ LeadsOut(i, Y)
  BY <1>1, <1>5 DEF GroundInv
<1>6. ASSUME NEW i \in Y, Based(i) \/ LeadsOut(i, Y)
      PROVE  (Based(i) \/ LeadsOut(i, X))'
  <2>1. i \in DOMAIN funcs  BY <1>3
  <2>2. CASE Based(i)  BY <1>2, <2>1, <2>2, BasedStays
  <2>3. CASE LeadsOut(i, Y)
    <3>1. PICK s \in Returns(funcs[i]) :
                 funcs[i].body[s].fn # NoFunc /\ T(i, s) \in TypedFuncs /\ T(i, s) \notin Y
      BY <2>3 DEF LeadsOut
    <3>2. T(i, s) \in TypedFuncs' /\ T(i, s) \notin X  BY <1>4, <3>1
    <3>3. \E r \in Returns((funcs')[i]) :
            (funcs')[i].body[r].fn # NoFunc /\ T(i, r)' \in TypedFuncs' /\ T(i, r)' \notin X
      BY <1>2, <2>1, <3>1, <3>2, BasedStays
    <3> QED  BY <3>3 DEF LeadsOut
  <2> QED  BY <1>6, <2>2, <2>3
<1>7. CASE Y # {}
  <2>1. PICK i \in Y : Based(i) \/ LeadsOut(i, Y)  BY <1>5, <1>7
  <2>2. i \in X  OBVIOUS
  <2> HIDE DEF Y
  <2> QED  BY <1>6, <2>1, <2>2
<1>8. CASE Y = {}
  <2>1. PICK i \in X : TRUE  OBVIOUS
  <2>2. i \in DOMAIN funcs /\ (funcs')[i].typed /\ ~ funcs[i].typed
    BY <1>3, <1>8, <2>1 DEF TypedFuncs
  <2>3. FinishFunc /\ i = next /\ ResultType(funcs[i]) # NoType  BY <1>2, <2>2, TypingStep
  <2>4. CASE funcs[i].ret # NoType \/ Returns(funcs[i]) = {}
    <3>1. Based(i)  BY <2>4 DEF Based
    <3> QED  BY <1>2, <2>1, <2>2, <3>1, BasedStays
  <2>5. CASE funcs[i].ret = NoType /\ Returns(funcs[i]) # {}
    <3>1. PICK s \in Known(funcs[i]) : TRUE  BY <2>2, <2>3, <2>5, ResultFound
    <3>2. s \in Returns(funcs[i]) /\ s \in DOMAIN funcs[i].body /\ funcs[i].body[s].t # NoType
      BY <3>1 DEF Known, Returns
    <3>3. CASE funcs[i].body[s].fn = NoFunc
      <4>1. Based(i)  BY <3>2, <3>3 DEF Based
      <4> QED  BY <1>2, <2>1, <2>2, <4>1, BasedStays
    <3>4. CASE funcs[i].body[s].fn # NoFunc
      <4>1. T(i, s) \in TypedFuncs
        BY <1>1, <2>2, <3>2, <3>4 DEF SaysInv, TypedFuncs
      <4>2. T(i, s) \notin X  BY <1>8, <4>1
      <4>3. T(i, s) \in TypedFuncs'  BY <1>4, <4>1
      <4>4. \E r \in Returns((funcs')[i]) :
              (funcs')[i].body[r].fn # NoFunc /\ T(i, r)' \in TypedFuncs' /\ T(i, r)' \notin X
        BY <1>2, <2>2, <3>2, <3>4, <4>2, <4>3, BasedStays
      <4>5. LeadsOut(i, X)'  BY <4>4 DEF LeadsOut
      <4> QED  BY <2>1, <4>5
    <3> QED  BY <3>3, <3>4
  <2> QED  BY <2>4, <2>5
<1> QED  BY <1>7, <1>8

(* What the last walk has behind it when nothing is reported.              *)
DoneInv ==
  Plain(Source) /\ pass \in {"check", "accepted"} /\ errors = {} =>
    \A i \in DOMAIN funcs : i < next \/ pass = "accepted" => funcs[i].typed /\ ~ BadResult(funcs[i])

LEMMA SameResult ==
  ASSUME NEW f, NEW g, g.ret = f.ret, g.body = f.body
  PROVE  /\ BadResult(g) <=> BadResult(f)
         /\ ResultType(g) = ResultType(f)
<1>1. Returns(g) = Returns(f) /\ Known(g) = Known(f)  BY DEF Returns, Known
<1>2. GoTogether(g) <=> GoTogether(f)  BY <1>1 DEF GoTogether
<1>3. Deduction(g) = Deduction(f)  BY <1>1, <1>2 DEF Deduction
<1> QED  BY <1>1, <1>2, <1>3 DEF BadResult, ResultType

LEMMA StepDone ==
  ASSUME TypeInv, CallsInv, FileInv, DoneInv, [Next]_vars
  PROVE  DoneInv'
<1> SUFFICES ASSUME Plain(Source)', pass' \in {"check", "accepted"}, errors' = {},
                    NEW i \in DOMAIN funcs', i < next' \/ pass' = "accepted"
             PROVE  (funcs')[i].typed /\ ~ BadResult((funcs')[i])
  BY DEF DoneInv
<1>1. PlainStep /\ Plain(Source) /\ DOMAIN funcs' = DOMAIN funcs /\ WritingKept
  BY PlainBefore DEF PlainStep
<1>2. WalkStep  BY <1>1 DEF WalkStep
<1>3. /\ Len(order) = Len(funcs) /\ Len(funcs) \in Nat /\ DOMAIN funcs = 1 .. Len(funcs)
      /\ next \in Nat \ {0}
  BY <1>2, WalkCases
<1>4. errors = {} /\ pass \in {"check", "accepted"} /\ (i < next \/ pass = "accepted") =>
        funcs[i].typed /\ ~ BadResult(funcs[i])
  BY <1>1 DEF DoneInv
<1>5. CASE Writes
  <2>1. Visiting /\ pass' = pass /\ next' = next  BY <1>1, <1>5, WritesMove DEF PlainStep
  <2>2. pass \in Walks  BY <2>1, StackFacts DEF TypeInv
  <2>3. pass = "check" /\ i < next  BY <2>1, <2>2 DEF Walks
  <2>4. errors \subseteq errors'
    <3>1. CASE CallFails  BY <2>1, <3>1, FailFacts DEF CallFails
    <3>2. CASE ~ CallFails
      BY <1>5, <3>2 DEF Writes, ReturnValue, CallExact, CallKept, CallOverload, NextOverload
    <3> QED  BY <3>1, <3>2
  <2>5. (funcs')[i] = funcs[i]  BY <1>1, <1>2, <1>3, <1>5, <2>3, WalkCases
  <2> QED  BY <1>4, <2>3, <2>4, <2>5
<1>6. CASE Enters
  <2>1. UNCHANGED <<funcs, pass, next, errors>>
    BY <1>6 DEF Enters, RegisterFunc, VisitFunc, walk
  <2> QED  BY <1>4, <2>1
<1>7. CASE UNCHANGED vars
  <2>1. UNCHANGED <<funcs, pass, next, errors>>  BY <1>7 DEF vars, walk
  <2> QED  BY <1>4, <2>1
<1>8. CASE EndWalk
  <2>1. /\ UNCHANGED <<funcs, errors>> /\ next' = 1 /\ next > Len(order)
        /\ pass' = "check" \/ (pass = "check" /\ pass' = "accepted")
    BY <1>8 DEF EndWalk, AtEnd
  <2>2. pass' # "check"  BY <1>1, <1>3, <2>1
  <2>3. i < next  BY <1>1, <1>3, <2>1
  <2> QED  BY <1>4, <2>1, <2>2, <2>3
<1>9. CASE FinishFunc
  <2> DEFINE g == Resolved(fun, pass = "register")
  <2>1. g = Resolved(fun, pass = "register")  OBVIOUS
  <2> HIDE DEF g
  <2>2. /\ Visiting /\ fun = funcs[top.f] /\ fun \in Function /\ ResolveFuncType(fun, g)
        /\ g.body = fun.body /\ g.ret = fun.ret
        /\ fun.typed => g.typed
        /\ ~ fun.typed /\ ~ g.typed => pass = "register" \/ ResultType(fun) = NoType
        /\ (funcs')[top.f] = g /\ \A j \in DOMAIN funcs : j # top.f => (funcs')[j] = funcs[j]
        /\ next' = next + 1 /\ pass' = pass
    BY <1>9, <2>1, FinishFuncFacts
  <2>3. top.f = next /\ next \in DOMAIN funcs  BY <1>2, <2>2, WalkCases
  <2>4. pass = "check" /\ i < next + 1
    <3>1. pass \in Walks  BY <2>2, StackFacts DEF TypeInv
    <3> QED  BY <2>2, <3>1 DEF Walks
  <2>5. errors = {} /\ ~ BadResult(fun)
    BY <2>2, <2>4 DEF ResolveFuncType, Fail, Checking
  <2>6. CASE i = next
    <3>1. TypedTo(fun, Len(fun.body))  BY <1>9, <2>4, <2>5, FinishedTyped
    <3>2. ResultType(fun) # NoType  BY <2>2, <2>5, <3>1, GoodResult
    <3>3. g.typed  BY <2>2, <2>4, <3>2
    <3>4. g.ret = fun.ret /\ g.body = fun.body  BY <2>2
    <3>5. ~ BadResult(g)  BY <2>5, <3>4, SameResult
    <3> QED  BY <2>2, <2>3, <2>6, <3>3, <3>5
  <2>7. CASE i # next
    <3>1. i < next  BY <1>1, <1>3, <2>4, <2>7
    <3> QED  BY <1>1, <1>4, <2>2, <2>3, <2>4, <2>5, <2>7, <3>1
  <2> QED  BY <2>6, <2>7
<1> QED  BY <1>2, <1>5, <1>6, <1>7, <1>8, <1>9, WalkCases

(* What the visit of a body has behind it: a statement whose type could be *)
(* known by then has it.                                                   *)
Sayable(i, s) ==
  funcs[i].body[s].fn = NoFunc \/ (T(i, s) \in DOMAIN funcs /\ funcs[T(i, s)].typed)

SeenInv ==
  Plain(Source) /\ Visiting =>
    \A s \in DOMAIN fun.body : s < top.s /\ Sayable(top.f, s) => fun.body[s].t # NoType

LEMMA FailsUnsaid ==
  ASSUME TypeInv, ListedInv, BasesInv, TakenInv, Plain(Source), CallFails
  PROVE  ~ Sayable(top.f, top.s)
<1> DEFINE g == T(top.f, top.s)
<1>1. InBody /\ stmt.fn # NoFunc /\ top.tried = Len(Candidates)
  BY DEF CallFails, AllTried, Searching
<1>2. /\ Visiting /\ top.f \in DOMAIN funcs /\ top.s \in DOMAIN funcs[top.f].body
      /\ stmt = funcs[top.f].body[top.s] /\ stmt \in Statement
  BY <1>1, AtStatement
<1>3. SUFFICES ASSUME g \in DOMAIN funcs, funcs[g].typed  PROVE FALSE
  BY <1>1, <1>2 DEF Sayable
<1>4. g # 0  BY <1>3, NamedFacts
<1>5. g \in Takers(top.f, top.s)  BY <1>2, <1>4, TargetFacts
<1> HIDE DEF g
<1>6. funcs[g].name = stmt.fn  BY <1>2, <1>5 DEF Takers, Named
<1>7. Candidates = overloads[stmt.fn]  BY <1>3, <1>6 DEF BasesInv, Candidates
<1>8. PICK k \in DOMAIN overloads[stmt.fn] : overloads[stmt.fn][k] = g
  BY <1>3, <1>6 DEF ListedInv
<1>9. stmt.fn \in Names  BY <1>1, <1>2, StatementFields
<1>10. overloads[stmt.fn] \in Seq(DOMAIN funcs)  BY <1>9 DEF TypeInv, TablesInv
<1>11. top.tried = Len(overloads[stmt.fn])  BY <1>1, <1>7
<1>12. k \in 1 .. top.tried /\ top.tried > 0  BY <1>8, <1>10, <1>11
<1> QED  BY <1>2, <1>5, <1>8, <1>12 DEF TakenInv

LEMMA WrittenSeen ==
  ASSUME TypeInv, ListedInv, BasesInv, TakenInv, Plain(Source), Writes, ~ NextOverload, Sayable(top.f, top.s)
  PROVE  (funcs')[top.f].body[top.s].t # NoType
<1>1. \E st : Wrote(st) /\ st.t # NoType
  <2>1. CASE ReturnValue  BY <2>1, ReturnValueFacts, TypesAssumption
  <2>2. CASE CallExact  BY <2>2, CallExactFacts
  <2>3. CASE CallKept  BY <2>3, CallKeptFacts
  <2>4. CASE CallOverload  BY <2>4, CallOverloadFacts
  <2>5. ~ CallFails  BY FailsUnsaid
  <2> QED  BY <2>1, <2>2, <2>3, <2>4, <2>5 DEF Writes
<1> QED  BY <1>1, WroteFacts

LEMMA StepSeen ==
  ASSUME TypeInv, CallsInv, FileInv, ListedInv, BasesInv, TakenInv, SeenInv, [Next]_vars
  PROVE  SeenInv'
<1> SUFFICES ASSUME Plain(Source)', Visiting', NEW s \in DOMAIN fun'.body, s < top'.s, Sayable(top.f, s)'
             PROVE  fun'.body[s].t # NoType
  BY DEF SeenInv
<1>1. PlainStep /\ Plain(Source) /\ DOMAIN funcs' = DOMAIN funcs  BY PlainBefore DEF PlainStep
<1>2. WalkStep  BY <1>1 DEF WalkStep
<1>3. CASE Writes
  <2>1. PICK st : Wrote(st)  BY <1>3, WritesFacts
  <2>2. /\ Visiting /\ top'.f = top.f
        /\ ~ NextOverload => top'.s = top.s + 1
        /\ NextOverload => top'.s = top.s
    BY <1>1, <1>3, WritesMove DEF PlainStep
  <2>3. /\ top.f \in DOMAIN funcs /\ top.s \in DOMAIN funcs[top.f].body /\ fun = funcs[top.f]
        /\ \A i \in DOMAIN funcs : SameHead(funcs[i], (funcs')[i])
        /\ DOMAIN (funcs')[top.f].body = DOMAIN fun.body
        /\ \A r \in DOMAIN fun.body : r # top.s => (funcs')[top.f].body[r] = fun.body[r]
    BY <2>1, WroteFacts
  <2>4. fun' = (funcs')[top.f] /\ s \in DOMAIN fun.body  BY <2>2, <2>3 DEF fun
  <2>5. Sayable(top.f, s)
    <3>1. (funcs')[top'.f].body[s].fn = NoFunc
          \/ (T(top.f, s)' \in DOMAIN funcs /\ (funcs')[T(top.f, s)'].typed)
      BY <1>1 DEF Sayable
    <3>2. T(top.f, s)' = T(top.f, s)
      <4>1. \A i : (top.f)' = i => T(top.f, s)' = T(i, s)'  BY DEF T
      <4>2. (top.f)' = top'.f  OBVIOUS
      <4>3. \A i : T(i, s)' = T(i, s)  BY <1>1, PlainKeeps
      <4> QED  BY <2>2, <4>1, <4>2, <4>3
    <3>3. (funcs')[top.f].body[s].fn = funcs[top.f].body[s].fn  BY <1>1, <2>3, <2>4, PlainKeeps
    <3> QED  BY <2>2, <2>3, <3>1, <3>2, <3>3 DEF Sayable, SameHead
  <2>6. CASE s = top.s
    <3>1. top.s \in Nat  BY <2>2, StackFacts DEF TypeInv
    <3>2. ~ NextOverload  BY <2>2, <2>6, <3>1
    <3> QED  BY <1>1, <1>3, <2>4, <2>5, <2>6, <3>2, WrittenSeen
  <2>7. CASE s # top.s
    <3>1. s < top.s
      <4>1. top.s \in Nat /\ s \in Nat
        <5>1. DOMAIN fun.body = 1 .. Len(fun.body)  BY <2>3, FuncsFacts, FunctionFields DEF TypeInv
        <5> QED  BY <2>2, <2>4, <5>1, StackFacts DEF TypeInv
      <4>2. s < top.s + 1  BY <2>2, <4>1
      <4> QED  BY <2>7, <4>1, <4>2
    <3> QED  BY <1>1, <2>2, <2>3, <2>4, <2>5, <2>7, <3>1 DEF SeenInv
  <2> QED  BY <2>6, <2>7
<1>4. CASE Enters
  <2>1. stack' = <<Frame(order[next], FALSE)>>  BY <1>4 DEF Enters, RegisterFunc, VisitFunc, Enter
  <2>2. top' = Frame(order[next], FALSE)  BY <2>1 DEF top, Last
  <2>3. top'.s = 1  BY <2>2 DEF Frame
  <2>4. fun' = (funcs')[top'.f] /\ top'.f = order[next]  BY <2>2 DEF fun, Frame
  <2>5. funcs' = funcs /\ order[next] \in DOMAIN funcs
    <3>1. AtChild  BY <1>4 DEF Enters, RegisterFunc, VisitFunc
    <3> QED  BY <1>2, <1>4, <3>1, ChildFacts, WalkCases
  <2>6. s \in Nat \ {0}
    <3>1. DOMAIN fun'.body = 1 .. Len(fun'.body)
      BY <2>4, <2>5, FuncsFacts, FunctionFields DEF TypeInv
    <3> QED  BY <3>1
  <2> QED  BY <2>3, <2>6
<1>5. CASE FinishFunc  BY <1>5 DEF FinishFunc, Visiting
<1>6. CASE EndWalk  BY <1>6 DEF EndWalk, AtEnd, Visiting
<1>7. CASE UNCHANGED vars
  <2>1. UNCHANGED <<funcs, stack>>  BY <1>7 DEF vars
  <2>2. top' = top /\ Visiting /\ fun' = fun  BY <2>1 DEF top, fun, Visiting
  <2>3. Sayable(top.f, s)
    <3>1. (funcs')[top'.f].body[s].fn = NoFunc
          \/ (T(top.f, s)' \in DOMAIN funcs /\ (funcs')[T(top.f, s)'].typed)
      BY <1>1 DEF Sayable
    <3>2. T(top.f, s)' = T(top.f, s)
      <4>1. \A i : (top.f)' = i => T(top.f, s)' = T(i, s)'  BY DEF T
      <4>2. (top.f)' = top'.f  OBVIOUS
      <4>3. \A i : T(i, s)' = T(i, s)  BY <1>1, PlainKeeps
      <4> QED  BY <2>2, <4>1, <4>2, <4>3
    <3> QED  BY <2>1, <2>2, <3>1, <3>2 DEF Sayable
  <2> QED  BY <1>1, <2>2, <2>3 DEF SeenInv
<1> QED  BY <1>2, <1>3, <1>4, <1>5, <1>6, <1>7, WalkCases

(* A resolving walk that has nothing unresolved has typed what it passed,  *)
(* and a program is only rejected for an error.                            *)
UnresolvedInv ==
  Plain(Source) /\ pass = "resolve" /\ ~ unresolved => \A i \in DOMAIN funcs : i < next => funcs[i].typed

RejectedInv == Plain(Source) /\ pass = "rejected" => errors # {}

LEMMA StepUnresolved ==
  ASSUME TypeInv, CallsInv, FileInv, UnresolvedInv, [Next]_vars
  PROVE  UnresolvedInv'
<1> SUFFICES ASSUME Plain(Source)', pass' = "resolve", ~ unresolved', NEW i \in DOMAIN funcs', i < next'
             PROVE  (funcs')[i].typed
  BY DEF UnresolvedInv
<1>1. PlainStep /\ Plain(Source) /\ DOMAIN funcs' = DOMAIN funcs  BY PlainBefore DEF PlainStep
<1>2. WalkStep  BY <1>1 DEF WalkStep
<1>3. pass = "resolve" /\ ~ unresolved /\ i < next => funcs[i].typed  BY <1>1 DEF UnresolvedInv
<1>4. CASE Writes
  <2>1. pass' = pass /\ next' = next  BY <1>1, <1>4, WritesMove DEF PlainStep
  <2>2. ~ unresolved
    BY <1>4 DEF Writes, ReturnValue, CallExact, CallKept, CallOverload, NextOverload, CallFails
  <2> QED  BY <1>1, <1>2, <1>3, <1>4, <2>1, <2>2, WalkCases DEF SameHead
<1>5. CASE Enters \/ UNCHANGED vars
  <2>1. UNCHANGED <<funcs, pass, next, unresolved>>
    BY <1>5 DEF Enters, RegisterFunc, VisitFunc, walk, vars
  <2> QED  BY <1>3, <2>1
<1>6. CASE EndWalk
  <2>1. next' = 1  BY <1>6 DEF EndWalk
  <2> QED  BY <1>1, <1>2, <2>1, WalkCases
<1>7. CASE FinishFunc
  <2> DEFINE g == Resolved(fun, pass = "register")
  <2>1. g = Resolved(fun, pass = "register")  OBVIOUS
  <2>2. ~ unresolved /\ g.typed /\ pass' = pass /\ next' = next + 1  BY <1>7 DEF FinishFunc
  <2> HIDE DEF g
  <2>3. /\ Visiting /\ (funcs')[top.f] = g /\ \A j \in DOMAIN funcs : j # top.f => (funcs')[j] = funcs[j]
    BY <1>7, <2>1, FinishFuncFacts
  <2>4. top.f = next /\ DOMAIN funcs = 1 .. Len(funcs) /\ next \in Nat  BY <1>2, <2>3, WalkCases
  <2>5. CASE i = next  BY <2>2, <2>3, <2>4, <2>5
  <2>6. CASE i # next
    <3>1. i < next  BY <1>1, <2>2, <2>4, <2>6
    <3> QED  BY <1>1, <1>3, <2>2, <2>3, <2>4, <2>6, <3>1
  <2> QED  BY <2>5, <2>6
<1> QED  BY <1>2, <1>4, <1>5, <1>6, <1>7, WalkCases

LEMMA StepRejected ==
  ASSUME TypeInv, CallsInv, FileInv, RejectedInv, [Next]_vars
  PROVE  RejectedInv'
<1> SUFFICES ASSUME Plain(Source)', pass' = "rejected"  PROVE errors' # {}
  BY DEF RejectedInv
<1>1. PlainStep /\ Plain(Source)  BY PlainBefore DEF PlainStep
<1>2. WalkStep  BY <1>1 DEF WalkStep
<1>3. CASE Writes
  <2>1. Visiting /\ pass' = pass  BY <1>1, <1>3, WritesMove DEF PlainStep
  <2>2. pass \in Walks  BY <2>1, StackFacts DEF TypeInv
  <2> QED  BY <2>1, <2>2 DEF Walks
<1>4. CASE Enters
  <2>1. pass' = pass /\ AtChild  BY <1>4 DEF Enters, RegisterFunc, VisitFunc, walk
  <2> QED  BY <2>1 DEF AtChild
<1>5. CASE FinishFunc
  <2>1. pass' = pass /\ Visiting  BY <1>5 DEF FinishFunc, BodyDone
  <2>2. pass \in Walks  BY <2>1, StackFacts DEF TypeInv
  <2> QED  BY <2>1, <2>2 DEF Walks
<1>6. CASE EndWalk  BY <1>6 DEF EndWalk
<1>7. CASE UNCHANGED vars
  <2>1. pass' = pass /\ errors' = errors  BY <1>7 DEF vars, walk
  <2> QED  BY <1>1, <2>1 DEF RejectedInv
<1> QED  BY <1>2, <1>3, <1>4, <1>5, <1>6, <1>7, WalkCases

-----------------------------------------------------------------------------
(* The other side: what the rounds of the language make of a program.      *)
LEMMA LeastNatural ==
  ASSUME NEW S \in SUBSET Nat, S # {}
  PROVE  \E m \in S : \A s \in S : m <= s
<1> DEFINE R == OpToRel(<, Nat)
<1>1. IsWellFoundedOn(R, Nat)  BY NatLessThanWellFounded, Zenon
<1> HIDE DEF R
<1>2. PICK m \in S : \A s \in S : ~ (<<s, m>> \in R)  BY <1>1, WFMin
<1>3. ASSUME NEW s \in S, s < m  PROVE <<s, m>> \in R  BY <1>3 DEF R, OpToRel
<1>4. ASSUME NEW s \in S  PROVE m <= s
  <2>1. ~ (s < m)  BY <1>2, <1>3
  <2> QED  BY <2>1
<1> QED  BY <1>4

RoundRule(p, f, n) == IF n = 0 THEN Declarations(p) ELSE NextRound(p, f[n - 1])

LEMMA RoundsExist ==
  ASSUME NEW p, Len(p) \in Nat
  PROVE  \E f : f = [n \in 0 .. Len(p) |-> RoundRule(p, f, n)]
<1> DEFINE Is(f, m) == f = [n \in 0 .. m |-> RoundRule(p, f, n)]
           Bad == {m \in 0 .. Len(p) : ~ \E f : Is(f, m)}
<1>1. SUFFICES ASSUME Bad # {}  PROVE FALSE
  <2>1. Len(p) \in 0 .. Len(p)  OBVIOUS
  <2>2. Bad = {} => \E f : Is(f, Len(p))  BY <2>1
  <2> QED  BY <2>2
<1>2. PICK m \in Bad : \A y \in Bad : m <= y
  <2>1. Bad \in SUBSET Nat  OBVIOUS
  <2> HIDE DEF Bad
  <2> QED  BY <1>1, <2>1, LeastNatural
<1>3. m \in 0 .. Len(p) /\ ~ \E f : Is(f, m)  OBVIOUS
<1>4. m # 0
  <2>1. Is([n \in 0 .. 0 |-> Declarations(p)], 0)  BY DEF RoundRule
  <2> QED  BY <1>3, <2>1
<1>5. PICK f : Is(f, m - 1)
  <2>1. m - 1 \in 0 .. Len(p) /\ ~ (m <= m - 1)  BY <1>3, <1>4
  <2>2. m - 1 \notin Bad  BY <1>2, <2>1
  <2> QED  BY <2>1, <2>2
<1> DEFINE h == [n \in 0 .. m |-> IF n = m THEN RoundRule(p, f, m) ELSE f[n]]
<1>6. h = [n \in 0 .. m |-> RoundRule(p, h, n)]
  <2>1. ASSUME NEW n \in 0 .. m  PROVE h[n] = RoundRule(p, h, n)
    <3>1. n # m => f[n] = RoundRule(p, f, n)  BY <1>3, <1>5
    <3>2. h[n] = RoundRule(p, f, n)  BY <3>1
    <3>3. n # 0 => h[n - 1] = f[n - 1]  BY <1>3
    <3> QED  BY <3>2, <3>3 DEF RoundRule
  <2>2. h = [n \in 0 .. m |-> h[n]]  OBVIOUS
  <2> HIDE DEF h
  <2> QED  BY <2>1, <2>2
<1> HIDE DEF h
<1> QED  BY <1>3, <1>6

LEMMA RoundsAre ==
  ASSUME NEW p, Len(p) \in Nat
  PROVE  /\ Rounds(p)[0] = Declarations(p)
         /\ \A n \in 1 .. Len(p) : Rounds(p)[n] = NextRound(p, Rounds(p)[n - 1])
<1> DEFINE P(f) == f = [n \in 0 .. Len(p) |-> RoundRule(p, f, n)]
           all == CHOOSE f : P(f)
<1>1. \E f : P(f)  BY RoundsExist
<1>2. Rounds(p) = all  BY DEF Rounds, RoundRule
<1>3. P(all)
  <2> HIDE DEF P
  <2> QED  BY <1>1, Zenon
<1> HIDE DEF all
<1>4. \A n \in 0 .. Len(p) : all[n] = RoundRule(p, all, n)  BY <1>3
<1>5. 0 \in 0 .. Len(p) /\ \A n \in 1 .. Len(p) : n \in 0 .. Len(p) /\ n # 0  OBVIOUS
<1> QED  BY <1>2, <1>4, <1>5 DEF RoundRule

(* What is known of a program as it is read.                               *)
Read(p) ==
  /\ Len(p) \in Nat /\ DOMAIN p = 1 .. Len(p)
  /\ \A i \in DOMAIN p :
       /\ p[i].ret \in Types \cup {NoType}
       /\ Len(p[i].body) \in Nat /\ DOMAIN p[i].body = 1 .. Len(p[i].body)
       /\ \A s \in DOMAIN p[i].body :
            /\ p[i].body[s].fn = NoFunc => ValueOf(p[i].body[s].args) \in Types
            /\ Target(p, p[i].body[s]) \in DOMAIN p \cup {0}

Typings(p) == [DOMAIN p -> Types \cup {NoType}]

ReturnsIn(p, i) == {s \in DOMAIN p[i].body : p[i].body[s].ret}

Said(p, i, s, results) == TypeOf(p, p[i].body[s], results)

LEMMA SaidFacts ==
  ASSUME NEW p, Read(p), NEW i \in DOMAIN p, NEW s \in DOMAIN p[i].body, NEW results \in Typings(p)
  PROVE  /\ Said(p, i, s, results) \in Types \cup {NoType}
         /\ p[i].body[s].fn = NoFunc => Said(p, i, s, results) = ValueOf(p[i].body[s].args)
         /\ p[i].body[s].fn # NoFunc =>
              LET g == Target(p, p[i].body[s]) IN
              Said(p, i, s, results) = IF g = 0 THEN NoType ELSE results[g]
<1>1. 0 \notin DOMAIN p  BY DEF Read
<1>2. CASE p[i].body[s].fn = NoFunc
  <2>1. Said(p, i, s, results) = ValueOf(p[i].body[s].args)  BY <1>2 DEF Said, TypeOf, ValueOf
  <2> QED  BY <1>2, <2>1 DEF Read
<1>3. CASE p[i].body[s].fn # NoFunc  BY <1>1, <1>3 DEF Said, TypeOf, Read, Typings
<1> QED  BY <1>2, <1>3

BodyOK(f) == \E n \in Nat : DOMAIN f.body = 1 .. n /\ \A s \in 1 .. n : f.body[s].t \in Types \cup {NoType}

LEMMA GivenFacts ==
  ASSUME NEW p, Read(p), NEW i \in DOMAIN p, NEW results \in Typings(p)
  PROVE  LET f == Given(p, i, results)
         IN /\ BodyOK(f) /\ f.ret = p[i].ret /\ DOMAIN f.body = DOMAIN p[i].body
            /\ \A s \in DOMAIN p[i].body : f.body[s].ret = p[i].body[s].ret
                                            /\ f.body[s].t = Said(p, i, s, results)
            /\ Returns(f) = ReturnsIn(p, i)
            /\ Known(f) = {s \in ReturnsIn(p, i) : Said(p, i, s, results) # NoType}
<1> DEFINE f == Given(p, i, results)
<1>1. /\ f.ret = p[i].ret /\ DOMAIN f.body = DOMAIN p[i].body
      /\ \A s \in DOMAIN p[i].body : f.body[s].ret = p[i].body[s].ret
                                      /\ f.body[s].t = Said(p, i, s, results)
  BY DEF Given, Said
<1> HIDE DEF f
<1>2. BodyOK(f)
  <2>1. Len(p[i].body) \in Nat /\ DOMAIN f.body = 1 .. Len(p[i].body)  BY <1>1 DEF Read
  <2>2. \A s \in DOMAIN p[i].body : f.body[s].t \in Types \cup {NoType}  BY <1>1, SaidFacts
  <2> QED  BY <1>1, <2>1, <2>2 DEF BodyOK
<1>3. Returns(f) = ReturnsIn(p, i)  BY <1>1 DEF Returns, ReturnsIn
<1>4. Known(f) = {s \in ReturnsIn(p, i) : Said(p, i, s, results) # NoType}
  BY <1>1, <1>3 DEF Known, ReturnsIn
<1> QED  BY <1>1, <1>2, <1>3, <1>4 DEF f

LEMMA DeducedFacts ==
  ASSUME NEW f, BodyOK(f)
  PROVE  /\ Deduction(f) \in Types \cup {NoType}
         /\ Returns(f) = {} => Deduction(f) = "void"
         /\ Returns(f) # {} /\ Deduction(f) # NoType =>
              GoTogether(f) /\ \E s \in Known(f) : Deduction(f) = f.body[s].t
         /\ Known(f) # {} /\ GoTogether(f) => Deduction(f) # NoType
<1>1. PICK n \in Nat : DOMAIN f.body = 1 .. n /\ \A s \in 1 .. n : f.body[s].t \in Types \cup {NoType}
  BY DEF BodyOK
<1>2. Known(f) \subseteq 1 .. n /\ Known(f) \subseteq Returns(f)  BY <1>1 DEF Known, Returns
<1>3. Known(f) # {} => Max(Known(f)) \in Known(f)  BY <1>2, MaxFacts
<1>4. \A s \in Known(f) : f.body[s].t \in Types /\ f.body[s].t # NoType
  <2> TAKE s \in Known(f)
  <2>1. f.body[s].t # NoType  BY DEF Known
  <2> QED  BY <1>1, <1>2, <2>1
<1> QED  BY <1>2, <1>3, <1>4, TypesAssumption DEF Deduction

LEMMA OneType ==
  ASSUME NEW f, BodyOK(f), GoTogether(f),
         \A r, s \in Known(f) : Assignable(f.body[r].t, f.body[s].t) => f.body[r].t = f.body[s].t
  PROVE  \A r, s \in Known(f) : f.body[r].t = f.body[s].t
<1>1. PICK n \in Nat : DOMAIN f.body = 1 .. n  BY DEF BodyOK
<1> DEFINE K == Known(f)
           Ty(s) == f.body[s].t
<1>2. K \subseteq 1 .. n  BY <1>1 DEF Known, Returns
<1>3. /\ \A r, s \in K : r < s /\ (\A q \in K : q <= r \/ s <= q) => Assignable(Ty(r), Ty(s))
      /\ \A r, s \in K : Assignable(Ty(r), Ty(s)) => Ty(r) = Ty(s)
  BY DEF GoTogether
<1> HIDE DEF K, Ty
<1>4. ASSUME NEW r \in K  PROVE \A s \in K : r < s => Ty(r) = Ty(s)
  <2> DEFINE B == {s \in K : r < s /\ Ty(s) # Ty(r)}
  <2> SUFFICES ASSUME B # {}  PROVE FALSE  OBVIOUS
  <2>1. B \subseteq 1 .. n  BY <1>2
  <2>2. PICK b \in B : \A s \in B : b <= s
    <3> HIDE DEF B
    <3> QED  BY <2>1, LeastFacts
  <2> DEFINE C == {s \in K : s < b}
  <2>3. r \in C /\ C \subseteq 1 .. n  BY <1>2
  <2>4. PICK c \in C : \A s \in C : s <= c
    <3> HIDE DEF C
    <3>1. Max(C) \in C /\ \A s \in C : s <= Max(C)  BY <2>3, MaxFacts
    <3> QED  BY <3>1
  <2>5. c \in 1 .. n /\ b \in 1 .. n /\ r \in 1 .. n /\ c < b /\ r <= c  BY <1>2, <2>3, <2>4
  <2>6. \A q \in K : q <= c \/ b <= q
    <3> TAKE q \in K
    <3>1. q \in 1 .. n  BY <1>2
    <3>2. q < b => q \in C  OBVIOUS
    <3> QED  BY <2>4, <2>5, <3>1, <3>2
  <2>7. Ty(c) = Ty(b)  BY <1>3, <2>5, <2>6
  <2>8. Ty(c) = Ty(r)
    <3>1. c \notin B  BY <2>2, <2>5
    <3>2. c \in K /\ (c = r \/ r < c)  BY <2>5
    <3> QED  BY <3>1, <3>2
  <2> QED  BY <2>7, <2>8
<1>5. ASSUME NEW r \in K, NEW s \in K  PROVE Ty(r) = Ty(s)
  <2>1. r \in 1 .. n /\ s \in 1 .. n  BY <1>2
  <2>2. r < s \/ s < r \/ r = s  BY <2>1
  <2> QED  BY <1>4, <2>2
<1> QED  BY <1>5 DEF K, Ty

LEMMA AllTogether ==
  ASSUME NEW f, BodyOK(f), \A r, s \in Known(f) : f.body[r].t = f.body[s].t
  PROVE  GoTogether(f)
<1>1. ASSUME NEW r \in Known(f), NEW s \in Known(f)  PROVE Assignable(f.body[r].t, f.body[s].t)
  <2>1. f.body[r].t \in Types
    <3>1. r \in DOMAIN f.body /\ f.body[r].t # NoType  BY DEF Known, Returns
    <3> QED  BY <3>1 DEF BodyOK
  <2>2. Assignable(f.body[r].t, f.body[r].t)  BY <2>1, AssignableItself
  <2> QED  BY <2>2
<1> QED  BY <1>1 DEF GoTogether

LEMMA NextRoundTypes ==
  ASSUME NEW p, Read(p), NEW results \in Typings(p)
  PROVE  /\ NextRound(p, results) \in Typings(p)
         /\ \A i \in DOMAIN p : /\ results[i] # NoType => NextRound(p, results)[i] = results[i]
                                /\ results[i] = NoType => NextRound(p, results)[i] = Deduction(Given(p, i, results))
<1>1. \A i \in DOMAIN p : results[i] \in Types \cup {NoType}  BY DEF Typings
<1>2. \A i \in DOMAIN p : Deduction(Given(p, i, results)) \in Types \cup {NoType}
  BY GivenFacts, DeducedFacts
<1> QED  BY <1>1, <1>2 DEF NextRound, Typings

LEMMA RoundTypes ==
  ASSUME NEW p, Read(p)
  PROVE  \A n \in 0 .. Len(p) : Rounds(p)[n] \in Typings(p)
<1> DEFINE Bad == {n \in 0 .. Len(p) : Rounds(p)[n] \notin Typings(p)}
<1> SUFFICES ASSUME Bad # {}  PROVE FALSE  OBVIOUS
<1>1. Len(p) \in Nat  BY DEF Read
<1>2. PICK m \in Bad : \A n \in Bad : m <= n
  <2>1. Bad \in SUBSET Nat  BY <1>1
  <2> HIDE DEF Bad
  <2> QED  BY <2>1, LeastNatural
<1>3. m \in 0 .. Len(p) /\ Rounds(p)[m] \notin Typings(p)  OBVIOUS
<1>4. m # 0
  <2>1. Declarations(p) \in Typings(p)  BY DEF Declarations, Typings, Read
  <2> QED  BY <1>1, <1>3, <2>1, RoundsAre
<1>5. m \in 1 .. Len(p) /\ m - 1 \in 0 .. Len(p) /\ ~ (m <= m - 1)  BY <1>1, <1>3, <1>4
<1>6. Rounds(p)[m - 1] \in Typings(p)  BY <1>2, <1>5
<1> QED  BY <1>1, <1>3, <1>5, <1>6, RoundsAre, NextRoundTypes

(* What is said in a round stays said.                                     *)
Extends(p, results, later) == \A i \in DOMAIN p : results[i] # NoType => later[i] = results[i]

LEMMA SaidStays ==
  ASSUME NEW p, Read(p), NEW results \in Typings(p), NEW later \in Typings(p), Extends(p, results, later),
         NEW i \in DOMAIN p, NEW s \in DOMAIN p[i].body, Said(p, i, s, results) # NoType
  PROVE  Said(p, i, s, later) = Said(p, i, s, results)
<1>1. CASE p[i].body[s].fn = NoFunc  BY <1>1, SaidFacts
<1>2. CASE p[i].body[s].fn # NoFunc
  <2> DEFINE g == Target(p, p[i].body[s])
  <2>1. /\ Said(p, i, s, results) = IF g = 0 THEN NoType ELSE results[g]
        /\ Said(p, i, s, later) = IF g = 0 THEN NoType ELSE later[g]
    BY <1>2, SaidFacts
  <2>2. g \in DOMAIN p  BY <2>1 DEF Read
  <2> QED  BY <2>1, <2>2 DEF Extends
<1> QED  BY <1>1, <1>2

LEMMA RoundsGrow ==
  ASSUME NEW p, Read(p), NEW m \in 0 .. Len(p)
  PROVE  \A n \in m .. Len(p) : Extends(p, Rounds(p)[m], Rounds(p)[n])
<1> DEFINE Bad == {n \in m .. Len(p) : ~ Extends(p, Rounds(p)[m], Rounds(p)[n])}
<1> SUFFICES ASSUME Bad # {}  PROVE FALSE  OBVIOUS
<1>1. Len(p) \in Nat /\ m \in Nat  BY DEF Read
<1>2. PICK k \in Bad : \A n \in Bad : k <= n
  <2>1. Bad \in SUBSET Nat  BY <1>1
  <2> HIDE DEF Bad
  <2> QED  BY <2>1, LeastNatural
<1>3. k \in m .. Len(p) /\ ~ Extends(p, Rounds(p)[m], Rounds(p)[k])  OBVIOUS
<1>4. k # m  BY <1>3 DEF Extends
<1>5. k \in 1 .. Len(p) /\ k - 1 \in m .. Len(p) /\ ~ (k <= k - 1)  BY <1>1, <1>3, <1>4
<1>6. Extends(p, Rounds(p)[m], Rounds(p)[k - 1])  BY <1>2, <1>5
<1>7. Rounds(p)[k - 1] \in Typings(p)
  <2>1. k - 1 \in 0 .. Len(p)  BY <1>1, <1>5
  <2> QED  BY <2>1, RoundTypes
<1>8. Rounds(p)[k] = NextRound(p, Rounds(p)[k - 1])  BY <1>1, <1>5, RoundsAre
<1>9. Extends(p, Rounds(p)[k - 1], Rounds(p)[k])  BY <1>7, <1>8, NextRoundTypes DEF Extends
<1> QED  BY <1>3, <1>6, <1>9 DEF Extends

(* Where the results of a round come from.                                 *)
Founded(p, results, i) ==
  results[i] # NoType =>
    IF p[i].ret # NoType THEN results[i] = p[i].ret
    ELSE IF ReturnsIn(p, i) = {} THEN results[i] = "void"
    ELSE \E s \in ReturnsIn(p, i) : Said(p, i, s, results) = results[i]

LEMMA RoundsFounded ==
  ASSUME NEW p, Read(p)
  PROVE  \A n \in 0 .. Len(p) : \A i \in DOMAIN p :
           /\ Founded(p, Rounds(p)[n], i)
           /\ p[i].ret # NoType => Rounds(p)[n][i] = p[i].ret
<1> DEFINE Good(n) == \A i \in DOMAIN p : /\ Founded(p, Rounds(p)[n], i)
                                          /\ p[i].ret # NoType => Rounds(p)[n][i] = p[i].ret
           Bad == {n \in 0 .. Len(p) : ~ Good(n)}
<1> SUFFICES ASSUME Bad # {}  PROVE FALSE  OBVIOUS
<1>1. Len(p) \in Nat  BY DEF Read
<1>2. PICK m \in Bad : \A n \in Bad : m <= n
  <2>1. Bad \in SUBSET Nat  BY <1>1
  <2> HIDE DEF Bad
  <2> QED  BY <2>1, LeastNatural
<1>3. m \in 0 .. Len(p) /\ ~ Good(m)  OBVIOUS
<1>4. m # 0
  <2>1. \A i \in DOMAIN p : Rounds(p)[0][i] = p[i].ret
    <3>1. Rounds(p)[0] = Declarations(p)  BY <1>1, RoundsAre
    <3> QED  BY <3>1 DEF Declarations
  <2>2. Good(0)  BY <2>1 DEF Founded
  <2> QED  BY <1>3, <2>2
<1>5. m \in 1 .. Len(p) /\ m - 1 \in 0 .. Len(p) /\ ~ (m <= m - 1)  BY <1>1, <1>3, <1>4
<1>6. Good(m - 1)  BY <1>2, <1>5
<1> DEFINE r == Rounds(p)[m - 1]
           x == Rounds(p)[m]
<1>7. r \in Typings(p) /\ x \in Typings(p)  BY <1>3, <1>5, RoundTypes
<1>8. x = NextRound(p, r)  BY <1>1, <1>5, RoundsAre
<1>9. \A i \in DOMAIN p : Founded(p, r, i) /\ (p[i].ret # NoType => r[i] = p[i].ret)  BY <1>6
<1> HIDE DEF r, x
<1>10. Extends(p, r, x)  BY <1>7, <1>8, NextRoundTypes DEF Extends
<1>11. ASSUME NEW i \in DOMAIN p  PROVE Founded(p, x, i) /\ (p[i].ret # NoType => x[i] = p[i].ret)
  <2>1. ASSUME p[i].ret # NoType  PROVE x[i] = p[i].ret
    BY <1>9, <1>10, <2>1 DEF Extends
  <2>2. CASE p[i].ret # NoType  BY <2>1, <2>2 DEF Founded
  <2>3. CASE p[i].ret = NoType /\ ReturnsIn(p, i) = {}
    <3>1. CASE r[i] # NoType  BY <1>9, <1>10, <2>3, <3>1 DEF Founded, Extends
    <3>2. CASE r[i] = NoType
      <4>1. x[i] = Deduction(Given(p, i, r))  BY <1>7, <1>8, <3>2, NextRoundTypes
      <4>2. x[i] = "void"  BY <1>7, <2>3, <4>1, GivenFacts, DeducedFacts
      <4> QED  BY <2>3, <4>2 DEF Founded
    <3> QED  BY <3>1, <3>2
  <2>4. CASE p[i].ret = NoType /\ ReturnsIn(p, i) # {} /\ x[i] # NoType
    <3>1. \E s \in ReturnsIn(p, i) : Said(p, i, s, r) = x[i]
      <4>1. CASE r[i] # NoType  BY <1>9, <1>10, <2>4, <4>1 DEF Founded, Extends
      <4>2. CASE r[i] = NoType
        <5>1. x[i] = Deduction(Given(p, i, r))  BY <1>7, <1>8, <4>2, NextRoundTypes
        <5>2. \E s \in Known(Given(p, i, r)) : x[i] = Given(p, i, r).body[s].t
          BY <1>7, <2>4, <5>1, GivenFacts, DeducedFacts
        <5>3. PICK s \in ReturnsIn(p, i) : x[i] = Given(p, i, r).body[s].t  BY <1>7, <5>2, GivenFacts
        <5>4. s \in DOMAIN p[i].body  BY DEF ReturnsIn
        <5> QED  BY <1>7, <5>3, <5>4, GivenFacts
      <4> QED  BY <4>1, <4>2
    <3>2. PICK s \in ReturnsIn(p, i) : Said(p, i, s, r) = x[i]  BY <3>1
    <3>3. s \in DOMAIN p[i].body  BY DEF ReturnsIn
    <3>4. Said(p, i, s, x) = x[i]  BY <1>7, <1>10, <2>4, <3>2, <3>3, SaidStays
    <3> QED  BY <2>4, <3>2, <3>4 DEF Founded
  <2> QED  BY <2>1, <2>2, <2>3, <2>4 DEF Founded
<1>12. Good(m)  BY <1>11 DEF x
<1> QED  BY <1>3, <1>12

(* The functions that have a result after a round.                         *)
Resulting(p, n) == {i \in DOMAIN p : Rounds(p)[n][i] # NoType}

LEMMA ResultsJoin ==
  ASSUME NEW p, Read(p), NEW n \in 1 .. Len(p), NEW i \in Resulting(p, n), i \notin Resulting(p, n - 1)
  PROVE  /\ i \in DOMAIN p /\ p[i].ret = NoType
         /\ \/ ReturnsIn(p, i) = {}
            \/ \E s \in ReturnsIn(p, i) : Said(p, i, s, Rounds(p)[n - 1]) # NoType
<1>1. Len(p) \in Nat /\ i \in DOMAIN p  BY DEF Read, Resulting
<1>2. n - 1 \in 0 .. Len(p)  BY <1>1
<1> DEFINE r == Rounds(p)[n - 1]
<1>3. r \in Typings(p) /\ r[i] = NoType  BY <1>1, <1>2, RoundTypes DEF Resulting
<1>4. p[i].ret = NoType
  <2>1. p[i].ret # NoType => r[i] = p[i].ret  BY <1>1, <1>2, RoundsFounded
  <2> QED  BY <1>3, <2>1
<1>5. Rounds(p)[n] = NextRound(p, r)  BY <1>1, RoundsAre
<1> HIDE DEF r
<1>6. Deduction(Given(p, i, r)) # NoType
  <2>1. Rounds(p)[n][i] = Deduction(Given(p, i, r))  BY <1>1, <1>3, <1>5, NextRoundTypes
  <2> QED  BY <2>1 DEF Resulting
<1>7. CASE ReturnsIn(p, i) # {}
  <2>1. Known(Given(p, i, r)) # {}  BY <1>1, <1>3, <1>6, <1>7, GivenFacts, DeducedFacts
  <2>2. \E s \in ReturnsIn(p, i) : Said(p, i, s, r) # NoType  BY <1>1, <1>3, <2>1, GivenFacts
  <2> QED  BY <1>1, <1>4, <2>2 DEF r
<1> QED  BY <1>1, <1>4, <1>7

LEMMA ResultsComplete ==
  ASSUME NEW p, Read(p),
         \A n \in 0 .. Len(p) - 1 : Resulting(p, n) # DOMAIN p => Resulting(p, n + 1) # Resulting(p, n)
  PROVE  Resulting(p, Len(p)) = DOMAIN p
<1> DEFINE N == Len(p)
           S(n) == Resulting(p, n)
           D == DOMAIN p
           Bad == {n \in 0 .. N : ~ (n <= Cardinality(S(n)))}
<1>1. N \in Nat /\ D = 1 .. N  BY DEF Read
<1>2. IsFiniteSet(D) /\ Cardinality(D) = N  BY <1>1, FS_Interval
<1>3. \A n \in 0 .. N : S(n) \subseteq D  BY DEF Resulting
<1>4. \A n \in 0 .. N : IsFiniteSet(S(n)) /\ Cardinality(S(n)) \in Nat
  BY <1>2, <1>3, FS_Subset, FS_CardinalityType
<1>5. \A n \in 0 .. N - 1 : S(n) \subseteq S(n + 1)
  <2> TAKE n \in 0 .. N - 1
  <2>1. n \in 0 .. N /\ n + 1 \in n .. N  BY <1>1
  <2>2. Extends(p, Rounds(p)[n], Rounds(p)[n + 1])  BY <2>1, RoundsGrow
  <2> QED  BY <2>2 DEF Extends, Resulting
<1>6. \A n \in 0 .. N - 1 : S(n) # D => S(n + 1) # S(n)  OBVIOUS
<1> HIDE DEF N, S, D
<1>7. Bad = {}
  <2> SUFFICES ASSUME Bad # {}  PROVE FALSE  OBVIOUS
  <2>1. PICK m \in Bad : \A n \in Bad : m <= n
    <3>1. Bad \in SUBSET Nat  BY <1>1
    <3> HIDE DEF Bad
    <3> QED  BY <3>1, LeastNatural
  <2>2. m \in 0 .. N /\ ~ (m <= Cardinality(S(m))) /\ m \in Nat  BY <1>1
  <2>3. m # 0  BY <1>1, <1>4, <2>2
  <2> DEFINE k == m - 1
  <2>4. k \in 0 .. N - 1 /\ k \in 0 .. N /\ m = k + 1 /\ ~ (m <= k)  BY <1>1, <2>2, <2>3
  <2>5. k <= Cardinality(S(k))  BY <2>1, <2>4
  <2> HIDE DEF k
  <2>6. CASE S(k) = D
    <3>1. S(m) = D
      <4>1. S(k) \subseteq S(k + 1)  BY <1>5, <2>4
      <4>2. S(k + 1) = S(m)  BY <2>4
      <4>3. S(m) \subseteq D  BY <1>3, <2>2
      <4> QED  BY <2>6, <4>1, <4>2, <4>3
    <3> QED  BY <1>1, <1>2, <2>2, <3>1
  <2>7. CASE S(k) # D
    <3>1. S(k) # S(m) /\ S(k) \subseteq S(m)  BY <1>5, <1>6, <2>4, <2>7
    <3>2. IsFiniteSet(S(m)) /\ Cardinality(S(m)) \in Nat /\ Cardinality(S(k)) \in Nat
      BY <1>4, <2>2, <2>4
    <3>3. Cardinality(S(k)) <= Cardinality(S(m)) /\ Cardinality(S(k)) # Cardinality(S(m))
      BY <3>1, <3>2, FS_Subset
    <3>4. ~ (k + 1 <= Cardinality(S(m)))  BY <2>2, <2>4
    <3>5. k \in Nat  BY <2>4, <1>1
    <3> QED  BY <2>5, <3>2, <3>3, <3>4, <3>5
  <2> QED  BY <2>6, <2>7
<1>8. N <= Cardinality(S(N))
  <2>1. N \in 0 .. N  BY <1>1
  <2> QED  BY <1>7, <2>1
<1>9. S(N) = D
  <2>1. N \in 0 .. N  BY <1>1
  <2>2. S(N) \subseteq D /\ Cardinality(S(N)) \in Nat  BY <1>3, <1>4, <2>1
  <2>3. Cardinality(S(N)) <= Cardinality(D)  BY <1>2, <2>2, FS_Subset
  <2>4. Cardinality(S(N)) = Cardinality(D)  BY <1>1, <1>2, <1>8, <2>2, <2>3
  <2> QED  BY <1>2, <2>2, <2>4, FS_Subset
<1> QED  BY <1>9 DEF N, S, D

(* The program of the compiler's state, and what it has of it.             *)
LEMMA SourceRead ==
  ASSUME TypeInv, Plain(Source)
  PROVE  /\ Read(Source) /\ Len(Source) = Len(funcs) /\ DOMAIN Source = DOMAIN funcs
         /\ \A i \in DOMAIN funcs :
              /\ Source[i].ret = funcs[i].ret /\ DOMAIN Source[i].body = DOMAIN funcs[i].body
              /\ ReturnsIn(Source, i) = Returns(funcs[i])
              /\ \A s \in DOMAIN funcs[i].body : /\ Source[i].body[s].fn = funcs[i].body[s].fn
                                                 /\ Source[i].body[s].ret = funcs[i].body[s].ret
<1>1. Clear  BY PlainClear
<1>2. Len(funcs) \in Nat /\ DOMAIN funcs = 1 .. Len(funcs)  BY NamedFacts
<1>3. /\ DOMAIN Source = DOMAIN funcs
      /\ \A i \in DOMAIN funcs :
           /\ Source[i].ret = funcs[i].ret /\ DOMAIN Source[i].body = DOMAIN funcs[i].body
           /\ \A s \in DOMAIN funcs[i].body : /\ Source[i].body[s].fn = funcs[i].body[s].fn
                                              /\ Source[i].body[s].ret = funcs[i].body[s].ret
  BY SourceFields
<1>4. Len(Source) = Len(funcs)
  <2>1. Source = [i \in 1 .. Len(funcs) |-> Text(funcs[i])]  BY <1>2, SourceFields
  <2> QED  BY <1>2, <2>1
<1>5. ASSUME NEW i \in DOMAIN funcs
      PROVE  /\ Source[i].ret \in Types \cup {NoType}
             /\ Len(Source[i].body) \in Nat /\ DOMAIN Source[i].body = 1 .. Len(Source[i].body)
  <2>1. funcs[i] \in Function  BY FuncsFacts DEF TypeInv
  <2>2. Len(funcs[i].body) \in Nat /\ DOMAIN funcs[i].body = 1 .. Len(funcs[i].body)
        /\ funcs[i].ret \in Types \cup {NoType}
    BY <2>1, FunctionFields
  <2>3. Source[i].body = [s \in 1 .. Len(funcs[i].body) |-> TextOfStatement(funcs[i].body[s], funcs[i])]
    BY <2>2, SourceFields DEF Text, TextOfBody
  <2>4. Len(Source[i].body) = Len(funcs[i].body)  BY <2>2, <2>3
  <2> QED  BY <1>3, <2>2, <2>4
<1>6. ASSUME NEW i \in DOMAIN funcs, NEW s \in DOMAIN funcs[i].body
      PROVE  /\ ValueOf(Source[i].body[s].args) \in Types
             /\ Target(Source, Source[i].body[s]) \in DOMAIN funcs \cup {0}
  <2>1. /\ DOMAIN Words(i, s) = 1 .. Len(Words(i, s)) /\ Len(Words(i, s)) \in Nat
        /\ TypedArgs(Words(i, s))
        /\ \A k \in DOMAIN Words(i, s) : Words(i, s)[k].t \in Types
    BY <1>1, WordsFacts
  <2>2. ValueOf(Words(i, s)) \in Types
    <3>1. Words(i, s) \in Seq(Arg)  BY <2>1 DEF TypedArgs
    <3>2. CASE Words(i, s) = <<>>  BY <3>2, TypesAssumption DEF ValueOf
    <3>3. CASE Words(i, s) # <<>>
      <4>1. 1 \in DOMAIN Words(i, s)  BY <3>1, <3>3
      <4> QED  BY <2>1, <3>3, <4>1 DEF ValueOf
    <3> QED  BY <3>2, <3>3
  <2>3. T(i, s) # 0 => T(i, s) \in DOMAIN funcs
    <3>1. T(i, s) # 0 => T(i, s) \in Named(funcs[i].body[s].fn)  BY TargetFacts DEF Takers
    <3> QED  BY <3>1 DEF Named
  <2> QED  BY <2>2, <2>3 DEF Words, T
<1>7. \A i \in DOMAIN funcs : ReturnsIn(Source, i) = Returns(funcs[i])
  BY <1>3 DEF ReturnsIn, Returns
<1>8. Read(Source)
  <2>1. Len(Source) \in Nat /\ DOMAIN Source = 1 .. Len(Source)  BY <1>2, <1>3, <1>4
  <2>2. \A i \in DOMAIN Source : \A s \in DOMAIN Source[i].body :
          /\ ValueOf(Source[i].body[s].args) \in Types
          /\ Target(Source, Source[i].body[s]) \in DOMAIN Source \cup {0}
    BY <1>3, <1>6
  <2>3. \A i \in DOMAIN Source :
          /\ Source[i].ret \in Types \cup {NoType}
          /\ Len(Source[i].body) \in Nat /\ DOMAIN Source[i].body = 1 .. Len(Source[i].body)
    BY <1>3, <1>5
  <2> QED  BY <2>1, <2>2, <2>3 DEF Read
<1> QED  BY <1>3, <1>4, <1>7, <1>8

LEMMA SameAnswers ==
  ASSUME NEW f, NEW g, g.ret = f.ret, DOMAIN g.body = DOMAIN f.body,
         \A s \in DOMAIN f.body : g.body[s].ret = f.body[s].ret /\ g.body[s].t = f.body[s].t
  PROVE  /\ Returns(g) = Returns(f) /\ Known(g) = Known(f)
         /\ GoTogether(g) <=> GoTogether(f)
         /\ BadResult(g) <=> BadResult(f)
<1>1. Returns(g) = Returns(f)  BY DEF Returns
<1>2. \A s \in Returns(f) : g.body[s].t = f.body[s].t  BY DEF Returns
<1>3. Known(g) = Known(f)  BY <1>1, <1>2 DEF Known
<1>4. Known(f) \subseteq Returns(f)  BY DEF Known
<1>5. GoTogether(g) <=> GoTogether(f)  BY <1>2, <1>3, <1>4 DEF GoTogether
<1>6. BadResult(g) <=> BadResult(f)  BY <1>1, <1>2, <1>5 DEF BadResult
<1> QED  BY <1>1, <1>3, <1>5, <1>6

-----------------------------------------------------------------------------
(* What is accepted is well typed: the results the compiler has, and they  *)
(* are those of the rounds.                                                *)
Answers == [i \in DOMAIN funcs |-> funcs[i].result]

EachTyped == \A i \in DOMAIN funcs : funcs[i].typed

Settles ==
  /\ \A i \in DOMAIN funcs : ~ BadResult(funcs[i]) /\ Unmixed(funcs[i])
  /\ \A i \in DOMAIN funcs : TypedTo(funcs[i], Len(funcs[i].body))

LEMMA BodyFine ==
  ASSUME TypeInv, NEW i \in DOMAIN funcs
  PROVE  BodyOK(funcs[i])
<1>1. funcs[i] \in Function  BY FuncsFacts DEF TypeInv
<1>2. /\ Len(funcs[i].body) \in Nat /\ DOMAIN funcs[i].body = 1 .. Len(funcs[i].body)
      /\ \A s \in DOMAIN funcs[i].body : funcs[i].body[s] \in Statement
  BY <1>1, FunctionFields
<1>3. \A s \in DOMAIN funcs[i].body : funcs[i].body[s].t \in Types \cup {NoType}
  BY <1>2, StatementFields
<1> QED  BY <1>2, <1>3 DEF BodyOK

LEMMA AnswersFacts ==
  ASSUME TypeInv, Plain(Source), SaysInv, EachTyped
  PROVE  /\ Answers \in Typings(Source)
         /\ \A i \in DOMAIN funcs : Answers[i] = funcs[i].result /\ Answers[i] # NoType
         /\ \A i \in DOMAIN funcs : \A s \in DOMAIN funcs[i].body :
              funcs[i].body[s].t # NoType => Said(Source, i, s, Answers) = funcs[i].body[s].t
<1>1. /\ Read(Source) /\ DOMAIN Source = DOMAIN funcs
      /\ \A i \in DOMAIN funcs :
           /\ DOMAIN Source[i].body = DOMAIN funcs[i].body
           /\ \A s \in DOMAIN funcs[i].body : Source[i].body[s].fn = funcs[i].body[s].fn
  BY SourceRead
<1>2. ASSUME NEW i \in DOMAIN funcs
      PROVE  funcs[i].result \in Types \cup {NoType} /\ funcs[i].result # NoType
  <2>1. funcs[i] \in Function /\ GoodFunction(funcs[i])  BY FuncsFacts DEF TypeInv
  <2>2. funcs[i].result \in Types \cup {NoType}  BY <2>1, FunctionFields
  <2>3. funcs[i].result # NoType  BY <2>1 DEF GoodFunction, EachTyped
  <2> QED  BY <2>2, <2>3
<1>3. Answers \in Typings(Source)  BY <1>1, <1>2 DEF Answers, Typings
<1>4. \A i \in DOMAIN funcs : Answers[i] = funcs[i].result /\ Answers[i] # NoType
  BY <1>2 DEF Answers
<1>5. ASSUME NEW i \in DOMAIN funcs, NEW s \in DOMAIN funcs[i].body, funcs[i].body[s].t # NoType
      PROVE  Said(Source, i, s, Answers) = funcs[i].body[s].t
  <2>1. i \in DOMAIN Source /\ s \in DOMAIN Source[i].body  BY <1>1
  <2>2. /\ Source[i].body[s].fn = NoFunc => Said(Source, i, s, Answers) = ValueOf(Source[i].body[s].args)
        /\ Source[i].body[s].fn # NoFunc =>
             LET g == Target(Source, Source[i].body[s]) IN
             Said(Source, i, s, Answers) = IF g = 0 THEN NoType ELSE Answers[g]
    BY <1>1, <1>3, <2>1, SaidFacts
  <2>3. CASE funcs[i].body[s].fn = NoFunc
    <3>1. funcs[i].body[s].t = ValueOf(Words(i, s))  BY <1>5, <2>3 DEF SaysInv
    <3> QED  BY <1>1, <2>2, <2>3, <3>1 DEF Words
  <2>4. CASE funcs[i].body[s].fn # NoFunc
    <3>1. T(i, s) # 0 /\ T(i, s) \in DOMAIN funcs /\ funcs[i].body[s].t = funcs[T(i, s)].result
      BY <1>5, <2>4 DEF SaysInv
    <3>2. Said(Source, i, s, Answers) = Answers[T(i, s)]  BY <1>1, <2>2, <2>4, <3>1 DEF T
    <3> QED  BY <1>4, <3>1, <3>2
  <2> QED  BY <2>3, <2>4
<1> QED  BY <1>3, <1>4, <1>5

(* All the returns of a deduced function give its result.                  *)
LEMMA OneAnswer ==
  ASSUME TypeInv, Plain(Source), FoundInv, EachTyped, Settles,
         NEW i \in DOMAIN funcs, funcs[i].ret = NoType
  PROVE  \A s \in Returns(funcs[i]) : funcs[i].body[s].t # NoType /\ funcs[i].body[s].t = funcs[i].result
<1>1. BodyOK(funcs[i])  BY BodyFine
<1>2. Returns(funcs[i]) \subseteq DOMAIN funcs[i].body  BY DEF Returns
<1>3. \A s \in DOMAIN funcs[i].body : funcs[i].body[s].t # NoType
  <2>1. funcs[i] \in Function  BY FuncsFacts DEF TypeInv
  <2>2. Len(funcs[i].body) \in Nat /\ DOMAIN funcs[i].body = 1 .. Len(funcs[i].body)  BY <2>1, FunctionFields
  <2> QED  BY <2>2 DEF Settles, TypedTo
<1>4. Known(funcs[i]) = Returns(funcs[i])  BY <1>2, <1>3 DEF Known
<1>5. GoTogether(funcs[i])  BY DEF Settles, BadResult
<1>6. \A r, s \in Known(funcs[i]) :
        Assignable(funcs[i].body[r].t, funcs[i].body[s].t) => funcs[i].body[r].t = funcs[i].body[s].t
  BY DEF Settles, Unmixed
<1>7. \A r, s \in Known(funcs[i]) : funcs[i].body[r].t = funcs[i].body[s].t
  BY <1>1, <1>5, <1>6, OneType
<1>8. Returns(funcs[i]) # {} => \E s \in Known(funcs[i]) : funcs[i].body[s].t = funcs[i].result
  BY DEF FoundInv, EachTyped
<1> QED  BY <1>2, <1>3, <1>4, <1>7, <1>8

LEMMA RoundsAnswer ==
  ASSUME TypeInv, Plain(Source), SaysInv, FoundInv, EachTyped, Settles
  PROVE  \A n \in 0 .. Len(Source) : Extends(Source, Rounds(Source)[n], Answers)
<1> DEFINE p == Source
           N == Len(p)
           R == Answers
           Bad == {n \in 0 .. N : ~ Extends(p, Rounds(p)[n], R)}
<1>1. /\ Read(p) /\ DOMAIN p = DOMAIN funcs
      /\ \A i \in DOMAIN funcs :
           /\ p[i].ret = funcs[i].ret /\ DOMAIN p[i].body = DOMAIN funcs[i].body
           /\ ReturnsIn(p, i) = Returns(funcs[i])
  BY SourceRead
<1>2. N \in Nat  BY <1>1 DEF Read
<1>3. R \in Typings(p) /\ \A i \in DOMAIN funcs : R[i] = funcs[i].result  BY AnswersFacts
<1>4. \A i \in DOMAIN funcs : \A s \in DOMAIN funcs[i].body :
        funcs[i].body[s].t # NoType => Said(p, i, s, R) = funcs[i].body[s].t
  BY AnswersFacts
<1>5. \A i \in DOMAIN p : p[i].ret # NoType => R[i] = p[i].ret
  BY <1>1, <1>3 DEF FoundInv, EachTyped
<1>6. \A i \in DOMAIN p : p[i].ret = NoType /\ ReturnsIn(p, i) = {} => R[i] = "void"
  BY <1>1, <1>3 DEF FoundInv, EachTyped
<1>7. ASSUME NEW i \in DOMAIN p, p[i].ret = NoType, NEW s \in ReturnsIn(p, i)
      PROVE  Said(p, i, s, R) = R[i]
  <2>1. funcs[i].body[s].t # NoType /\ funcs[i].body[s].t = funcs[i].result  BY <1>1, <1>7, OneAnswer
  <2>2. s \in DOMAIN funcs[i].body  BY <1>1, <1>7 DEF Returns
  <2> QED  BY <1>1, <1>3, <1>4, <2>1, <2>2
<1>8. Rounds(p)[0] = Declarations(p) /\ \A n \in 1 .. N : Rounds(p)[n] = NextRound(p, Rounds(p)[n - 1])
  BY <1>2, RoundsAre
<1> HIDE DEF p, N, R
<1>9. Extends(p, Rounds(p)[0], R)
  <2>1. \A i \in DOMAIN p : Declarations(p)[i] = p[i].ret  BY DEF Declarations
  <2> QED  BY <1>5, <1>8, <2>1 DEF Extends
<1>10. ASSUME NEW n \in 1 .. N, Extends(p, Rounds(p)[n - 1], R)
       PROVE  Extends(p, Rounds(p)[n], R)
  <2> DEFINE r == Rounds(p)[n - 1]
  <2>1. n - 1 \in 0 .. N  BY <1>2
  <2>2. r \in Typings(p)  BY <1>1, <2>1, RoundTypes DEF N
  <2>3. Rounds(p)[n] = NextRound(p, r)  BY <1>8
  <2>4. \A i \in DOMAIN p : p[i].ret # NoType => r[i] = p[i].ret  BY <1>1, <2>1, RoundsFounded DEF N
  <2>5. Extends(p, r, R)  BY <1>10
  <2> HIDE DEF r
  <2>6. ASSUME NEW i \in DOMAIN p, NextRound(p, r)[i] # NoType
        PROVE  R[i] = NextRound(p, r)[i]
    <3>1. CASE r[i] # NoType
      <4>1. NextRound(p, r)[i] = r[i]  BY <1>1, <2>2, <3>1, NextRoundTypes
      <4> QED  BY <2>5, <3>1, <4>1 DEF Extends
    <3>2. CASE r[i] = NoType
      <4>1. NextRound(p, r)[i] = Deduction(Given(p, i, r))  BY <1>1, <2>2, <3>2, NextRoundTypes
      <4>2. p[i].ret = NoType  BY <2>4, <3>2
      <4>3. LET f == Given(p, i, r)
            IN /\ BodyOK(f) /\ Returns(f) = ReturnsIn(p, i)
               /\ \A s \in DOMAIN p[i].body : f.body[s].t = Said(p, i, s, r)
               /\ Known(f) = {s \in ReturnsIn(p, i) : Said(p, i, s, r) # NoType}
        BY <1>1, <2>2, GivenFacts
      <4>4. CASE ReturnsIn(p, i) = {}
        <5>1. Deduction(Given(p, i, r)) = "void"  BY <4>3, <4>4, DeducedFacts
        <5> QED  BY <1>6, <4>1, <4>2, <4>4, <5>1
      <4>5. CASE ReturnsIn(p, i) # {}
        <5>1. PICK s \in Known(Given(p, i, r)) : Deduction(Given(p, i, r)) = Given(p, i, r).body[s].t
          BY <2>6, <4>1, <4>3, <4>5, DeducedFacts
        <5>2. s \in ReturnsIn(p, i) /\ Said(p, i, s, r) # NoType  BY <4>3, <5>1
        <5>3. s \in DOMAIN p[i].body  BY <5>2 DEF ReturnsIn
        <5>4. Said(p, i, s, R) = Said(p, i, s, r)  BY <1>1, <1>3, <2>2, <2>5, <5>2, <5>3, SaidStays DEF p, R
        <5>5. Said(p, i, s, R) = R[i]  BY <1>7, <4>2, <5>2
        <5> QED  BY <4>1, <4>3, <5>1, <5>3, <5>4, <5>5
      <4> QED  BY <4>4, <4>5
    <3> QED  BY <3>1, <3>2
  <2> QED  BY <2>3, <2>6 DEF Extends
<1>11. Bad = {}
  <2> SUFFICES ASSUME Bad # {}  PROVE FALSE  OBVIOUS
  <2>1. PICK m \in Bad : \A n \in Bad : m <= n
    <3>1. Bad \in SUBSET Nat  BY <1>2
    <3> HIDE DEF Bad
    <3> QED  BY <3>1, LeastNatural
  <2>2. m \in 0 .. N /\ ~ Extends(p, Rounds(p)[m], R)  OBVIOUS
  <2>3. m # 0  BY <1>9, <2>2
  <2>4. m \in 1 .. N /\ m - 1 \in 0 .. N /\ ~ (m <= m - 1)  BY <1>2, <2>2, <2>3
  <2>5. Extends(p, Rounds(p)[m - 1], R)  BY <2>1, <2>4
  <2> QED  BY <1>10, <2>2, <2>4, <2>5
<1>12. \A n \in 0 .. N : Extends(p, Rounds(p)[n], R)  BY <1>11
<1> QED  BY <1>12 DEF p, N, R

(* A round in which not all have a result gives one to another: of those   *)
(* without, one returns what is known.                                     *)
LEMMA RoundsGoOn ==
  ASSUME TypeInv, Plain(Source), SaysInv, FoundInv, GroundInv, EachTyped, Settles,
         NEW n \in 0 .. Len(Source) - 1, Resulting(Source, n) # DOMAIN Source
  PROVE  Resulting(Source, n + 1) # Resulting(Source, n)
<1> DEFINE p == Source
           r == Rounds(p)[n]
           R == Answers
           X == DOMAIN p \ Resulting(p, n)
<1>1. /\ Read(p) /\ DOMAIN p = DOMAIN funcs
      /\ \A i \in DOMAIN funcs :
           /\ p[i].ret = funcs[i].ret /\ DOMAIN p[i].body = DOMAIN funcs[i].body
           /\ ReturnsIn(p, i) = Returns(funcs[i])
           /\ \A s \in DOMAIN funcs[i].body : p[i].body[s].fn = funcs[i].body[s].fn
  BY SourceRead
<1>2. Len(p) \in Nat /\ n \in 0 .. Len(p) /\ n + 1 \in 1 .. Len(p) /\ n + 1 \in 0 .. Len(p) /\ (n + 1) - 1 = n
  <2>1. Len(p) \in Nat  BY <1>1 DEF Read
  <2> QED  BY <2>1
<1>3. R \in Typings(p) /\ \A i \in DOMAIN funcs : R[i] = funcs[i].result  BY AnswersFacts
<1>4. \A i \in DOMAIN funcs : \A s \in DOMAIN funcs[i].body :
        funcs[i].body[s].t # NoType => Said(p, i, s, R) = funcs[i].body[s].t
  BY AnswersFacts
<1>5. r \in Typings(p)  BY <1>1, <1>2, RoundTypes
<1>6. Extends(p, r, R)  BY <1>2, RoundsAnswer
<1>7. Rounds(p)[n + 1] = NextRound(p, r)  BY <1>2, RoundsAre
<1>8. \A i \in DOMAIN p : p[i].ret # NoType => r[i] = p[i].ret  BY <1>1, <1>2, RoundsFounded
<1>9. Resulting(p, n) = {i \in DOMAIN p : r[i] # NoType}  BY DEF Resulting
<1>10. Resulting(p, n + 1) = {i \in DOMAIN p : NextRound(p, r)[i] # NoType}  BY <1>7 DEF Resulting
<1>11. X # {} /\ X \in SUBSET TypedFuncs  BY <1>1, <1>9 DEF TypedFuncs, EachTyped
<1>12. PICK i \in X : Based(i) \/ LeadsOut(i, X)  BY <1>11 DEF GroundInv
<1>13. i \in DOMAIN p /\ r[i] = NoType  BY <1>9
<1>14. p[i].ret = NoType /\ funcs[i].ret = NoType  BY <1>1, <1>8, <1>13
<1>15. NextRound(p, r)[i] = Deduction(Given(p, i, r))  BY <1>1, <1>5, <1>13, NextRoundTypes
<1>16. LET f == Given(p, i, r)
       IN /\ BodyOK(f) /\ Returns(f) = ReturnsIn(p, i)
          /\ \A s \in DOMAIN p[i].body : f.body[s].t = Said(p, i, s, r)
          /\ Known(f) = {s \in ReturnsIn(p, i) : Said(p, i, s, r) # NoType}
  BY <1>1, <1>5, <1>13, GivenFacts
<1>17. ReturnsIn(p, i) = Returns(funcs[i]) /\ Returns(funcs[i]) \subseteq DOMAIN p[i].body
  BY <1>1, <1>13 DEF Returns
<1>18. CASE ReturnsIn(p, i) = {}
  <2>1. Deduction(Given(p, i, r)) = "void"  BY <1>16, <1>18, DeducedFacts
  <2>2. "void" # NoType  BY TypesAssumption
  <2> QED  BY <1>9, <1>10, <1>13, <1>15, <2>1, <2>2
<1>19. CASE ReturnsIn(p, i) # {}
  <2>1. PICK s \in ReturnsIn(p, i) : Said(p, i, s, r) # NoType
    <3>1. CASE \E s \in Returns(funcs[i]) : funcs[i].body[s].fn = NoFunc
      <4>1. PICK s \in Returns(funcs[i]) : funcs[i].body[s].fn = NoFunc  BY <3>1
      <4>2. s \in DOMAIN p[i].body /\ p[i].body[s].fn = NoFunc  BY <1>1, <1>13, <1>17, <4>1
      <4>3. Said(p, i, s, r) = ValueOf(p[i].body[s].args)  BY <1>1, <1>5, <1>13, <4>2, SaidFacts
      <4>4. ValueOf(p[i].body[s].args) \in Types  BY <1>1, <1>13, <4>2 DEF Read
      <4> QED  BY <1>17, <4>1, <4>3, <4>4, TypesAssumption
    <3>2. CASE LeadsOut(i, X)
      <4>1. PICK s \in Returns(funcs[i]) :
              funcs[i].body[s].fn # NoFunc /\ T(i, s) \in TypedFuncs /\ T(i, s) \notin X
        BY <3>2 DEF LeadsOut
      <4>2. s \in DOMAIN p[i].body /\ p[i].body[s].fn # NoFunc  BY <1>1, <1>13, <1>17, <4>1
      <4>3. LET g == Target(p, p[i].body[s]) IN
            Said(p, i, s, r) = IF g = 0 THEN NoType ELSE r[g]
        BY <1>1, <1>5, <1>13, <4>2, SaidFacts
      <4>4. T(i, s) = Target(p, p[i].body[s])  BY DEF T
      <4>5. T(i, s) \in DOMAIN funcs /\ T(i, s) # 0  BY <1>1, <4>1 DEF TypedFuncs, Read
      <4>6. r[T(i, s)] # NoType  BY <1>1, <1>9, <4>1, <4>5
      <4> QED  BY <1>17, <4>1, <4>3, <4>4, <4>5, <4>6
    <3>3. (\E s \in Returns(funcs[i]) : funcs[i].body[s].fn = NoFunc) \/ LeadsOut(i, X)
      BY <1>12, <1>14, <1>17, <1>19 DEF Based
    <3> QED  BY <3>1, <3>2, <3>3
  <2>2. \A q \in ReturnsIn(p, i) : Said(p, i, q, r) # NoType => Said(p, i, q, r) = R[i]
    <3> TAKE q \in ReturnsIn(p, i)
    <3> HAVE Said(p, i, q, r) # NoType
    <3>1. q \in DOMAIN p[i].body /\ q \in DOMAIN funcs[i].body  BY <1>1, <1>13, <1>17
    <3>2. Said(p, i, q, R) = Said(p, i, q, r)
      <4> HIDE DEF r, R, p
      <4> QED  BY <1>1, <1>3, <1>5, <1>6, <1>13, <3>1, SaidStays
    <3>3. funcs[i].body[q].t # NoType /\ funcs[i].body[q].t = funcs[i].result
      BY <1>1, <1>13, <1>14, <1>17, OneAnswer
    <3>4. Said(p, i, q, R) = funcs[i].body[q].t  BY <1>1, <1>4, <1>13, <3>1, <3>3
    <3>5. R[i] = funcs[i].result  BY <1>1, <1>3, <1>13
    <3> QED  BY <3>2, <3>3, <3>4, <3>5
  <2>3. s \in Known(Given(p, i, r))  BY <1>16, <2>1
  <2>4. \A q, v \in Known(Given(p, i, r)) : Given(p, i, r).body[q].t = Given(p, i, r).body[v].t
    <3>1. \A q \in Known(Given(p, i, r)) : Given(p, i, r).body[q].t = R[i]
      BY <1>16, <1>17, <2>2
    <3> QED  BY <3>1
  <2>5. GoTogether(Given(p, i, r))  BY <1>16, <2>4, AllTogether
  <2>6. Deduction(Given(p, i, r)) # NoType  BY <1>16, <2>3, <2>5, DeducedFacts
  <2> QED  BY <1>9, <1>10, <1>13, <1>15, <2>6
<1> QED  BY <1>18, <1>19

LEMMA ResultsAnswer ==
  ASSUME TypeInv, Plain(Source), SaysInv, FoundInv, GroundInv, EachTyped, Settles
  PROVE  Results(Source) = Answers
<1> DEFINE p == Source
           N == Len(p)
<1>1. Read(p) /\ DOMAIN p = DOMAIN funcs  BY SourceRead
<1>2. N \in Nat /\ N \in 0 .. N  BY <1>1 DEF Read
<1>3. \A n \in 0 .. N - 1 : Resulting(p, n) # DOMAIN p => Resulting(p, n + 1) # Resulting(p, n)
  BY RoundsGoOn
<1>4. Resulting(p, N) = DOMAIN p  BY <1>1, <1>3, ResultsComplete
<1>5. Extends(p, Rounds(p)[N], Answers)  BY <1>2, RoundsAnswer
<1>6. Rounds(p)[N] \in Typings(p)  BY <1>1, <1>2, RoundTypes
<1>7. Answers \in Typings(p)  BY AnswersFacts
<1> HIDE DEF p, N
<1>8. \A i \in DOMAIN p : Answers[i] = Rounds(p)[N][i]  BY <1>4, <1>5 DEF Extends, Resulting
<1>9. Rounds(p)[N] = Answers  BY <1>6, <1>7, <1>8 DEF Typings
<1> QED  BY <1>9 DEF p, N, Results

LEMMA AcceptedTyped ==
  ASSUME TypeInv, Plain(Source), SaysInv, FoundInv, GroundInv, EachTyped, Settles
  PROVE  WellTyped(Source)
<1>1. /\ Read(Source) /\ DOMAIN Source = DOMAIN funcs
      /\ \A i \in DOMAIN funcs :
           /\ Source[i].ret = funcs[i].ret /\ DOMAIN Source[i].body = DOMAIN funcs[i].body
           /\ \A s \in DOMAIN funcs[i].body : /\ Source[i].body[s].fn = funcs[i].body[s].fn
                                              /\ Source[i].body[s].ret = funcs[i].body[s].ret
  BY SourceRead
<1>2. Results(Source) = Answers  BY ResultsAnswer
<1>3. /\ Answers \in Typings(Source)
      /\ \A i \in DOMAIN funcs : Answers[i] # NoType
      /\ \A i \in DOMAIN funcs : \A s \in DOMAIN funcs[i].body :
           funcs[i].body[s].t # NoType => Said(Source, i, s, Answers) = funcs[i].body[s].t
  BY AnswersFacts
<1>4. \A i \in DOMAIN funcs : \A s \in DOMAIN funcs[i].body : funcs[i].body[s].t # NoType
  <2> TAKE i \in DOMAIN funcs
  <2>1. funcs[i] \in Function  BY FuncsFacts DEF TypeInv
  <2>2. Len(funcs[i].body) \in Nat /\ DOMAIN funcs[i].body = 1 .. Len(funcs[i].body)  BY <2>1, FunctionFields
  <2> QED  BY <2>2 DEF Settles, TypedTo
<1>5. ASSUME NEW i \in DOMAIN funcs
      PROVE  /\ \A s \in DOMAIN Source[i].body : Source[i].body[s].fn # NoFunc => Target(Source, Source[i].body[s]) # 0
             /\ Answers[i] # NoType /\ ~ BadResult(Given(Source, i, Answers))
  <2>1. \A s \in DOMAIN funcs[i].body : funcs[i].body[s].fn # NoFunc => T(i, s) # 0
    BY <1>4 DEF SaysInv
  <2>2. LET g == Given(Source, i, Answers)
        IN /\ g.ret = Source[i].ret /\ DOMAIN g.body = DOMAIN Source[i].body
           /\ \A s \in DOMAIN Source[i].body : /\ g.body[s].ret = Source[i].body[s].ret
                                               /\ g.body[s].t = Said(Source, i, s, Answers)
    BY <1>1, <1>3, GivenFacts
  <2>3. LET g == Given(Source, i, Answers)
        IN /\ g.ret = funcs[i].ret /\ DOMAIN g.body = DOMAIN funcs[i].body
           /\ \A s \in DOMAIN funcs[i].body : g.body[s].ret = funcs[i].body[s].ret /\ g.body[s].t = funcs[i].body[s].t
    BY <1>1, <1>3, <1>4, <2>2
  <2>4. BadResult(Given(Source, i, Answers)) <=> BadResult(funcs[i])  BY <2>3, SameAnswers
  <2>5. ~ BadResult(Given(Source, i, Answers))  BY <2>4 DEF Settles
  <2> QED  BY <1>1, <1>3, <2>1, <2>5 DEF T
<1> QED  BY <1>1, <1>2, <1>5 DEF WellTyped

-----------------------------------------------------------------------------
(* What is well typed is accepted: the walks of the compiler keep up with  *)
(* the rounds, and no result is another than theirs.                       *)
Rightful(p) == WellTyped(p) /\ \A i \in DOMAIN p : Unmixed(Given(p, i, Results(p)))

Right == Plain(Source) /\ Rightful(Source) /\ Len(funcs) < PassLimit

LEMMA RightBefore ==
  ASSUME TypeInv, CallsInv, FileInv, [Next]_vars, Right'
  PROVE  PlainStep /\ Right
<1>1. Plain(Source)'  BY DEF Right
<1>2. PlainStep  BY <1>1, PlainBefore
<1>3. Source' = Source /\ DOMAIN funcs' = DOMAIN funcs /\ Plain(Source)  BY <1>2 DEF PlainStep
<1>4. Rightful(Source)  BY <1>3 DEF Right
<1>5. Len(funcs) \in Nat /\ DOMAIN funcs = 1 .. Len(funcs)  BY NamedFacts
<1>6. Len(funcs') = Len(funcs)
  <2>1. funcs' \in Seq(Function)  BY <1>2 DEF PlainStep, WritingKept, HeadsKept
  <2>2. Len(funcs') \in Nat /\ DOMAIN funcs' = 1 .. Len(funcs')  BY <2>1
  <2> QED  BY <1>3, <1>5, <2>2
<1>7. Len(funcs) < PassLimit
  <2>1. Len(funcs') < PassLimit  BY DEF Right
  <2> QED  BY <1>6, <2>1
<1> QED  BY <1>2, <1>3, <1>4, <1>7 DEF Right

LEMMA RightResults ==
  ASSUME NEW p, Read(p), Rightful(p)
  PROVE  /\ Results(p) \in Typings(p)
         /\ \A i \in DOMAIN p :
              /\ Results(p)[i] # NoType /\ ~ BadResult(Given(p, i, Results(p)))
              /\ \A s \in DOMAIN p[i].body :
                   /\ p[i].body[s].fn # NoFunc => Target(p, p[i].body[s]) \in DOMAIN p
                   /\ Said(p, i, s, Results(p)) # NoType
              /\ p[i].ret # NoType => Results(p)[i] = p[i].ret
              /\ p[i].ret = NoType /\ ReturnsIn(p, i) = {} => Results(p)[i] = "void"
              /\ p[i].ret = NoType => \A s \in ReturnsIn(p, i) : Said(p, i, s, Results(p)) = Results(p)[i]
<1> DEFINE R == Results(p)
<1>1. Len(p) \in Nat /\ Len(p) \in 0 .. Len(p)  BY DEF Read
<1>2. R \in Typings(p)  BY <1>1, RoundTypes DEF Results
<1>3. \A i \in DOMAIN p : /\ Founded(p, R, i)
                          /\ p[i].ret # NoType => R[i] = p[i].ret
  BY <1>1, RoundsFounded DEF Results
<1>4. \A i \in DOMAIN p :
        /\ \A s \in DOMAIN p[i].body : p[i].body[s].fn # NoFunc => Target(p, p[i].body[s]) # 0
        /\ R[i] # NoType /\ ~ BadResult(Given(p, i, R))
  BY DEF Rightful, WellTyped
<1>5. \A i \in DOMAIN p : Unmixed(Given(p, i, R))  BY DEF Rightful
<1> HIDE DEF R
<1>6. \A i \in DOMAIN p : \A s \in DOMAIN p[i].body :
        p[i].body[s].fn # NoFunc => Target(p, p[i].body[s]) \in DOMAIN p
  BY <1>4 DEF Read
<1>7. \A i \in DOMAIN p : \A s \in DOMAIN p[i].body : Said(p, i, s, R) # NoType
  <2> TAKE i \in DOMAIN p
  <2> TAKE s \in DOMAIN p[i].body
  <2>1. /\ p[i].body[s].fn = NoFunc => Said(p, i, s, R) = ValueOf(p[i].body[s].args)
        /\ p[i].body[s].fn # NoFunc =>
             LET g == Target(p, p[i].body[s]) IN
             Said(p, i, s, R) = IF g = 0 THEN NoType ELSE R[g]
    BY <1>2, SaidFacts
  <2>2. p[i].body[s].fn = NoFunc => ValueOf(p[i].body[s].args) \in Types  BY DEF Read
  <2>3. CASE p[i].body[s].fn = NoFunc  BY <2>1, <2>2, <2>3, TypesAssumption
  <2>4. CASE p[i].body[s].fn # NoFunc  BY <1>4, <1>6, <2>1, <2>4
  <2> QED  BY <2>3, <2>4
<1>8. ASSUME NEW i \in DOMAIN p, p[i].ret = NoType
      PROVE  \A s \in ReturnsIn(p, i) : Said(p, i, s, R) = R[i]
  <2> DEFINE f == Given(p, i, R)
  <2>1. /\ BodyOK(f) /\ f.ret = p[i].ret
        /\ \A s \in DOMAIN p[i].body : f.body[s].t = Said(p, i, s, R)
        /\ Known(f) = {s \in ReturnsIn(p, i) : Said(p, i, s, R) # NoType}
    BY <1>2, GivenFacts
  <2>2. ReturnsIn(p, i) \subseteq DOMAIN p[i].body  BY DEF ReturnsIn
  <2>3. Known(f) = ReturnsIn(p, i)  BY <1>7, <2>1, <2>2
  <2>4. ~ BadResult(f) /\ Unmixed(f)  BY <1>4, <1>5
  <2> HIDE DEF f
  <2>5. GoTogether(f)  BY <1>8, <2>1, <2>4 DEF BadResult
  <2>6. \A r, s \in Known(f) : Assignable(f.body[r].t, f.body[s].t) => f.body[r].t = f.body[s].t
    BY <1>8, <2>1, <2>4 DEF Unmixed
  <2>7. \A r, s \in Known(f) : f.body[r].t = f.body[s].t  BY <2>1, <2>5, <2>6, OneType
  <2>8. \A r, s \in ReturnsIn(p, i) : Said(p, i, r, R) = Said(p, i, s, R)
    BY <2>1, <2>2, <2>3, <2>7
  <2>9. ReturnsIn(p, i) # {} => \E s \in ReturnsIn(p, i) : Said(p, i, s, R) = R[i]
    BY <1>3, <1>4, <1>8 DEF Founded
  <2> QED  BY <2>8, <2>9
<1>9. \A i \in DOMAIN p : p[i].ret = NoType /\ ReturnsIn(p, i) = {} => R[i] = "void"
  BY <1>3, <1>4 DEF Founded
<1> QED  BY <1>2, <1>3, <1>4, <1>6, <1>7, <1>8, <1>9 DEF R

AgreeInv == Right => \A i \in DOMAIN funcs : funcs[i].typed => funcs[i].result = Results(Source)[i]

LEMMA RightSource ==
  ASSUME TypeInv, Right
  PROVE  /\ Read(Source) /\ Rightful(Source) /\ Plain(Source)
         /\ DOMAIN Source = DOMAIN funcs /\ Len(Source) = Len(funcs)
         /\ \A i \in DOMAIN funcs :
              /\ Source[i].ret = funcs[i].ret /\ DOMAIN Source[i].body = DOMAIN funcs[i].body
              /\ ReturnsIn(Source, i) = Returns(funcs[i])
              /\ \A s \in DOMAIN funcs[i].body : /\ Source[i].body[s].fn = funcs[i].body[s].fn
                                                 /\ Source[i].body[s].ret = funcs[i].body[s].ret
BY SourceRead DEF Right

LEMMA SaidNow ==
  ASSUME TypeInv, Right, SaysInv, AgreeInv, NEW i \in DOMAIN funcs, NEW s \in DOMAIN funcs[i].body,
         funcs[i].body[s].t # NoType
  PROVE  Said(Source, i, s, Results(Source)) = funcs[i].body[s].t
<1> DEFINE R == Results(Source)
<1>1. /\ Read(Source) /\ Plain(Source) /\ DOMAIN Source = DOMAIN funcs
      /\ DOMAIN Source[i].body = DOMAIN funcs[i].body
      /\ Source[i].body[s].fn = funcs[i].body[s].fn
  BY RightSource
<1>2. R \in Typings(Source)  BY RightResults, RightSource
<1> HIDE DEF R
<1>3. /\ Source[i].body[s].fn = NoFunc => Said(Source, i, s, R) = ValueOf(Source[i].body[s].args)
      /\ Source[i].body[s].fn # NoFunc =>
           LET g == Target(Source, Source[i].body[s]) IN
           Said(Source, i, s, R) = IF g = 0 THEN NoType ELSE R[g]
  BY <1>1, <1>2, SaidFacts
<1>4. CASE funcs[i].body[s].fn = NoFunc
  <2>1. funcs[i].body[s].t = ValueOf(Words(i, s))  BY <1>1, <1>4 DEF SaysInv
  <2> QED  BY <1>1, <1>3, <1>4, <2>1 DEF Words, R
<1>5. CASE funcs[i].body[s].fn # NoFunc
  <2>1. /\ T(i, s) # 0 /\ T(i, s) \in DOMAIN funcs
        /\ funcs[T(i, s)].typed /\ funcs[i].body[s].t = funcs[T(i, s)].result
    BY <1>1, <1>5 DEF SaysInv
  <2>2. funcs[T(i, s)].result = R[T(i, s)]  BY <2>1 DEF AgreeInv, R
  <2>3. Said(Source, i, s, R) = R[T(i, s)]  BY <1>1, <1>3, <1>5, <2>1 DEF T
  <2> QED  BY <2>1, <2>2, <2>3 DEF R
<1> QED  BY <1>4, <1>5

(* What is known of the returns of a deduced function is its result.       *)
LEMMA KnownAgree ==
  ASSUME TypeInv, Right, SaysInv, AgreeInv, NEW i \in DOMAIN funcs, funcs[i].ret = NoType
  PROVE  \A s \in Known(funcs[i]) : funcs[i].body[s].t = Results(Source)[i]
<1> TAKE s \in Known(funcs[i])
<1>1. s \in Returns(funcs[i]) /\ s \in DOMAIN funcs[i].body /\ funcs[i].body[s].t # NoType
  BY DEF Known, Returns
<1>2. Said(Source, i, s, Results(Source)) = funcs[i].body[s].t  BY <1>1, SaidNow
<1>3. Read(Source) /\ Rightful(Source) /\ i \in DOMAIN Source /\ Source[i].ret = NoType /\ s \in ReturnsIn(Source, i)
  BY <1>1, RightSource
<1>4. Said(Source, i, s, Results(Source)) = Results(Source)[i]  BY <1>3, RightResults
<1> QED  BY <1>2, <1>4

LEMMA StepAgree ==
  ASSUME TypeInv, CallsInv, FileInv, SaysInv, AgreeInv, [Next]_vars
  PROVE  AgreeInv'
<1> SUFFICES ASSUME Right', NEW i \in DOMAIN funcs', (funcs')[i].typed
             PROVE  (funcs')[i].result = Results(Source')[i]
  BY DEF AgreeInv
<1>1. PlainStep /\ Right  BY RightBefore
<1>2. Source' = Source /\ i \in DOMAIN funcs  BY <1>1 DEF PlainStep
<1>3. \/ funcs[i].typed /\ (funcs')[i].result = funcs[i].result
      \/ ResultType(funcs[i]) # NoType /\ (funcs')[i].result = ResultType(funcs[i])
  BY <1>1, <1>2, TypingStep DEF WalkStep
<1>4. CASE funcs[i].typed /\ (funcs')[i].result = funcs[i].result
  BY <1>1, <1>2, <1>4 DEF AgreeInv
<1>5. CASE ResultType(funcs[i]) # NoType /\ (funcs')[i].result = ResultType(funcs[i])
  <2>1. IF funcs[i].ret # NoType THEN ResultType(funcs[i]) = funcs[i].ret
        ELSE IF Returns(funcs[i]) = {} THEN ResultType(funcs[i]) = "void"
        ELSE \E s \in Known(funcs[i]) : funcs[i].body[s].t = ResultType(funcs[i])
    BY <1>2, <1>5, ResultFound
  <2>2. /\ Read(Source) /\ Rightful(Source) /\ i \in DOMAIN Source
        /\ Source[i].ret = funcs[i].ret /\ ReturnsIn(Source, i) = Returns(funcs[i])
    BY <1>1, <1>2, RightSource
  <2>3. /\ funcs[i].ret # NoType => Results(Source)[i] = funcs[i].ret
        /\ funcs[i].ret = NoType /\ Returns(funcs[i]) = {} => Results(Source)[i] = "void"
    BY <2>2, RightResults
  <2>4. funcs[i].ret = NoType => \A s \in Known(funcs[i]) : funcs[i].body[s].t = Results(Source)[i]
    BY <1>1, <1>2, KnownAgree
  <2>5. ResultType(funcs[i]) = Results(Source)[i]  BY <2>1, <2>3, <2>4
  <2> QED  BY <1>2, <1>5, <2>5
<1> QED  BY <1>3, <1>4, <1>5

(* How far the walks are: when the n-th walk has passed a function that    *)
(* has its result after n rounds, it is typed.                             *)
ProgInv ==
  Right =>
    /\ pass = "resolve" => \A n \in 0 .. Len(Source) : \A i \in Resulting(Source, n) :
         n < sub \/ (n <= sub /\ i < next) => funcs[i].typed
    /\ pass \in {"check", "accepted", "rejected"} => EachTyped

LEMMA RightDeduces ==
  ASSUME TypeInv, Right, SaysInv, AgreeInv, NEW i \in DOMAIN funcs,
         funcs[i].ret # NoType \/ Returns(funcs[i]) = {} \/ Known(funcs[i]) # {}
  PROVE  ResultType(funcs[i]) # NoType
<1>1. BodyOK(funcs[i])  BY BodyFine
<1>2. CASE funcs[i].ret # NoType  BY <1>2 DEF ResultType
<1>3. CASE funcs[i].ret = NoType /\ Returns(funcs[i]) = {}
  <2>1. Deduction(funcs[i]) = "void"  BY <1>1, <1>3, DeducedFacts
  <2> QED  BY <1>3, <2>1, TypesAssumption DEF ResultType
<1>4. CASE funcs[i].ret = NoType /\ Known(funcs[i]) # {}
  <2>1. \A r, s \in Known(funcs[i]) : funcs[i].body[r].t = funcs[i].body[s].t  BY <1>4, KnownAgree
  <2>2. GoTogether(funcs[i])  BY <1>1, <2>1, AllTogether
  <2>3. Deduction(funcs[i]) # NoType  BY <1>1, <1>4, <2>2, DeducedFacts
  <2> QED  BY <1>4, <2>3 DEF ResultType
<1> QED  BY <1>2, <1>3, <1>4

LEMMA PassedSeen ==
  ASSUME TypeInv, Plain(Source), SeenInv, BodyDone, NEW s \in DOMAIN fun.body, Sayable(top.f, s)
  PROVE  fun.body[s].t # NoType
<1>1. Visiting /\ top.s > Len(fun.body)  BY DEF BodyDone
<1>2. top.f \in DOMAIN funcs /\ fun = funcs[top.f] /\ top.s \in Nat  BY <1>1, StackFacts DEF TypeInv, fun
<1>3. fun \in Function  BY <1>2, FuncsFacts DEF TypeInv
<1>4. Len(fun.body) \in Nat /\ DOMAIN fun.body = 1 .. Len(fun.body)  BY <1>3, FunctionFields
<1>5. s < top.s  BY <1>1, <1>2, <1>4
<1> QED  BY <1>1, <1>5 DEF SeenInv

LEMMA LeftTyped ==
  ASSUME WalkStep, Right, SaysInv, AgreeInv, SeenInv, ProgInv, FinishFunc, pass = "resolve", sub \in Nat,
         NEW n \in 0 .. Len(Source), next \in Resulting(Source, n), n <= sub
  PROVE  funcs[next].typed \/ ResultType(funcs[next]) # NoType
<1>1. TypeInv  BY DEF WalkStep
<1>2. BodyDone /\ Visiting  BY DEF FinishFunc, BodyDone
<1>3. top.f = next /\ next \in DOMAIN funcs /\ fun = funcs[next]  BY <1>2, WalkCases DEF fun
<1>4. /\ Read(Source) /\ Plain(Source) /\ DOMAIN Source = DOMAIN funcs
      /\ Source[next].ret = funcs[next].ret /\ DOMAIN Source[next].body = DOMAIN funcs[next].body
      /\ ReturnsIn(Source, next) = Returns(funcs[next])
      /\ \A s \in DOMAIN funcs[next].body : Source[next].body[s].fn = funcs[next].body[s].fn
  BY <1>1, <1>3, RightSource
<1>5. Len(Source) \in Nat  BY <1>4 DEF Read
<1>6. CASE n = 0
  <2>1. Rounds(Source)[0] = Declarations(Source)  BY <1>5, RoundsAre
  <2>2. Declarations(Source)[next] = Source[next].ret  BY <1>3, <1>4 DEF Declarations
  <2>3. funcs[next].ret # NoType  BY <1>4, <1>6, <2>1, <2>2 DEF Resulting
  <2> QED  BY <1>1, <1>3, <2>3, RightDeduces
<1>7. CASE n # 0
  <2>1. n \in 1 .. Len(Source) /\ n - 1 \in 0 .. Len(Source) /\ n - 1 < sub  BY <1>5, <1>7
  <2>2. \A i \in Resulting(Source, n - 1) : funcs[i].typed  BY <2>1 DEF ProgInv
  <2>3. CASE next \in Resulting(Source, n - 1)  BY <2>2, <2>3
  <2>4. CASE next \notin Resulting(Source, n - 1)
    <3>1. \/ ReturnsIn(Source, next) = {}
          \/ \E s \in ReturnsIn(Source, next) : Said(Source, next, s, Rounds(Source)[n - 1]) # NoType
      BY <1>4, <2>1, <2>4, ResultsJoin
    <3>2. CASE ReturnsIn(Source, next) = {}  BY <1>1, <1>3, <1>4, <3>2, RightDeduces
    <3>3. CASE \E s \in ReturnsIn(Source, next) : Said(Source, next, s, Rounds(Source)[n - 1]) # NoType
      <4>1. PICK s \in ReturnsIn(Source, next) : Said(Source, next, s, Rounds(Source)[n - 1]) # NoType
        BY <3>3
      <4>2. s \in Returns(funcs[next]) /\ s \in DOMAIN funcs[next].body /\ s \in DOMAIN Source[next].body
        BY <1>4, <4>1 DEF Returns
      <4>3. Rounds(Source)[n - 1] \in Typings(Source)  BY <1>4, <2>1, RoundTypes
      <4>4. Source[next].body[s].fn # NoFunc =>
              LET g == Target(Source, Source[next].body[s]) IN
              Said(Source, next, s, Rounds(Source)[n - 1]) = IF g = 0 THEN NoType ELSE Rounds(Source)[n - 1][g]
        BY <1>3, <1>4, <4>2, <4>3, SaidFacts
      <4>5. Sayable(next, s)
        <5>1. CASE funcs[next].body[s].fn = NoFunc  BY <5>1 DEF Sayable
        <5>2. CASE funcs[next].body[s].fn # NoFunc
          <6> DEFINE g == Target(Source, Source[next].body[s])
          <6>1. g # 0 /\ Rounds(Source)[n - 1][g] # NoType  BY <1>4, <4>1, <4>2, <4>4, <5>2
          <6>2. g \in DOMAIN Source  BY <1>3, <1>4, <4>2, <6>1 DEF Read
          <6>3. g \in Resulting(Source, n - 1)  BY <6>1, <6>2 DEF Resulting
          <6> HIDE DEF g
          <6>4. g \in DOMAIN funcs /\ funcs[g].typed  BY <1>4, <2>2, <6>2, <6>3
          <6> QED  BY <6>4 DEF Sayable, T, g
        <5> QED  BY <5>1, <5>2
      <4>6. funcs[next].body[s].t # NoType  BY <1>1, <1>2, <1>3, <1>4, <4>2, <4>5, PassedSeen
      <4>7. Known(funcs[next]) # {}  BY <4>2, <4>6 DEF Known
      <4> QED  BY <1>1, <1>3, <4>7, RightDeduces
    <3> QED  BY <3>1, <3>2, <3>3
  <2> QED  BY <2>3, <2>4
<1> QED  BY <1>6, <1>7

LEMMA StepProg ==
  ASSUME TypeInv, CallsInv, FileInv, SaysInv, AgreeInv, SeenInv, UnresolvedInv, ProgInv, [Next]_vars
  PROVE  ProgInv'
<1> SUFFICES ASSUME Right'
             PROVE  /\ pass' = "resolve" => \A n \in 0 .. Len(Source') : \A i \in Resulting(Source', n) :
                         n < sub' \/ (n <= sub' /\ i < next') => (funcs')[i].typed
                    /\ pass' \in {"check", "accepted", "rejected"} => \A i \in DOMAIN funcs' : (funcs')[i].typed
  BY DEF ProgInv, EachTyped
<1>1. PlainStep /\ Right /\ Plain(Source)  BY RightBefore DEF Right
<1>2. WalkStep  BY <1>1 DEF WalkStep
<1>3. Source' = Source /\ DOMAIN funcs' = DOMAIN funcs  BY <1>1 DEF PlainStep
<1>4. /\ Len(order) = Len(funcs) /\ Len(funcs) \in Nat /\ DOMAIN funcs = 1 .. Len(funcs)
      /\ next \in Nat \ {0}
  BY <1>2, WalkCases
<1>5. Read(Source) /\ DOMAIN Source = DOMAIN funcs /\ Len(Source) = Len(funcs)  BY <1>1, RightSource
<1>6. /\ pass = "resolve" => \A n \in 0 .. Len(Source) : \A i \in Resulting(Source, n) :
           n < sub \/ (n <= sub /\ i < next) => funcs[i].typed
      /\ pass \in {"check", "accepted", "rejected"} => \A i \in DOMAIN funcs : funcs[i].typed
  BY <1>1 DEF ProgInv, EachTyped
<1>7. \A n : Resulting(Source, n) \subseteq DOMAIN funcs  BY <1>5 DEF Resulting
<1>8. CASE Writes \/ Enters \/ UNCHANGED vars
  <2>1. pass' = pass /\ sub' = sub /\ next' = next
    <3>1. CASE Writes  BY <1>1, <3>1, WritesMove DEF PlainStep
    <3>2. CASE Enters \/ UNCHANGED vars  BY <3>2 DEF Enters, RegisterFunc, VisitFunc, vars, walk
    <3> QED  BY <1>8, <3>1, <3>2
  <2>2. \A i \in DOMAIN funcs : (funcs')[i].typed = funcs[i].typed
    BY <1>2, <1>8, WalkCases DEF SameHead
  <2> QED  BY <1>3, <1>6, <1>7, <2>1, <2>2
<1>9. CASE EndWalk
  <2>1. funcs' = funcs /\ next' = 1 /\ next > Len(order)  BY <1>9 DEF EndWalk, AtEnd
  <2>2. \A i \in DOMAIN funcs : i < next /\ ~ (i < 1)  BY <1>4, <2>1
  <2>3. sub \in 0 .. PassLimit /\ sub \in Nat  BY FuncDeclsAssumption DEF TypeInv, WalkInv
  <2>4. CASE pass = "register"
    <3>1. pass' = "register" \/ (pass' = "resolve" /\ sub' = 0)  BY <1>9, <2>4 DEF EndWalk
    <3>2. \A n \in 0 .. Len(Source) : ~ (n < 0)  BY <1>4, <1>5
    <3> QED  BY <1>3, <1>7, <2>1, <2>2, <3>1, <3>2
  <2>5. CASE pass = "resolve" /\ pass' = "resolve"
    <3>1. sub' = sub + 1  BY <1>9, <2>5 DEF EndWalk
    <3>2. \A n \in 0 .. Len(Source) : n < sub + 1 => n <= sub  BY <1>4, <1>5, <2>3
    <3> QED  BY <1>3, <1>6, <1>7, <2>1, <2>2, <2>5, <3>1, <3>2
  <2>6. CASE pass = "resolve" /\ pass' # "resolve"
    <3>1. ~ (unresolved /\ sub + 1 < PassLimit)  BY <1>9, <2>6 DEF EndWalk
    <3>2. CASE ~ unresolved  BY <1>1, <1>3, <2>1, <2>2, <2>6, <3>2 DEF UnresolvedInv
    <3>3. CASE ~ (sub + 1 < PassLimit)
      <4>1. Len(Source) \in 0 .. Len(Source) /\ Len(Source) <= sub
        BY <1>1, <1>4, <1>5, <2>3, <3>3, FuncDeclsAssumption DEF Right
      <4>2. Resulting(Source, Len(Source)) = DOMAIN Source
        BY <1>1, <1>5, RightResults DEF Right, Resulting, Results
      <4>3. \A i \in DOMAIN funcs : funcs[i].typed  BY <1>5, <1>6, <2>2, <2>6, <4>1, <4>2
      <4> QED  BY <1>3, <2>1, <2>6, <4>3
    <3> QED  BY <3>1, <3>2, <3>3
  <2>7. CASE pass = "check"
    <3>1. pass' # "resolve"  BY <1>9, <2>7 DEF EndWalk
    <3> QED  BY <1>3, <1>6, <2>1, <2>7, <3>1
  <2> QED  BY <1>9, <2>4, <2>5, <2>6, <2>7 DEF EndWalk
<1>10. CASE FinishFunc
  <2> DEFINE g == Resolved(fun, pass = "register")
  <2>1. g = Resolved(fun, pass = "register")  OBVIOUS
  <2>2. sub' = sub  BY <1>10 DEF FinishFunc
  <2> HIDE DEF g
  <2>3. /\ Visiting /\ fun = funcs[top.f]
        /\ fun.typed => g.typed
        /\ ~ fun.typed /\ ~ g.typed => pass = "register" \/ ResultType(fun) = NoType
        /\ (funcs')[top.f] = g /\ \A j \in DOMAIN funcs : j # top.f => (funcs')[j] = funcs[j]
        /\ next' = next + 1 /\ pass' = pass
    BY <1>10, <2>1, FinishFuncFacts
  <2>4. top.f = next /\ next \in DOMAIN funcs  BY <1>2, <2>3, WalkCases
  <2>5. \A i \in DOMAIN funcs : funcs[i].typed => (funcs')[i].typed  BY <2>3, <2>4
  <2>6. CASE pass = "resolve"
    <3>1. SUFFICES ASSUME NEW n \in 0 .. Len(Source), NEW i \in Resulting(Source, n),
                          n < sub \/ (n <= sub /\ i < next + 1)
                   PROVE  (funcs')[i].typed
      BY <1>3, <2>2, <2>3, <2>6
    <3>2. i \in DOMAIN funcs  BY <1>7
    <3>3. sub \in Nat  BY FuncDeclsAssumption DEF TypeInv, WalkInv
    <3>4. CASE n < sub \/ i # next
      <4>1. n < sub \/ (n <= sub /\ i < next)  BY <1>4, <3>1, <3>2, <3>4
      <4> QED  BY <1>6, <2>5, <2>6, <3>2, <4>1
    <3>5. CASE i = next /\ n <= sub
      <4>1. funcs[next].typed \/ ResultType(funcs[next]) # NoType
        BY <1>1, <1>2, <1>10, <2>6, <3>3, <3>5, LeftTyped
      <4>2. g.typed  BY <2>3, <2>4, <2>6, <4>1
      <4> QED  BY <2>3, <2>4, <3>5, <4>2
    <3>6. n <= sub  BY <1>4, <1>5, <3>1, <3>3
    <3> QED  BY <3>4, <3>5, <3>6
  <2>7. CASE pass # "resolve"  BY <1>3, <1>6, <2>3, <2>5, <2>7
  <2> QED  BY <2>6, <2>7
<1> QED  BY <1>2, <1>8, <1>9, <1>10, WalkCases

(* Nothing is reported of a well typed program.                            *)
ErrorInv == Right => errors = {}

LEMMA RightPasses ==
  ASSUME TypeInv, Right, SaysInv, AgreeInv, NEW i \in DOMAIN funcs,
         \A s \in DOMAIN funcs[i].body : funcs[i].body[s].t # NoType
  PROVE  ~ BadResult(funcs[i])
<1> DEFINE g == Given(Source, i, Results(Source))
<1>1. /\ Read(Source) /\ Rightful(Source) /\ i \in DOMAIN Source
      /\ Source[i].ret = funcs[i].ret /\ DOMAIN Source[i].body = DOMAIN funcs[i].body
      /\ \A s \in DOMAIN funcs[i].body : Source[i].body[s].ret = funcs[i].body[s].ret
  BY RightSource
<1>2. Results(Source) \in Typings(Source) /\ ~ BadResult(g)  BY <1>1, RightResults
<1>3. /\ g.ret = Source[i].ret /\ DOMAIN g.body = DOMAIN Source[i].body
      /\ \A s \in DOMAIN Source[i].body : /\ g.body[s].ret = Source[i].body[s].ret
                                          /\ g.body[s].t = Said(Source, i, s, Results(Source))
  BY <1>1, <1>2, GivenFacts
<1>4. \A s \in DOMAIN funcs[i].body : Said(Source, i, s, Results(Source)) = funcs[i].body[s].t
  BY SaidNow
<1> HIDE DEF g
<1>5. /\ g.ret = funcs[i].ret /\ DOMAIN g.body = DOMAIN funcs[i].body
      /\ \A s \in DOMAIN funcs[i].body : g.body[s].ret = funcs[i].body[s].ret /\ g.body[s].t = funcs[i].body[s].t
  BY <1>1, <1>3, <1>4
<1>6. BadResult(g) <=> BadResult(funcs[i])  BY <1>5, SameAnswers
<1> QED  BY <1>2, <1>6

LEMMA RightSayable ==
  ASSUME TypeInv, Right, EachTyped, NEW i \in DOMAIN funcs, NEW s \in DOMAIN funcs[i].body
  PROVE  Sayable(i, s)
<1>1. /\ Read(Source) /\ Rightful(Source) /\ DOMAIN Source = DOMAIN funcs
      /\ s \in DOMAIN Source[i].body /\ Source[i].body[s].fn = funcs[i].body[s].fn
  BY RightSource
<1>2. CASE funcs[i].body[s].fn = NoFunc  BY <1>2 DEF Sayable
<1>3. CASE funcs[i].body[s].fn # NoFunc
  <2>1. Target(Source, Source[i].body[s]) \in DOMAIN Source  BY <1>1, <1>3, RightResults
  <2>2. T(i, s) \in DOMAIN funcs  BY <1>1, <2>1 DEF T
  <2> QED  BY <2>2 DEF Sayable, EachTyped
<1> QED  BY <1>2, <1>3

LEMMA StepErrors ==
  ASSUME TypeInv, CallsInv, FileInv, ListedInv, BasesInv, TakenInv, SaysInv, AgreeInv, SeenInv, ProgInv, ErrorInv,
         [Next]_vars
  PROVE  ErrorInv'
<1> SUFFICES ASSUME Right'  PROVE errors' = {}
  BY DEF ErrorInv
<1>1. PlainStep /\ Right /\ Plain(Source)  BY RightBefore DEF Right
<1>2. WalkStep /\ errors = {}  BY <1>1 DEF WalkStep, ErrorInv
<1>3. CASE Writes
  <2>1. CASE CallFails
    <3>1. CASE Checking
      <4>1. EachTyped  BY <1>1, <3>1 DEF ProgInv, Checking
      <4>2. InBody  BY <2>1 DEF CallFails, AllTried, Searching
      <4>3. top.f \in DOMAIN funcs /\ top.s \in DOMAIN funcs[top.f].body  BY <4>2, AtStatement
      <4>4. Sayable(top.f, top.s)  BY <1>1, <4>1, <4>3, RightSayable
      <4> QED  BY <1>1, <2>1, <4>4, FailsUnsaid
    <3>2. CASE ~ Checking  BY <1>2, <2>1, <3>2 DEF CallFails, Fail
    <3> QED  BY <3>1, <3>2
  <2>2. CASE ~ CallFails
    BY <1>2, <1>3, <2>2 DEF Writes, ReturnValue, CallExact, CallKept, CallOverload, NextOverload
  <2> QED  BY <2>1, <2>2
<1>4. CASE Enters \/ EndWalk \/ UNCHANGED vars
  BY <1>2, <1>4 DEF Enters, RegisterFunc, VisitFunc, EndWalk, vars
<1>5. CASE FinishFunc
  <2> DEFINE g == Resolved(fun, pass = "register")
  <2>1. g = Resolved(fun, pass = "register")  OBVIOUS
  <2> HIDE DEF g
  <2>2. Visiting /\ top.f \in DOMAIN funcs /\ fun = funcs[top.f] /\ ResolveFuncType(fun, g)
    BY <1>5, <2>1, FinishFuncFacts
  <2>3. Fail(BadResult(fun) \/ (g.typed /\ ~ fun.typed /\ Redeclared(fun)))  BY <2>2 DEF ResolveFuncType
  <2>4. CASE Checking
    <3>1. EachTyped  BY <1>1, <2>4 DEF ProgInv, Checking
    <3>2. fun.typed  BY <2>2, <3>1 DEF EachTyped
    <3>3. BodyDone  BY <1>5 DEF FinishFunc
    <3>4. ASSUME NEW s \in DOMAIN funcs[top.f].body
          PROVE  funcs[top.f].body[s].t # NoType
      <4>1. Sayable(top.f, s)  BY <1>1, <2>2, <3>1, RightSayable
      <4> QED  BY <1>1, <2>2, <3>3, <4>1, PassedSeen
    <3>5. ~ BadResult(fun)  BY <1>1, <2>2, <3>4, RightPasses
    <3> QED  BY <1>2, <2>3, <3>2, <3>5 DEF Fail
  <2>5. CASE ~ Checking  BY <1>2, <2>3, <2>5 DEF Fail
  <2> QED  BY <2>4, <2>5
<1> QED  BY <1>2, <1>3, <1>4, <1>5, WalkCases

(* The invariants together: what a call means, and where the walks are.    *)
AimInv == FileInv /\ TakenInv /\ AscendInv /\ TargetInv

ExactInv ==
  /\ FoundInv /\ BasesInv /\ GroundInv /\ DoneInv /\ SeenInv /\ UnresolvedInv /\ RejectedInv
  /\ AgreeInv /\ ProgInv /\ ErrorInv

LEMMA InitAims == Init => AimInv
<1> SUFFICES ASSUME Init  PROVE AimInv  OBVIOUS
<1>1. \A i \in DOMAIN funcs : Parsed(funcs[i])  BY FuncDeclsAssumption DEF Init
<1>2. TypeInv  BY InitTypes
<1>3. FileInv  BY InitFile
<1>4. TakenInv  BY DEF TakenInv, Init, Visiting
<1>5. AscendInv  BY DEF AscendInv, Init
<1>6. TargetInv
  <2> SUFFICES ASSUME Plain(Source), NEW i \in DOMAIN funcs, NEW s \in DOMAIN funcs[i].body
               PROVE  Meaning(funcs[i].body[s], i, s)
    BY DEF TargetInv
  <2> DEFINE st == funcs[i].body[s]
             f == funcs[i]
  <2>1. Clear  BY PlainClear
  <2>2. st.t = NoType  BY <1>1 DEF Parsed
  <2>3. f \in Function  BY <1>2, FuncsFacts DEF TypeInv
  <2>4. st \in Statement  BY <2>3, FunctionFields
  <2>5. ASSUME NEW k \in DOMAIN st.args
        PROVE  ~ st.args[k].cast /\ (st.args[k].lit => st.args[k] = Words(i, s)[k])
    <3> DEFINE a == st.args[k]
               w == Words(i, s)[k]
    <3>1. ~ a.cast /\ (a.lit => a.t \in {"int", "nil"})  BY <1>1 DEF Parsed
    <3>2. a \in Arg  BY <2>4, StatementFields
    <3>3. /\ DOMAIN Words(i, s) = DOMAIN st.args
          /\ \A j \in DOMAIN Words(i, s) : Words(i, s)[j] = Word(f, st.args[j]) /\ Words(i, s)[j] \in Arg
      BY <1>2, <2>1, WordsFacts
    <3>4. w = Word(f, a) /\ w \in Arg  BY <3>3
    <3> HIDE DEF a, w, f
    <3>5. w.lit = a.lit /\ w.v = a.v /\ w.t = Original(f, a) /\ w.cast = FALSE  BY <3>4 DEF Word
    <3>6. a.lit => w.t = a.t  BY <3>1, <3>5 DEF Original
    <3>7. a.cast = FALSE  BY <3>1, <3>2 DEF Arg
    <3>8. a.lit => a = w  BY <3>2, <3>4, <3>5, <3>6, <3>7, SameArgs
    <3> QED  BY <3>1, <3>8 DEF a, w
  <2> QED  BY <2>2, <2>5 DEF Meaning, LooseArgs
<1> QED  BY <1>3, <1>4, <1>5, <1>6 DEF AimInv

LEMMA InitExact == Init => ExactInv
<1> SUFFICES ASSUME Init  PROVE ExactInv  OBVIOUS
<1>1. \A i \in DOMAIN funcs : ~ funcs[i].typed  BY FuncDeclsAssumption DEF Init, Parsed
<1>2. TypeInv  BY InitTypes
<1>3. pass = "register" /\ sub = 0 /\ next = 1 /\ ~ Visiting /\ errors = {}  BY DEF Init, Visiting
<1>4. FoundInv /\ AgreeInv  BY <1>1 DEF FoundInv, AgreeInv
<1>5. BasesInv
  <2>1. DOMAIN funcs = 1 .. Len(funcs) /\ Len(funcs) \in Nat  BY <1>2, NamedFacts
  <2>2. \A i \in DOMAIN funcs : ~ (i < 1)  BY <2>1
  <2>3. \A i \in DOMAIN funcs : ~ Registered(i)  BY <1>3, <2>2 DEF Registered
  <2> QED  BY <1>1, <2>3 DEF BasesInv
<1>6. GroundInv
  <2>1. TypedFuncs = {}  BY <1>1 DEF TypedFuncs
  <2> QED  BY <2>1 DEF GroundInv
<1>7. DoneInv /\ SeenInv /\ UnresolvedInv /\ RejectedInv /\ ErrorInv /\ ProgInv
  BY <1>3 DEF DoneInv, SeenInv, UnresolvedInv, RejectedInv, ErrorInv, ProgInv
<1> QED  BY <1>4, <1>5, <1>6, <1>7 DEF ExactInv

LEMMA NextAims ==
  ASSUME TypeInv, CallsInv, PinsInv, OnceInv, BestsInv, AimInv, [Next]_vars
  PROVE  AimInv'
<1>1. KnownInv /\ ListedInv /\ FileInv /\ TakenInv /\ AscendInv /\ TargetInv  BY DEF PinsInv, OnceInv, AimInv
<1>2. FileInv'  BY <1>1, StepFile
<1>3. TargetInv'  BY <1>1, StepTarget
<1>4. TakenInv'  BY <1>1, StepTaken
<1>5. AscendInv'  BY <1>1, StepAscend
<1> QED  BY <1>2, <1>3, <1>4, <1>5 DEF AimInv

LEMMA NextExact ==
  ASSUME TypeInv, CallsInv, OnceInv, AimInv, SaysInv, SaysInv', ExactInv, [Next]_vars
  PROVE  ExactInv'
<1>1. ListedInv /\ FileInv /\ TakenInv  BY DEF OnceInv, AimInv
<1>2. /\ FoundInv /\ BasesInv /\ GroundInv /\ DoneInv /\ SeenInv /\ UnresolvedInv /\ RejectedInv
      /\ AgreeInv /\ ProgInv /\ ErrorInv
  BY DEF ExactInv
<1>3. FoundInv' /\ BasesInv' /\ GroundInv'  BY <1>1, <1>2, StepFound, StepBases, StepGround
<1>4. DoneInv' /\ SeenInv'  BY <1>1, <1>2, StepDone, StepSeen
<1>5. UnresolvedInv' /\ RejectedInv'  BY <1>1, <1>2, StepUnresolved, StepRejected
<1>6. AgreeInv' /\ ProgInv' /\ ErrorInv'  BY <1>1, <1>2, StepAgree, StepProg, StepErrors
<1> QED  BY <1>3, <1>4, <1>5, <1>6 DEF ExactInv

LEMMA AimsInvariant ==
  Spec => [](TypeInv /\ CallsInv /\ PinsInv /\ ResultsInv /\ OnceInv /\ BestsInv /\ AimInv)
<1>1. Init => AimInv  BY InitAims
<1>2. TypeInv /\ CallsInv /\ PinsInv /\ OnceInv /\ BestsInv /\ AimInv /\ [Next]_vars => AimInv'
  BY NextAims
<1> QED  BY <1>1, <1>2, OnceInvariant, BestsInvariant, PTL DEF Spec

LEMMA ExactInvariant ==
  Spec => [](TypeInv /\ CallsInv /\ OnceInv /\ AimInv /\ SaysInv /\ ExactInv)
<1>1. Init => ExactInv  BY InitExact
<1>2. TypeInv /\ CallsInv /\ ResultsInv /\ AimInv => SaysInv
  BY ProgramSays DEF CallsInv, ResultsInv, AimInv
<1>3. Spec => []SaysInv  BY <1>2, AimsInvariant, PTL
<1>4. TypeInv /\ CallsInv /\ OnceInv /\ AimInv /\ SaysInv /\ SaysInv' /\ ExactInv /\ [Next]_vars => ExactInv'
  BY NextExact
<1> QED  BY <1>1, <1>3, <1>4, AimsInvariant, PTL DEF Spec

(* The compiler accepts a program exactly if the language types it, in     *)
(* whatever order its functions stand: what it accepts is well typed with  *)
(* the results it has found, as these rest on something that is written,   *)
(* and are what the rounds find; what is well typed it accepts, as the     *)
(* n-th walk finds the results of the n-th round, no walk finds another,   *)
(* and so nothing is left to report when the errors are.                   *)
THEOREM AcceptedAsTyped == Spec => []AcceptedExactly
<1>1. TypeInv /\ CallsInv /\ AimInv /\ SaysInv /\ ExactInv => AcceptedExactly
  <2> SUFFICES ASSUME TypeInv, CallsInv, AimInv, SaysInv, ExactInv,
                      pass \in {"accepted", "rejected"}, Plain(Source), Len(funcs) < PassLimit,
                      \A i \in DOMAIN funcs : Unmixed(funcs[i]) /\ Unmixed(Given(Source, i, Results(Source)))
               PROVE  Accepted <=> WellTyped(Source)
    BY DEF AcceptedExactly
  <2>1. FileInv /\ FoundInv /\ GroundInv /\ DoneInv /\ RejectedInv /\ ErrorInv  BY DEF AimInv, ExactInv
  <2>2. Clear /\ DOMAIN Source = DOMAIN funcs  BY PlainClear, SourceRead
  <2>3. ASSUME Accepted  PROVE WellTyped(Source)
    <3>1. pass = "accepted" /\ errors = {}  BY <2>3 DEF Accepted, CallsInv, CheckInv
    <3>2. \A i \in DOMAIN funcs : funcs[i].typed /\ ~ BadResult(funcs[i])  BY <2>1, <3>1 DEF DoneInv
    <3>3. \A i \in DOMAIN funcs : TypedTo(funcs[i], Len(funcs[i].body))
      <4> TAKE i \in DOMAIN funcs
      <4>1. i \in DOMAIN order /\ order[i] = i  BY <2>1, <2>2 DEF FileInv
      <4>2. ~ IsGeneric(funcs[i])  BY <2>2 DEF Clear
      <4> QED  BY <3>1, <4>1, <4>2 DEF CallsInv, CheckInv
    <3>4. EachTyped /\ Settles  BY <3>2, <3>3 DEF EachTyped, Settles
    <3> QED  BY <2>1, <3>4, AcceptedTyped
  <2>4. ASSUME WellTyped(Source)  PROVE Accepted
    <3>1. Right  BY <2>2, <2>4 DEF Right, Rightful
    <3>2. errors = {}  BY <2>1, <3>1 DEF ErrorInv
    <3> QED  BY <2>1, <3>2 DEF RejectedInv, Accepted
  <2> QED  BY <2>3, <2>4
<1> QED  BY <1>1, ExactInvariant, PTL
=============================================================================
