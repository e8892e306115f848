--------------------------- MODULE FuncDeclsSpec ---------------------------
(***************************************************************************)
(* What is to hold of the functions and the calls of a program.            *)
(***************************************************************************)
EXTENDS FuncDecls

Accepted == pass = "accepted"
Ended == {"accepted", "rejected", "aborted", "overflow", "crashed"}

Declared == {i \in DOMAIN funcs : i \in ToSet(order) /\ ~ IsGeneric(funcs[i])}

(* The statements that are calls, as <<function, statement>>.              *)
Calls == UNION {{<<i, s>> : s \in {k \in DOMAIN funcs[i].body : funcs[i].body[k].fn # NoFunc}} : i \in Declared}
At(c) == funcs[c[1]].body[c[2]]

TypeOK ==
  /\ funcs \in Seq(Function)
  /\ order \in Seq(DOMAIN funcs)
  /\ bases \subseteq Names
  /\ overloads \in [Names -> Seq(DOMAIN funcs)] /\ generics \in [Names -> Seq(DOMAIN funcs)]
  /\ \A k \in DOMAIN symbols : symbols[k] \in DOMAIN funcs /\ Signature(funcs[symbols[k]]) = k
  /\ pass \in {"register", "resolve", "check"} \cup Ended
  /\ sub \in 0 .. PassLimit /\ next \in Nat \ {0}
  /\ Len(stack) <= MaxNesting
  /\ unresolved \in BOOLEAN
  /\ errors \subseteq DOMAIN funcs

-----------------------------------------------------------------------------
(* The programs of which the properties below hold.  What a call finds     *)
(* depends on where it stands: a function joins the overloads of its name  *)
(* when the walk has left it, the first overload that takes the arguments  *)
(* ends the search, and a call keeps its type from then on.  So overloads  *)
(* of a name are to be known all at once: their results are declared,      *)
(* their bodies call nobody, and nothing stands between them.              *)

Named(n) == {i \in DOMAIN funcs : funcs[i].name = n}

Alone(n) == \A i \in Named(n) : ~ IsGeneric(funcs[i]) /\ Named(n) = {i}

Together(n) ==
  \A i \in Named(n) :
    /\ ~ IsGeneric(funcs[i]) /\ funcs[i].ret # NoType
    /\ \A s \in DOMAIN funcs[i].body : funcs[i].body[s].fn = NoFunc
    /\ \A j \in Named(n) : \A k \in i .. j : k \in Named(n)

Settled(n) == Alone(n) \/ Together(n)

Untouched(st) == \A i \in DOMAIN st.args : ~ st.args[i].lit /\ ~ st.args[i].cast

(* A call whose arguments no attempt has changed: while they are what is   *)
(* written, no overload but the one it has is mangled like it.             *)
Undisturbed(st) ==
  \/ Alone(st.fn)
  \/ Together(st.fn) /\ Untouched(st)

Returned(f) == {f.body[s].t : s \in Returns(f)}

-----------------------------------------------------------------------------
Passes(t, to) ==
  \/ Convertible(t, to) /\ ~ NeedsCast(t, to)
  \/ /\ Kind(to) = "ptr" /\ TypeDef[TypeDef[to].elem].pure
     /\ IsPtrTo(t, TypeDef[TypeDef[to].elem].elem)

(* Every call of an accepted program calls a function that takes its       *)
(* arguments as they now are, casts included, and has that function's      *)
(* result: what codegen passes is what the function was compiled for.      *)
(* (A literal of the size of a pointer is one without a cast; the address  *)
(* of a pointer may be passed where a pointer to a pure one is wanted, a   *)
(* conversion that is_convertible_to does not know.)                       *)
CallsAgree ==
  Accepted => \A c \in Calls :
    LET st == At(c) IN
    /\ st.callee \in Declared
    /\ LET g == funcs[st.callee] IN
       /\ g.typed /\ st.t = g.result
       /\ Len(st.args) = Len(g.params)
       /\ \A i \in DOMAIN st.args :
            Passes(st.args[i].t, g.params[i])

(* A deduced result is the one all the returns give, those included that   *)
(* had no type yet when the function got its own.  (Not where a value      *)
(* of another type is returned that goes into it, as nil beside a pointer: *)
(* the last of the two known then is the result.  Nor where the cast of an *)
(* argument makes the call name another overload in the next walk: the     *)
(* return takes its type, and the function keeps the result it has.)       *)
DeducedFromAll ==
  Accepted => \A i \in Declared :
    /\ funcs[i].ret = NoType
    /\ \A s \in Returns(funcs[i]) : funcs[i].body[s].fn # NoFunc => Undisturbed(funcs[i].body[s])
    /\ \A t, u \in Returned(funcs[i]) : Assignable(t, u) => t = u
    => GoTogether(funcs[i]) /\ funcs[i].result = Deduction(funcs[i])

(* Functions that are generic, or copies of one, do not call each other in *)
(* a circle: a call goes to a lower level.                                 *)
Descends(level) ==
  \A i \in DOMAIN funcs : IsGeneric(funcs[funcs[i].pos]) =>
    \A s \in DOMAIN funcs[i].body :
      LET n == funcs[i].body[s].fn IN n # NoFunc => level[n] < level[funcs[i].name]

NoCircle == \E level \in [Names -> 0 .. Len(funcs)] : Descends(level)

(* No call of a generic function is given a literal.                       *)
NoLiterals ==
  \A i \in DOMAIN funcs : \A s \in DOMAIN funcs[i].body :
    LET st == funcs[i].body[s] IN
    st.fn # NoFunc /\ (\E g \in Named(st.fn) : IsGeneric(funcs[g])) =>
      \A k \in DOMAIN st.args : ~ st.args[k].lit

(* A generic function is copied once for each list of types it is called   *)
(* with, however many calls there are and wherever they stand.  (In a      *)
(* circle of generic functions the same copy may be begun again before the *)
(* first is done; and a literal, which failed attempts give one type after *)
(* the other, may come to have the type of a copy that was tried before.   *)
(* The IR puts the bodies of functions with one mangled name behind each   *)
(* other, and the second is dead.)                                         *)
CopiedOnce ==
  Accepted /\ NoCircle /\ NoLiterals => \A i, j \in Declared :
    i < j /\ Signature(funcs[i]) = Signature(funcs[j]) => funcs[i].pos # funcs[j].pos

(* A call has the overload declared with exactly the types of its          *)
(* arguments, if there is one.                                             *)
Original(f, a) == IF ~ a.lit THEN f.params[a.v] ELSE IF a.t = "nil" THEN "nil" ELSE "int"

Originals(c) == [i \in DOMAIN At(c).args |-> Original(funcs[c[1]], At(c).args[i])]

BestOverload ==
  Accepted => \A c \in Calls :
    Together(At(c).fn) =>
    \A g \in Named(At(c).fn) :
      funcs[g].params = Originals(c) => Signature(funcs[At(c).callee]) = Signature(funcs[g])

-----------------------------------------------------------------------------
(* The language, without walks.  A program is what is written: arguments   *)
(* have the types they have before any call of them.                       *)
Source ==
  [i \in DOMAIN funcs |->
     [name |-> funcs[i].name, params |-> funcs[i].params, ret |-> funcs[i].ret,
      body |-> [s \in DOMAIN funcs[i].body |->
                  [ret |-> funcs[i].body[s].ret, fn |-> funcs[i].body[s].fn,
                   args |-> [k \in DOMAIN funcs[i].body[s].args |->
                               [lit |-> funcs[i].body[s].args[k].lit,
                                v |-> funcs[i].body[s].args[k].v,
                                t |-> Original(funcs[i], funcs[i].body[s].args[k]),
                                cast |-> FALSE]]]]]]

Accepts(params, args) ==
  /\ Len(params) = Len(args)
  /\ \A k \in DOMAIN args : Fits(Coerced(args[k], params[k]), params[k])

(* The function a call names: the one of exactly these types, or the first *)
(* that takes them.                                                        *)
Target(p, st) ==
  LET named == {g \in DOMAIN p : p[g].name = st.fn}
      same == {g \in named : p[g].params = TypesOf(st.args)}
      fitting == {g \in named : Accepts(p[g].params, st.args)}
  IN IF same # {} THEN Min(same) ELSE IF fitting # {} THEN Min(fitting) ELSE 0

(* What is returned when all is said that can be, starting from what is    *)
(* declared: a round deduces results from those known before it.           *)
TypeOf(p, st, results) ==
  IF st.fn = NoFunc THEN (IF st.args = <<>> THEN "void" ELSE st.args[1].t)
  ELSE IF Target(p, st) = 0 THEN NoType ELSE results[Target(p, st)]

Given(p, i, results) ==
  [ret |-> p[i].ret,
   body |-> [s \in DOMAIN p[i].body |->
               [ret |-> p[i].body[s].ret, t |-> TypeOf(p, p[i].body[s], results)]]]

NextRound(p, results) ==
  [i \in DOMAIN p |-> IF results[i] # NoType THEN results[i] ELSE Deduction(Given(p, i, results))]

Declarations(p) == [i \in DOMAIN p |-> p[i].ret]

Rounds(p) ==
  LET Round[n \in 0 .. Len(p)] == IF n = 0 THEN Declarations(p) ELSE NextRound(p, Round[n - 1])
  IN Round

Results(p) == Rounds(p)[Len(p)]

WellTyped(p) ==
  \E results \in {Results(p)} : \A i \in DOMAIN p :
    /\ \A s \in DOMAIN p[i].body : p[i].body[s].fn # NoFunc => Target(p, p[i].body[s]) # 0
    /\ results[i] # NoType /\ ~ BadResult(Given(p, i, results))

(* A call keeps the function it names when its arguments have been cast    *)
(* for it: no other is declared with the types they have then.             *)
Lasts(p, st) ==
  \A h \in DOMAIN p :
    LET g == Target(p, st) IN
    g # 0 /\ p[h].name = st.fn /\ p[h].params = [k \in DOMAIN st.args |-> CastTo(st.args[k], p[g].params[k]).t]
    => h = g

(* No function is deduced to return two types of which one goes into the   *)
(* other: the last of those known by then would be its result.             *)
Unmixed(f) ==
  f.ret = NoType =>
    \A r, s \in Known(f) : Assignable(f.body[r].t, f.body[s].t) => f.body[r].t = f.body[s].t

Plain(p) ==
  /\ \A i \in DOMAIN p : ~ IsGeneric(p[i])
  /\ \A i, j \in DOMAIN p : i # j => Signature(p[i]) # Signature(p[j])
  /\ \A i \in DOMAIN p : \A s \in DOMAIN p[i].body :
       LET st == p[i].body[s] IN
       st.fn # NoFunc => Alone(st.fn) \/ (Together(st.fn) /\ Lasts(p, st) /\ \A k \in DOMAIN st.args : ~ st.args[k].lit)

(* A program is accepted if, and only if, the language types it, in        *)
(* whatever order its functions stand.  (Where overloads are known all at  *)
(* once, no literal has been made fit by a failed attempt, no two deduced  *)
(* results compete, and there are more walks than functions.)              *)
AcceptedExactly ==
  pass \in {"accepted", "rejected"} /\ Plain(Source) /\ Len(funcs) < PassLimit
  /\ (\A i \in DOMAIN funcs : Unmixed(funcs[i]) /\ Unmixed(Given(Source, i, Results(Source))))
  => (Accepted <=> WellTyped(Source))

KeepsCallee ==
  \A i \in DOMAIN funcs : \A s \in DOMAIN funcs[i].body :
    LET st == funcs[i].body[s]
        now == funcs'[i].body[s]
    IN st.fn # NoFunc /\ st.t # NoType /\ now.callee # st.callee =>
         ~ Undisturbed(st) /\ Signature(funcs'[now.callee]) = <<st.fn, TypesOf(now.args)>>

(* A call that has its type keeps the function it calls, whatever other    *)
(* overloads and copies come, unless its arguments were changed to fit;    *)
(* then only a function declared with exactly their types takes it over.   *)
CalleePinned == [][KeepsCallee]_funcs
=============================================================================
