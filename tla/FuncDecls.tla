----------------------------- MODULE FuncDecls -----------------------------
(***************************************************************************)
(* Functions of one module: how carbonc types them, which overload it      *)
(* picks for a call, and how it makes functions out of generic ones.       *)
(*                                                                         *)
(* The walks are those of TypeDecls, over one file: twice when it is       *)
(* parsed, until nothing is unresolved, once for the errors.  A function   *)
(* enters the list of the overloads of its name when its own type is       *)
(* known, and that takes the types of what it returns unless they are      *)
(* declared.  A call is resolved where the walk meets it, against the      *)
(* overloads there are by then, and what that does to the arguments (a     *)
(* literal takes another type, a cast is put around it) stays.             *)
(*                                                                         *)
(* A body is the calls and the returns of the function in their order;     *)
(* the arguments of calls are literals and arguments of the function.      *)
(***************************************************************************)
EXTENDS Conversions, SequencesExt

CONSTANTS Names,        \* names of functions
          Untyped,      \* the type of an argument declared without one
          NoFunc,       \* a return of a value, or of nothing: no call
          Programs,     \* the files to compile
          PassLimit,    \* 100 in resolve_and_check
          MaxNesting    \* bound of the model: functions being generated at a time

Arg == [lit : BOOLEAN, v : Nat, t : Types \cup {NoType}, cast : BOOLEAN]
Statement == [ret : BOOLEAN, fn : Names \cup {NoFunc}, args : Seq(Arg),
              callee : Nat, t : Types \cup {NoType}]
Function == [name : Names, params : Seq(Types \cup {Untyped}), ret : Types \cup {NoType},
             body : Seq(Statement),
             pos : Nat,                   \* where it is written; a copy has its generic's
             typed : BOOLEAN,             \* f.tid is valid: mangled and declared
             result : Types \cup {NoType},\* tdef.func.ret_type
             argsUnresolved : BOOLEAN]

(* A function as the parser leaves it: nothing is typed, called or         *)
(* declared, and literals are integers or nil.                             *)
Parsed(f) ==
  /\ ~ f.typed /\ f.result = NoType
  /\ \A s \in DOMAIN f.body :
       /\ f.body[s].callee = 0 /\ f.body[s].t = NoType
       /\ f.body[s].fn = NoFunc => f.body[s].ret
       /\ \A i \in DOMAIN f.body[s].args :
            LET a == f.body[s].args[i] IN
            ~ a.cast /\ IF a.lit THEN a.t \in {"int", "nil"} ELSE a.v \in DOMAIN f.params

ASSUME FuncDeclsAssumption ==
  /\ Untyped \notin Types /\ Untyped # NoType /\ NoFunc \notin Names
  /\ "nil" \in Types
  /\ Programs \subseteq Seq(Function)
  /\ \A file \in Programs : \A i \in DOMAIN file : file[i].pos = i /\ Parsed(file[i])
  /\ PassLimit \in Nat \ {0} /\ MaxNesting \in Nat \ {0}

(* nil_type is a type of its own kind, and no other type is meant by it.   *)
ASSUME NilAssumption == Kind("nil") = "nil" /\ TypeDef["nil"].alias = NoType

(* get_ptr_type_to makes the pointer types toptr_cast asks for.            *)
ASSUME PointersAssumption ==
  \A p \in Types : Kind(p) = "ptr" =>
    /\ TypeDef[p].elem \in Types
    /\ \A t \in Types :
         t = TypeDef[p].elem \/ (TypeDef[TypeDef[p].elem].pure /\ t = TypeDef[TypeDef[p].elem].elem)
         => \E q \in Types : IsPtrTo(q, t)

VARIABLES
  funcs,        \* every func_decl node, made by the parser or by a generic one
  order,        \* the children of the file: indexes into funcs
  bases,        \* names with an overloaded_func_base symbol
  overloads,    \* name |-> overload_funcs, as indexes
  generics,     \* name |-> generic_funcs
  symbols,      \* <<name, argument types>> |-> the function declared first as that
  pass, sub,    \* ts.pass and ts.subpass, or how it ended
  next,         \* the child of the file to visit next
  stack,        \* the functions being visited; above the first, generated ones
  unresolved,   \* ts.unresolved_types
  errors        \* functions an error is reported in

tables == <<bases, overloads, generics, symbols>>
walk == <<pass, sub, next>>
vars == <<funcs, order, tables, walk, stack, unresolved, errors>>

Checking == pass = "check"

IsGeneric(f) == \E i \in DOMAIN f.params : f.params[i] = Untyped

(* The function and the statement being visited.                           *)
top == Last(stack)
fun == funcs[top.f]
stmt == fun.body[top.s]
Visiting == stack # <<>>
InBody == Visiting /\ top.s <= Len(fun.body)

(* Mutant: errors count in every walk.                                     *)
MutFailAlways(condition) == errors' = IF condition THEN errors \cup {top.f} ELSE errors

Fail(condition) == errors' = IF Checking /\ condition THEN errors \cup {top.f} ELSE errors

NextStatement == [stack EXCEPT ![Len(stack)].s = @ + 1, ![Len(stack)].tried = 0]

SetStatement(st) == [funcs EXCEPT ![top.f].body[top.s] = st]

-----------------------------------------------------------------------------
(* The type of an argument where the walk meets it.                        *)
Typed(a) == IF a.lit \/ a.cast THEN a ELSE [a EXCEPT !.t = fun.params[a.v]]

Typeds(args) == [i \in DOMAIN args |-> Typed(args[i])]

TypesOf(args) == [i \in DOMAIN args |-> args[i].t]

(* check_convertible_and_cast_call_args                                    *)
Coerced(a, to) ==
  IF a.lit /\ ~ a.cast /\ ~ Convertible(a.t, to) /\ Coercible(a.v, a.t, to) THEN [a EXCEPT !.t = to] ELSE a

AddressFits(a, to) ==
  /\ Kind(to) = "ptr"
  /\ LET target == TypeDef[to].elem
     IN target = a.t \/ (TypeDef[target].pure /\ TypeDef[target].elem = a.t)

Fits(a, to) == Convertible(a.t, to) \/ AddressFits(a, to)

(* Mutant: the casts of a match are not performed.                         *)
MutNoCast(a, to) == a

CastTo(a, to) ==
  IF Convertible(a.t, to)
  THEN IF NeedsCast(a.t, to) THEN [a EXCEPT !.t = to, !.cast = TRUE] ELSE a
  ELSE IF AddressFits(a, to)
  THEN [a EXCEPT !.t = PtrTo(a.t), !.cast = TRUE]    \* toptr_cast
  ELSE a

(* An argument against the type of a parameter: as the attempt leaves it,  *)
(* whether it fits, and as it is passed when all of them do.               *)
Attempt(a, to) ==
  IF to = Untyped THEN [left |-> a, fits |-> TRUE, passed |-> a]
  ELSE LET c == Coerced(a, to)
       IN [left |-> c, fits |-> Fits(c, to), passed |-> CastTo(c, to)]

(* match_arg_list, and the loop of visit_generated_func over arguments     *)
(* with a type: an attempt stops at the first argument that does not fit,  *)
(* and only a full match casts the arguments.                              *)
Outcome(tries, args) ==
  LET bad == {i \in DOMAIN args : ~ tries[i].fits}
  IN [ok |-> bad = {},
      args |-> [i \in DOMAIN args |->
                  IF bad = {} THEN tries[i].passed
                  ELSE IF \A j \in bad : i <= j THEN tries[i].left ELSE args[i]]]

Match(params, args) == Outcome([i \in DOMAIN args |-> Attempt(args[i], params[i])], args)

-----------------------------------------------------------------------------
(* What a function returns.                                                *)

Returns(f) == {s \in DOMAIN f.body : f.body[s].ret}

(* deduce_func_return_type.  A return whose type is not known yet does not *)
(* count; each of the others has to go into the next one, and the last one *)
(* gives the result.                                                       *)
Known(f) == {s \in Returns(f) : f.body[s].t # NoType}

GoTogether(f) ==
  \A r, s \in Known(f) :
    r < s /\ (\A q \in Known(f) : q <= r \/ s <= q) => Assignable(f.body[r].t, f.body[s].t)

Deduction(f) ==
  IF Returns(f) = {} THEN "void"
  ELSE IF Known(f) = {} \/ ~ GoTogether(f) THEN NoType
  ELSE f.body[Max(Known(f))].t

ResultType(f) == IF f.ret # NoType THEN f.ret ELSE Deduction(f)

(* Mutant: returns that do not go together are not reported.               *)
MutAnyResult(f) == f.ret # NoType /\ \E s \in Returns(f) : ~ Convertible(f.body[s].t, f.ret)

(* The errors resolve_func_type reports.                                   *)
BadResult(f) ==
  IF f.ret # NoType
  THEN \/ Returns(f) = {} /\ f.ret # "void"
       \/ \E s \in Returns(f) : ~ Convertible(f.body[s].t, f.ret)
  ELSE ~ GoTogether(f)

Signature(f) == <<f.name, f.params>>

Redeclared(f) == \E i \in DOMAIN overloads[f.name] : Signature(funcs[overloads[f.name][i]]) = Signature(f)

(* resolve_func_type, with resolve_func_args_type before it unless the     *)
(* function is being registered: f gets its type once its result is known, *)
(* and with it its mangled name and its place among the overloads.  A      *)
(* second function of that name is reported, but only while checking, and  *)
(* joins the overloads either way.                                         *)
Resolved(f, registering) ==
  IF f.typed \/ registering \/ ResultType(f) = NoType
  THEN [f EXCEPT !.argsUnresolved = registering]
  ELSE [f EXCEPT !.argsUnresolved = FALSE, !.typed = TRUE, !.result = ResultType(f)]

(* Mutant: copies are not declared.                                        *)
MutCopyNotDeclared(i, f) ==
  IF f.typed \/ top.generated
  THEN UNCHANGED <<overloads, symbols>>
  ELSE /\ overloads' = [overloads EXCEPT ![f.name] = Append(@, i)]
       /\ symbols' = IF Signature(f) \in DOMAIN symbols THEN symbols
                     ELSE [k \in DOMAIN symbols \cup {Signature(f)} |->
                             IF k \in DOMAIN symbols THEN symbols[k] ELSE i]

Declare(i, f) ==
  IF f.typed
  THEN UNCHANGED <<overloads, symbols>>
  ELSE /\ overloads' = [overloads EXCEPT ![f.name] = Append(@, i)]
       /\ symbols' = IF Signature(f) \in DOMAIN symbols THEN symbols
                     ELSE [k \in DOMAIN symbols \cup {Signature(f)} |->
                             IF k \in DOMAIN symbols THEN symbols[k] ELSE i]

ResolveFuncType(f, g) ==
  /\ IF g.typed THEN Declare(top.f, f) ELSE UNCHANGED <<overloads, symbols>>
  /\ Fail(BadResult(f) \/ (g.typed /\ ~ f.typed /\ Redeclared(f)))

-----------------------------------------------------------------------------
(* The visit of a child of the file.                                       *)

AtChild == pass \in {"register", "resolve", "check"} /\ ~ Visiting /\ next <= Len(order)

child == funcs[order[next]]

(* tried counts the overloads a call was compared with and did not match.  *)
Frame(f, generated) == [f |-> f, s |-> 1, tried |-> 0, generated |-> generated]

Enter == stack' = <<Frame(order[next], FALSE)>>

(* register_func_declaration_node                                          *)
RegisterFunc ==
  /\ AtChild /\ pass = "register" /\ ~ IsGeneric(child)
  /\ bases' = bases \cup {child.name}
  /\ Enter
  /\ UNCHANGED <<funcs, order, overloads, generics, symbols, walk, unresolved, errors>>

RegisterGeneric ==
  /\ AtChild /\ pass = "register" /\ IsGeneric(child)
  /\ bases' = bases \cup {child.name}
  /\ generics' = IF order[next] \in ToSet(generics[child.name]) THEN generics
                 ELSE [generics EXCEPT ![child.name] = Append(@, order[next])]
  /\ next' = next + 1
  /\ UNCHANGED <<funcs, order, overloads, symbols, pass, sub, stack, unresolved, errors>>

(* Mutant: generic functions are visited as if they were not.              *)
MutVisitGeneric ==
  /\ AtChild /\ pass # "register"
  /\ Enter
  /\ UNCHANGED <<funcs, order, tables, walk, unresolved, errors>>

(* the func_decl case of resolve_node_type in the later walks              *)
VisitFunc ==
  /\ AtChild /\ pass # "register" /\ ~ IsGeneric(child)
  /\ Enter
  /\ UNCHANGED <<funcs, order, tables, walk, unresolved, errors>>

SkipGeneric ==
  /\ AtChild /\ pass # "register" /\ IsGeneric(child)
  /\ next' = next + 1
  /\ UNCHANGED <<funcs, order, tables, pass, sub, stack, unresolved, errors>>

-----------------------------------------------------------------------------
(* The visit of a body.                                                    *)

(* return_stmt without a call                                              *)
ReturnValue ==
  /\ InBody /\ stmt.fn = NoFunc
  /\ LET args == Typeds(stmt.args)
     IN funcs' = SetStatement([stmt EXCEPT !.args = args, !.t = IF args = <<>> THEN "void" ELSE args[1].t])
  /\ stack' = NextStatement
  /\ UNCHANGED <<order, tables, walk, unresolved, errors>>

callArgs == Typeds(stmt.args)
(* Mutant: a call is mangled by what its arguments' aliases stand for.     *)
MutExactByRoot == <<stmt.fn, [i \in DOMAIN callArgs |-> AliasRoot(callArgs[i].t)]>>

exact == <<stmt.fn, TypesOf(callArgs)>>
LookingUp == InBody /\ stmt.fn # NoFunc /\ top.tried = 0

(* The end of the visit of a call, which asks for the parent of its node:  *)
(* copy_node gives none to what a copied return holds.                     *)
CallEnds ==
  IF top.generated /\ stmt.ret
  THEN pass' = "crashed" /\ stack' = <<>>
  ELSE UNCHANGED pass /\ stack' = NextStatement

(* resolve_call_funcdef: a function mangled as the call is.                *)
CallExact ==
  /\ LookingUp /\ exact \in DOMAIN symbols
  /\ LET g == symbols[exact]
     IN funcs' = SetStatement([stmt EXCEPT !.args = callArgs, !.callee = g, !.t = funcs[g].result])
  /\ CallEnds
  /\ UNCHANGED <<order, tables, sub, next, unresolved, errors>>

(* A call that has its type keeps it when no function is mangled like it.  *)
CallKept ==
  /\ LookingUp /\ exact \notin DOMAIN symbols /\ stmt.t # NoType
  /\ funcs' = SetStatement([stmt EXCEPT !.args = callArgs])
  /\ CallEnds
  /\ UNCHANGED <<order, tables, sub, next, unresolved, errors>>

(* The overloads of the name in their order, when there is no such         *)
(* function, until one matches.                                            *)
(* Mutant: a call that has its type is searched for again.                 *)
MutSearchAgain == InBody /\ stmt.fn # NoFunc /\ (top.tried > 0 \/ exact \notin DOMAIN symbols)

Searching == InBody /\ stmt.fn # NoFunc /\ (top.tried > 0 \/ (exact \notin DOMAIN symbols /\ stmt.t = NoType))
Candidates == IF stmt.fn \in bases THEN overloads[stmt.fn] ELSE <<>>
Comparing == Searching /\ top.tried < Len(Candidates)
candidate == Candidates[top.tried + 1]
SameLength == Len(funcs[candidate].params) = Len(stmt.args)

CallOverload ==
  /\ Comparing /\ SameLength
  /\ \E m \in {Match(funcs[candidate].params, callArgs)} :
       m.ok /\ funcs' = SetStatement([stmt EXCEPT !.args = m.args, !.callee = candidate,
                                                 !.t = funcs[candidate].result])
  /\ CallEnds
  /\ UNCHANGED <<order, tables, sub, next, unresolved, errors>>

NextOverload ==
  /\ Comparing
  /\ IF SameLength
     THEN \E m \in {Match(funcs[candidate].params, callArgs)} :
            ~ m.ok /\ funcs' = SetStatement([stmt EXCEPT !.args = m.args])
     ELSE funcs' = funcs
  /\ stack' = [stack EXCEPT ![Len(stack)].tried = @ + 1]
  /\ UNCHANGED <<order, tables, walk, unresolved, errors>>

(* The first generic function with as many arguments, if there is one.     *)
Templates == IF stmt.fn \in bases THEN generics[stmt.fn] ELSE <<>>
Suitable == {k \in DOMAIN Templates : Len(funcs[Templates[k]].params) = Len(stmt.args)}
GenericFor == {Templates[k] : k \in {i \in Suitable : \A j \in Suitable : i <= j}}

AllTried == Searching /\ top.tried = Len(Candidates)

CallFails ==
  /\ AllTried /\ GenericFor = {}
  /\ funcs' = SetStatement([stmt EXCEPT !.args = callArgs])
  /\ CallEnds
  /\ unresolved' = TRUE
  /\ Fail(TRUE)
  /\ UNCHANGED <<order, tables, sub, next>>

(* generate_func_for_call: a copy with the types of the call's arguments,  *)
(* visited at once, in the middle of the visit of the caller.              *)
Instance(g, types) == [funcs[g] EXCEPT !.params = types]

Fitted(g) == {Match(funcs[g].params, callArgs)}

CallGeneric ==
  AllTried /\ \E g \in GenericFor :
    /\ Len(stack) < MaxNesting
    /\ \E m \in Fitted(g) :
         m.ok /\ funcs' = Append(SetStatement([stmt EXCEPT !.args = m.args]), Instance(g, TypesOf(m.args)))
    /\ stack' = Append(stack, Frame(Len(funcs) + 1, TRUE))
    /\ UNCHANGED <<order, tables, walk, unresolved, errors>>

(* An argument that does not fit leaves the copy without the types of its  *)
(* arguments; the result of visit_generated_func is not looked at, and the *)
(* assertion of mangle_func_name ends the compiler.                        *)
GenericMismatch ==
  AllTried /\ \E g \in GenericFor :
    /\ \E m \in Fitted(g) : ~ m.ok
    /\ pass' = "aborted" /\ stack' = <<>>
    /\ UNCHANGED <<funcs, order, tables, sub, next, unresolved, errors>>

(* Copies within copies: the compiler ends when its own stack does.        *)
GenericOverflow ==
  AllTried /\ \E g \in GenericFor :
    /\ \E m \in Fitted(g) : m.ok
    /\ Len(stack) = MaxNesting
    /\ pass' = "overflow" /\ stack' = <<>>
    /\ UNCHANGED <<funcs, order, tables, sub, next, unresolved, errors>>

-----------------------------------------------------------------------------
(* The end of a visit, of a copy, of a walk.                               *)

BodyDone == Visiting /\ top.s > Len(fun.body)

FinishFunc ==
  /\ BodyDone /\ ~ top.generated
  /\ LET g == Resolved(fun, pass = "register")
     IN /\ ResolveFuncType(fun, g)
        /\ funcs' = [funcs EXCEPT ![top.f] = g]
        /\ unresolved' = (unresolved \/ ~ g.typed)
  /\ stack' = <<>>
  /\ next' = next + 1
  /\ UNCHANGED <<order, bases, generics, pass, sub>>

(* The copy joins the file, and the call that asked for it takes its type. *)
FinishInstance ==
  /\ BodyDone /\ top.generated
  /\ LET g == Resolved(fun, FALSE)
         caller == stack[Len(stack) - 1]
         orphan == caller.generated /\ funcs[caller.f].body[caller.s].ret
     IN /\ ResolveFuncType(fun, g)
        /\ funcs' = [funcs EXCEPT ![top.f] = g,
                                  ![caller.f].body[caller.s] = [@ EXCEPT !.callee = top.f, !.t = g.result]]
        /\ unresolved' = (unresolved \/ ~ g.typed)
        /\ pass' = IF orphan THEN "crashed" ELSE pass
        /\ stack' = IF orphan THEN <<>>
                    ELSE [Front(stack) EXCEPT ![Len(stack) - 1].s = @ + 1, ![Len(stack) - 1].tried = 0]
  /\ order' = Append(order, top.f)
  /\ UNCHANGED <<bases, generics, sub, next>>

AtEnd == pass \in {"register", "resolve", "check"} /\ ~ Visiting /\ next > Len(order)

(* process_code_unit and resolve_and_check                                 *)
EndWalk ==
  /\ AtEnd
  /\ \/ pass = "register" /\ sub = 0 /\ pass' = "register" /\ sub' = 1
     \/ pass = "register" /\ sub = 1 /\ pass' = "resolve" /\ sub' = 0
     \/ pass = "resolve" /\ unresolved /\ sub + 1 < PassLimit /\ pass' = "resolve" /\ sub' = sub + 1
     \/ /\ pass = "resolve" /\ ~ (unresolved /\ sub + 1 < PassLimit)
        /\ pass' = "check" /\ sub' = 0
     \/ pass = "check" /\ pass' = (IF errors = {} THEN "accepted" ELSE "rejected") /\ sub' = 0
  /\ next' = 1
  /\ unresolved' = FALSE
  /\ UNCHANGED <<funcs, order, tables, stack, errors>>

Init ==
  /\ funcs \in Programs
  /\ order = [i \in DOMAIN funcs |-> i]
  /\ bases = {} /\ symbols = <<>>
  /\ overloads = [n \in Names |-> <<>>] /\ generics = [n \in Names |-> <<>>]
  /\ pass = "register" /\ sub = 0 /\ next = 1
  /\ stack = <<>> /\ unresolved = FALSE /\ errors = {}

Next ==
  \/ RegisterFunc \/ RegisterGeneric \/ VisitFunc \/ SkipGeneric
  \/ ReturnValue
  \/ CallExact \/ CallKept \/ CallOverload \/ NextOverload \/ CallFails
  \/ CallGeneric \/ GenericMismatch \/ GenericOverflow
  \/ FinishFunc \/ FinishInstance \/ EndWalk

Spec == Init /\ [][Next]_vars
=============================================================================
