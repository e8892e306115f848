---------------------------- MODULE MCFuncDecls ----------------------------
(***************************************************************************)
(* Files of two to four functions.                                         *)
(***************************************************************************)
EXTENDS FuncDeclsSpec

MCTypes == {"int8", "uint8", "int32", "int", "int64", "bool", "nil", "void", "noflags",
            "&int", "&pure int", "pure int", "&&int", "pure &int", "&pure &int"}

(* Name, kind, size, largest value, element and alias.  The largest value   *)
(* TLC has stands for that of int64.                                       *)
TypeTable ==
  {<<"int8", "integral", 1, 127, "", "">>, <<"uint8", "integral", 1, 255, "", "">>,
   <<"int32", "integral", 4, 2147483647, "", "">>, <<"int", "integral", 4, 2147483647, "", "int32">>,
   <<"int64", "integral", 8, 2147483647, "", "">>, <<"bool", "integral", 1, 1, "", "">>,
   <<"nil", "nil", 8, 0, "", "">>, <<"void", "void", 0, 0, "", "">>, <<"noflags", "enumflags", 4, 0, "", "">>,
   <<"pure int", "integral", 4, 0, "int", "">>, <<"&int", "ptr", 8, 0, "int", "">>,
   <<"&pure int", "ptr", 8, 0, "pure int", "">>, <<"&&int", "ptr", 8, 0, "&int", "">>,
   <<"pure &int", "ptr", 8, 0, "&int", "">>, <<"&pure &int", "ptr", 8, 0, "pure &int", "">>}

OrNoType(t) == IF t = "" THEN NoType ELSE t

MCTypeDef ==
  [t \in MCTypes |->
    CHOOSE def \in {[kind |-> row[2], size |-> row[3], max |-> row[4], pure |-> t \in {"pure int", "pure &int"},
                     elem |-> OrNoType(row[5]), alias |-> OrNoType(row[6]), fields |-> <<>>] :
                       row \in {r \in TypeTable : r[1] = t}} : TRUE]

MCNames == {"f", "g", "h"}

Lit(v) == [lit |-> TRUE, v |-> v, t |-> "int", cast |-> FALSE]
Nil == [lit |-> TRUE, v |-> 0, t |-> "nil", cast |-> FALSE]
Par(i) == [lit |-> FALSE, v |-> i, t |-> NoType, cast |-> FALSE]

Call(fn, args) == [ret |-> FALSE, fn |-> fn, args |-> args, callee |-> 0, t |-> NoType]
Return(args) == [Call(NoFunc, args) EXCEPT !.ret = TRUE]
ReturnCall(fn, args) == [Call(fn, args) EXCEPT !.ret = TRUE]

Func(name, params, ret, body) ==
  [name |-> name, params |-> params, ret |-> ret, body |-> body, pos |-> 0,
   typed |-> FALSE, result |-> NoType, argsUnresolved |-> FALSE]

Orders(a, b, c) == {<<a, b, c>>, <<b, a, c>>, <<b, c, a>>}

(* A call and two overloads of the function it names, in every order.      *)
OverloadParams == {<<t>> : t \in {"int8", "int32", "int", "int64", "&int", "&pure int", "&pure &int"}}
Overloads ==
  UNION {Orders(Func("f", <<t>>, NoType, <<ReturnCall("g", <<a>>)>>),
                Func("g", p, "int", <<Return(<<Lit(1)>>)>>),
                Func("g", q, "int64", <<Return(<<Lit(1)>>)>>)) :
           t \in {"int8", "int32", "int", "int64", "&int"}, a \in {Lit(100), Lit(200), Nil, Par(1)},
           p \in OverloadParams, q \in OverloadParams}

(* Calls with two literals.                                                *)
Pairs == {<<"uint8", "bool">>, <<"uint8", "uint8">>, <<"int8", "int64">>, <<"int64", "int64">>}
Literals ==
  UNION {Orders(Func("f", <<"int64">>, NoType, <<Call("g", <<Lit(v), a>>)>>),
                Func("g", p, "int", <<Return(<<Lit(1)>>)>>),
                Func("g", q, "int64", <<Return(<<Lit(1)>>)>>)) :
           v \in {1, 200, 255, 300}, a \in {Lit(0), Par(1)}, p \in Pairs, q \in Pairs}

(* Functions that return each other's results.                             *)
Bodies == {<<>>} \cup {<<Return(<<Par(1)>>)>>, <<Return(<<Lit(7)>>)>>, <<Return(<<Nil>>)>>}
          \cup {<<ReturnCall(n, <<Par(1)>>)>> : n \in MCNames}
          \cup {<<ReturnCall(n, <<Par(1)>>), Return(<<a>>)>> : n \in MCNames, a \in {Par(1), Lit(7), Nil}}
          \cup {<<Call("h", <<Par(1)>>)>>, <<Return(<<Nil>>), ReturnCall("g", <<Par(1)>>)>>}
Deduced ==
  {<<Func("f", <<u>>, NoType, b1), Func("g", <<u>>, r, b2), Func("h", <<"int64">>, NoType, b3)>> :
     u \in {"int64", "&int"}, r \in {NoType, "int32"}, b1 \in Bodies,
     b2 \in {<<>>, <<Return(<<Par(1)>>)>>, <<ReturnCall("f", <<Par(1)>>)>>, <<ReturnCall("h", <<Par(1)>>)>>,
             <<ReturnCall("h", <<Par(1)>>), Return(<<Par(1)>>)>>},
     b3 \in {<<Return(<<Lit(7)>>)>>, <<Return(<<Par(1)>>)>>, <<ReturnCall("g", <<Par(1)>>)>>}}

(* A generic function, called twice, beside others.                        *)
Generic ==
  {<<Func("f", <<"int32">>, NoType, <<Call("g", a), ReturnCall("g", b)>>),
     Func("g", p, r, body),
     other>> :
     a \in {<<Par(1)>>, <<Lit(3), Par(1)>>, <<Par(1), Par(1)>>}, b \in {<<Par(1)>>, <<Par(1), Lit(3)>>, <<Par(1), Par(1)>>},
     p \in {<<Untyped>>, <<Untyped, "int8">>, <<Untyped, "int64">>, <<Untyped, Untyped>>},
     r \in {NoType, "int64"},
     body \in {<<Return(<<Par(1)>>)>>, <<ReturnCall("h", <<Par(1)>>)>>, <<ReturnCall("g", <<Par(1)>>)>>,
               <<Call("h", <<Par(1)>>), Return(<<Par(1)>>)>>, <<Call("g", <<Par(1)>>), Return(<<Par(1)>>)>>},
     other \in {Func("h", <<"int32">>, NoType, <<Return(<<Lit(1)>>)>>), Func("h", <<Untyped>>, NoType, <<Return(<<Par(1)>>)>>),
                Func("g", <<"int32">>, "int32", <<Return(<<Lit(1)>>)>>),
                Func("h", <<"int32">>, NoType, <<ReturnCall("g", <<Par(1)>>)>>)}}

MCPrograms ==
  {[i \in DOMAIN file |-> [file[i] EXCEPT !.pos = i]] :
     file \in Overloads \cup Literals \cup Deduced \cup Generic}
=============================================================================
