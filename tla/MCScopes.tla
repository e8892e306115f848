------------------------------ MODULE MCScopes ------------------------------
(***************************************************************************)
(* Programs for Scopes: functions with locals in two scopes, and three     *)
(* modules that import each other.                                         *)
(***************************************************************************)
EXTENDS ScopesSpec

Blank == [kind |-> "block", module |-> 1, file |-> 1, scope |-> Module(1),
          names |-> <<>>, uses |-> <<>>, from |-> 0, alias |-> ""]

U(n) == [of |-> "", name |-> n]
Q(of, n) == [of |-> of, name |-> n]

Let(names, uses) == [Blank EXCEPT !.kind = "let", !.names = names, !.uses = uses]
Reads(n) == [Blank EXCEPT !.kind = "use", !.uses = <<U(n)>>]
TypeDecl == [Blank EXCEPT !.kind = "type", !.names = <<"T">>]
TypeName(u) == [Blank EXCEPT !.kind = "typename", !.uses = <<u>>]
Import(m, alias) == [Blank EXCEPT !.kind = "import", !.from = m, !.alias = alias]

Put(item, s) == [item EXCEPT !.scope = s]
InFile(item, m, f) == [item EXCEPT !.module = m, !.file = f, !.scope = Module(m)]

(* func f(arg) { one; { two; three } four } where the inner block may be   *)
(* the body of a loop.                                                     *)
Simple == {Let(<<n>>, v) : n \in {"a", "b"}, v \in {<<>>, <<U("a")>>}}
          \cup {Let(<<"a", "b">>, <<>>), Let(<<"b", "a">>, <<>>), Let(<<"b", "a">>, <<U("a")>>)}
Func(args) == [Blank EXCEPT !.kind = "func", !.names = args]
For(n, range) == [Blank EXCEPT !.kind = "for", !.names = <<n>>, !.uses = range]

(* or a global after the function *)
Global == Let(<<"g">>, <<>>)

Locals ==
  { <<Func(args), Put(one, 1), Put(loop, 1), Put(Blank, IF loop.kind = "for" THEN 3 ELSE 1),
      Put(two, 4), Put(three, 4), IF four = Global THEN four ELSE Put(four, 1)>> :
      args \in {<<>>, <<"a">>}, one \in Simple,
      loop \in {Blank, For("a", <<>>), For("b", <<U("a")>>), For("c", <<U("g")>>)},
      two \in Simple \cup {Let(<<"c", "d">>, <<U("g")>>)}, three \in Simple \cup {Reads("a"), Reads("c")},
      four \in {Reads("a"), Reads("b"), Let(<<"b">>, <<U("b")>>), Global} }

(* Module 2, between 1 and 3, imports two modules and has two files.       *)
Importing == {Let(<<"a">>, <<>>), Let(<<"b">>, <<U("a")>>), Let(<<"b">>, <<Q("m3", "a")>>),
              Let(<<"b">>, <<Q("k", "a")>>), TypeDecl, TypeName(U("T")), TypeName(U("B")),
              TypeName(Q("k", "T"))}

Third == { <<Let(<<"a">>, <<>>), Let(<<"b">>, <<U("a")>>)>>,
           <<Let(<<"a">>, <<U("b")>>), Let(<<"b">>, <<>>)>>,
           <<Let(<<"a">>, <<U("b")>>), Let(<<"b">>, <<U("a")>>)>>,
           <<Let(<<"a">>, <<Q("m2", "b")>>), TypeDecl>> }

Modules ==
  { <<InFile(first, 1, 1),
      InFile(Import(one, ""), 2, 2), InFile(x, 2, 2),
      InFile(Import(two, alias), 2, 3), InFile(y, 2, 3),
      InFile(Import(2, ""), 3, 4), InFile(third[1], 3, 4), InFile(third[2], 3, 5)>> :
      first \in {Let(<<"a">>, <<>>), TypeDecl}, one \in {1, 3}, x \in Importing,
      two \in 1 .. 4, alias \in {"", "k"}, y \in Importing \ {TypeName(U("B"))},
      third \in Third }

MCNames == {"a", "b", "c", "d", "g", "T", "B"}
MCBuiltins == {"B"}
MCPrograms == {p \in Locals \cup Modules : Plain(p)}
=============================================================================
