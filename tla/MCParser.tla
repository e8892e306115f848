------------------------------ MODULE MCParser ------------------------------
(* Files for the parser: trees of every kind of node, written out, and     *)
(* sequences of tokens that nobody wrote on purpose.                       *)
EXTENDS ParserSpec

N(k, cs) == FlattenSeq(cs) \o <<<<k, Len(cs)>>>>
L(x) == <<<<x, 0>>>>
NoNode == L("none")
ListOf(xs) == N("arg_list", xs)

A == L("a")  B == L("b")  One == L("1")
T == N("type_expr", <<A>>)
Applied(xs) == N("type_expr", <<N("type_constructor_instance", <<T, ListOf(xs)>>)>>)
Call(x, xs) == N("call", <<x, ListOf(xs)>>)
Named(x) == ListOf(<<x>>)
Let(x, type, value) == N("let", <<Named(x), type, value>>)
Assign(x, e) == N("=", <<x, e>>)
Several(xs) == N("init_expr", <<ListOf(xs)>>)
Stmts(xs) == N("stmt_list", xs)
BlockOf(xs) == N("compound_stmt", xs)
FuncF(args, type, body) == N("func", <<L("f"), args, type, body>>)
Decls(xs) == N("decl_list", xs)

---------------------------------------------------------------------------
(* Expressions: every kind, every kind inside every other, and chains of   *)
(* three operators of six precedences.                                     *)

Ops == {"+=", "||", "&&", "&", "-", "*"}
Bin(op, x, y) == N(op, <<x, y>>)

Kinds ==
     {A, One, L("nil"), L("true"), N("::", <<A, B>>), N("::", <<A, B, A>>)}
\cup {N(u, <<A>>) : u \in UnaryOperators} \cup {Bin(o, A, B) : o \in Ops}
\cup {Call(A, xs) : xs \in {<<>>, <<B>>, <<B, One>>, <<B, A, One>>}}
\cup {N("index", <<A, x>>) : x \in {One, Several(<<B, One>>)}}
\cup {N("field", <<A, B>>), N("cast", <<T, A>>), N("ternary", <<A, B, One>>)}
\cup {Several(xs) : xs \in {<<>>, <<A>>, <<A, B>>, <<Let(B, NoNode, One), Let(A, NoNode, B)>>}}
\cup {N("init_expr", <<x, ListOf(<<A, B>>)>>) : x \in {T, Applied(<<T>>), Applied(<<Applied(<<>>), One>>)}}
\cup {N("overload", <<A, T>>), N("const_expr", <<T>>)}
\cup {N("func_expr", <<NoNode, ListOf(<<Let(A, T, NoNode)>>), T, BlockOf(<<Stmts(<<N("return", <<A>>)>>)>>)>>)}

Around(x) ==
     {N(u, <<x>>) : u \in UnaryOperators}
\cup UNION {{Bin(o, x, A), Bin(o, A, x)} : o \in Ops}
\cup {Call(x, <<A>>), Call(A, <<x, B>>), Call(A, <<B, x>>), N("index", <<x, A>>), N("index", <<A, x>>)}
\cup {N("field", <<x, B>>), N("cast", <<T, x>>), Several(<<x, A>>), Several(<<A, x>>)}
\cup {N("ternary", <<x, A, B>>), N("ternary", <<A, x, B>>), N("ternary", <<A, B, x>>)}
\cup {N("init_expr", <<T, ListOf(<<x, B>>)>>), Several(<<Let(B, NoNode, x)>>)}

Chains3 ==
  UNION {{Bin(p, Bin(o, A, B), Bin(q, One, A)), Bin(p, Bin(o, Bin(q, A, B), A), One),
          Bin(p, A, Bin(o, B, Bin(q, One, A))), Bin(p, A, Bin(o, Bin(q, A, B), One)),
          Bin(p, N("-", <<Bin(o, A, B)>>), N("-", <<Bin(q, A, B)>>))} : o, p, q \in Ops}

Exprs == Kinds \cup UNION {Around(x) : x \in Kinds} \cup Chains3

---------------------------------------------------------------------------
(* Types, statements, declarations.                                        *)

Fields == <<Let(A, T, NoNode), Let(B, T, One), FuncF(ListOf(<<>>), NoNode, NoNode)>>
TypeTrees ==
     {A, N("::", <<A, B>>), L("nil"), L("error"), N("ptr", <<A>>), N("pure_type", <<N("ptr", <<A>>)>>)}
\cup {N("slice_type", <<T>>), N("array_type", <<Bin("*", A, One), T>>), N("tuple_type", <<NoNode>>)}
\cup {N("tuple_type", <<ListOf(xs)>>) : xs \in {<<T>>, <<T, T, T>>}}
\cup {N("struct_type", <<Decls(SubSeq(Fields, 1, n))>>) : n \in 1 .. 3}
\cup {N("func_pointer_type", <<x, T>>) : x \in {ListOf(<<>>), ListOf(<<T, T>>), Decls(<<Let(A, T, NoNode)>>)}}
\cup {N(e, <<b, ListOf(<<A, B>>)>>) : e \in {"enum", "enumflags"}, b \in {NoNode, T}}
\cup {N("type_constructor_instance", <<T, ListOf(<<T, T>>)>>)}
AroundType(t) ==
  LET x == N("type_expr", <<t>>) IN
  {N("ptr", <<t>>), N("slice_type", <<x>>), N("array_type", <<One, x>>), N("tuple_type", <<ListOf(<<x, T>>)>>),
   N("struct_type", <<Decls(<<Let(A, x, NoNode), Let(B, T, NoNode)>>)>>),
   N("func_pointer_type", <<ListOf(<<x>>), x>>), N("type_constructor_instance", <<T, ListOf(<<x, T>>)>>)}
AllTypes == {N("type_expr", <<t>>) : t \in TypeTrees \cup UNION {AroundType(t) : t \in TypeTrees}}

Simple == {Assign(A, One), Assign(Several(<<A, B>>), Several(<<B, A>>)), Call(A, <<>>), N("return", <<B>>),
           N("return", <<Several(<<A, B>>)>>), L("break")}
Blocks(S) ==
     {BlockOf(<<>>)} \cup {BlockOf(<<Stmts(<<s, t>>)>>) : s \in S, t \in {Assign(A, B), N("&", <<A>>)}}
\cup {BlockOf(<<Stmts(<<s>>), Stmts(<<t>>)>>) : s \in S, t \in {Assign(A, B), L("break")}}
\cup {BlockOf(<<Decls(<<Let(A, NoNode, B)>>), Stmts(<<s>>), Decls(<<Let(B, T, NoNode), Let(A, NoNode, NoNode)>>)>>) : s \in S}
Control(S) ==
     {N("if", <<Bin("&&", A, B), s>>) : s \in S} \cup {N("if", <<A, s, t>>) : s \in {L("continue"), Call(A, <<>>)}, t \in S}
\cup {N("for", <<A, s>>) : s \in S} \cup {N("for_in", <<Named(A), r, s>>) : r \in {Bin("..", A, B), Several(<<A, B>>)}, s \in S}
\cup {N("defer", <<s>>) : s \in S \cup {L("asm")}}
Few == {Assign(A, One), N("return", <<B>>)}
AllBlocks == Blocks(Simple) \cup Blocks(Control(Few)) \cup Blocks(Control(Blocks(Few)))
        \cup {BlockOf(<<Stmts(<<s>>)>>) : s \in Control(Control(Simple \cup {N("return", <<NoNode>>)}))}

Arguments == {NoNode, ListOf(<<>>), ListOf(<<Let(A, NoNode, NoNode)>>), ListOf(<<N("let", <<L("pure"), Named(A), T, NoNode>>)>>),
              ListOf(<<N("const_expr", <<T>>), Let(A, T, NoNode), Let(B, NoNode, One)>>)}
DeclTrees ==
     {N(k, <<ListOf(xs), t, v>>) : k \in {"let", "const"}, xs \in {<<A>>, <<A, B>>, <<A, N("rest", <<B>>)>>},
                                  t \in {NoNode, T}, v \in {NoNode, One, Several(<<A, B>>), L("noinit")}}
\cup {N("pure", <<L("pure"), Named(A), T, NoNode>>)}
\cup {FuncF(args, t, body) : args \in Arguments, t \in {NoNode, T},
        body \in {NoNode, BlockOf(<<>>), One, Several(<<A, B>>)}}
\cup {N(k, <<A, T>>) : k \in {"type", "typealias"}}
\cup {N("type_constructor", <<A, ListOf(<<Let(B, T, NoNode), Let(A, NoNode, NoNode)>>), T>>)}
\cup {N("error_decl", xs) : xs \in {<<>>, <<A, B>>}}
\cup {N("import", <<x, y>>) : x \in {A, N("::", <<A, B>>)}, y \in {NoNode, B}} \cup {L("asm")}
\cup {N(v, <<x>>) : v \in {"public", "private", "internal"},
                    x \in {NoNode, Let(A, T, NoNode), Decls(<<Let(A, T, NoNode), FuncF(NoNode, NoNode, NoNode)>>)}}
CStruct(n) == N("c_struct", <<A, Decls([i \in 1 .. n |-> N("c_field", <<A, L("const"), L("*"), B>>)])>>)
Contents == {FuncF(ListOf(<<>>), T, NoNode), Let(A, T, NoNode), Decls(<<Let(A, NoNode, NoNode), FuncF(NoNode, T, NoNode)>>)}
Linkages ==
     {N(k, <<x, y>>) : k \in {"extern", "extern_c"}, x \in {NoNode, B, N("::", <<A, B>>)}, y \in Contents}
\cup {N("extern_c", <<NoNode, Decls(<<x, CStruct(2)>>)>>) :
        x \in {CStruct(1), N("extern", <<NoNode, Decls(<<Let(A, NoNode, NoNode)>>)>>), FuncF(NoNode, NoNode, BlockOf(<<>>))}}

Trees ==
     {Decls(<<Let(A, NoNode, e)>>) : e \in Exprs} \cup {Decls(<<Let(A, t, NoNode)>>) : t \in AllTypes}
\cup {Decls(<<FuncF(ListOf(<<>>), NoNode, b)>>) : b \in AllBlocks}
\cup {Decls(<<d>>) : d \in DeclTrees \cup Linkages}
\cup {Decls(<<d, e>>) : d \in DeclTrees \cup Linkages,
                        e \in {Let(A, T, NoNode), N("import", <<A, B>>), L("asm"), N("extern_c", <<NoNode, Decls(<<CStruct(1)>>)>>)}}

---------------------------------------------------------------------------
(* Tokens in any order: in a function, at the level of the file.           *)

Seqs(S, n) == UNION {[1 .. k -> S] : k \in 0 .. n}
InFunction(s) == <<"func", "f", "(", ")", "{">> \o s \o <<"}">>
Pieces == {<<"extern", "(", "C", ")", "{">>, <<"extern", "{">>, <<"}">>, <<"struct", "a", "{", "}">>,
           <<"func", "f", "{">>, <<"public">>}
Random ==
     {InFunction(s) : s \in Seqs({"a", "1", "-", ",", "(", ")", "=", ";", "{", "}", ".", "let", "return"}, 3)}
\cup {<<"let", "a", "=">> \o s : s \in Seqs({"a", "+", "-", "(", ")", ","}, 4)}
\cup {FlattenSeq(s) : s \in Seqs(Pieces, 4)}
\cup Seqs({"let", "a", ":", "=", "1", ";", "#", "define"}, 3)

MCNames == {"a", "b", "f", "C", "carbon", "define"}
MCFiles == {[tokens |-> Text(t), tree |-> t] : t \in Trees} \cup {[tokens |-> s, tree |-> <<>>] : s \in Random}
=============================================================================
