----------------------------- MODULE ParserSpec -----------------------------
(* What the parser promises: it reads back what a tree is written as, it   *)
(* drops nothing of what it accepts, and it knows what stands inside an    *)
(* extern(C).  Text is the grammar the other way round: how a tree is      *)
(* written, with the parentheses its operators ask for and no more.        *)
EXTENDS Parser

(* How tight a text binds.                                                 *)
Tight == 3000   \* a name, a literal, a call, a list in braces
Built == 2500   \* what ends in a type, or begins with one
Prefix == 2000  \* a unary operator, a cast
Loose == 1      \* a ternary, a function: it takes the comma behind it

(* With a text goes how it is written where it needs no word, no braces.   *)
Written(t, bare, level) == [t |-> t, bare |-> bare, level |-> level]
Plain(t, level) == Written(t, t, level)

AtLeast(x, level) == IF x.level < level THEN <<"(">> \o x.t \o <<")">> ELSE x.t
After(before, t) == IF t = <<>> THEN <<>> ELSE before \o t
Braces(t) == <<"{">> \o t \o <<"}">>
Parens(t) == <<"(">> \o t \o <<")">>

Joined(ts, mark) == FoldLeft(LAMBDA all, t : all \o (IF all = <<>> THEN <<>> ELSE mark) \o t, <<>>, ts)
Texts(xs) == [i \in DOMAIN xs |-> xs[i].t]
Bares(xs) == [i \in DOMAIN xs |-> xs[i].bare]

(* Only the last item of a list may be one that takes the comma behind it. *)
Items(xs) ==
  LET Value(x, i) == IF i < Len(xs) THEN AtLeast(x, Loose + 1) ELSE x.t
      Item(x, i) == IF x.kind = "let" THEN <<".">> \o x.kids[1].t \o <<"=">> \o Value(x.kids[3], i)
                    ELSE Value(x, i)
  IN Joined([i \in DOMAIN xs |-> Item(xs[i], i)], <<",">>)

(* Declarations and statements stand behind each other.  A semicolon is    *)
(* written in front of what could go on with the one before.               *)
GoesOn(all, t) == all # <<>> /\ t # <<>> /\ Last(all) # ";" /\ ~IsWord(t[1])
Lines(ts) ==
  FoldLeft(LAMBDA all, t : all \o (IF GoesOn(all, t) THEN <<";">> ELSE <<>>) \o t, <<>>, ts)

-----------------------------------------------------------------------------
(* The text of a node of kind k with the children c.                       *)

(* A semicolon keeps a variable that has nothing but its names from the    *)
(* brace behind it: parse_var_decl would take it for the end of the names. *)
VariableText(k, c) ==
  LET n == Len(c)
      rest == c[n - 2].t \o After(<<":">>, c[n - 1].t) \o After(<<"=">>, c[n].bare)
      pure == [i \in 1 .. n - 3 |-> "pure"]
      end == IF c[n - 1].t \o c[n].t = <<>> THEN <<";">> ELSE <<>>
  IN Written(pure \o <<IF k = "pure" THEN "let" ELSE k>> \o rest \o end, pure \o rest, Tight)

Function(c) ==
  c[1].t \o (IF c[2].kind = "none" THEN <<>> ELSE Parens(Joined(Bares(c[2].kids), <<",">>)))
    \o After(<<":">>, c[3].t) \o (IF c[4].kind = "compound_stmt" THEN c[4].t ELSE After(<<"=">>, c[4].bare))

ListText(c) ==
  LET list == c[Len(c)].kids
      typed == Len(c) = 2
      t == (IF typed THEN c[1].t ELSE <<>>) \o Braces(Items(list))
      named == \E i \in DOMAIN list : list[i].kind = "let"
  IN Written(t, IF typed \/ named \/ Len(list) < 2 THEN t ELSE Items(list), IF typed THEN Built ELSE Tight)

Expression(k, c) ==
  CASE k = "arg_list"   -> Plain(Items(c), Tight)
    [] k = "init_expr"  -> ListText(c)
    [] k = "::"         -> Plain(Joined(Texts(c), <<"::">>), Tight)
    [] k = "rest"       -> Plain(c[1].t \o <<"...">>, Tight)
    [] k = "call"       -> Plain(AtLeast(c[1], Tight) \o Parens(c[2].t), Tight)
    [] k = "index"      -> Plain(AtLeast(c[1], Tight) \o <<"[">> \o c[2].bare \o <<"]">>, Tight)
    [] k = "field"      -> Plain(AtLeast(c[1], Tight) \o <<".">> \o c[2].t, Tight)
    [] k = "overload"   -> Plain(c[1].t \o <<"\\">> \o c[2].t, Built)
    [] k = "const_expr" -> Plain(<<"type">> \o c[1].t, Built)
    [] k = "cast"       -> Plain(<<"cast">> \o Parens(c[1].t) \o AtLeast(c[2], Prefix), Prefix)
    [] k = "func_expr"  -> Plain(<<"func">> \o Function(c), Loose)
    [] k = "ternary"    ->
         Plain(AtLeast(c[1], Loose + 1) \o <<"then">> \o c[2].bare \o <<"else">> \o c[3].bare, Loose)

Operator(k, c) ==
  IF Len(c) = 1 THEN Plain(<<k>> \o AtLeast(c[1], Prefix), Prefix)
  ELSE Plain(AtLeast(c[1], Precedence[k]) \o <<k>> \o AtLeast(c[2], Precedence[k] + 1), Precedence[k])

TypeText(k, c) ==
  CASE k = "type_expr"         -> c[1].t
    [] k = "ptr"               -> <<"&">> \o c[1].t
    [] k = "pure_type"         -> <<"pure">> \o c[1].t
    [] k = "slice_type"        -> <<"[", "]">> \o c[1].t
    [] k = "array_type"        -> <<"[">> \o c[1].t \o <<"]">> \o c[2].t
    [] k = "tuple_type"        -> Braces(c[1].t)
    [] k = "struct_type"       -> <<"struct">> \o Braces(Lines(Bares(c[1].kids)))
    [] k = "func_pointer_type" ->
         (IF c[1].kind = "arg_list" THEN Braces(c[1].t) ELSE <<"struct">> \o Braces(Lines(Bares(c[1].kids))))
           \o <<"->">> \o c[2].t
    [] k \in {"enum", "enumflags"} ->
         <<k>> \o After(<<":">>, c[1].t) \o Braces(FlattenSeq(Texts(c[2].kids)))
    [] k = "type_constructor_instance" -> c[1].t \o Parens(c[2].t)

StatementText(k, c) ==
  CASE k \in {"decl_list", "compound_stmt"} ->
         IF k = "decl_list" THEN Lines(Texts(c)) ELSE Braces(Lines(Texts(c)))
    [] k = "stmt_list" -> Joined(Texts(c), <<";">>)
    [] k = "="         -> c[1].bare \o <<"=">> \o c[2].bare
    [] k = "return"    -> <<"return">> \o c[1].bare
    [] k = "defer"     -> <<"defer">> \o c[1].t
    [] k = "for"       -> <<"for">> \o Parens(c[1].bare) \o c[2].t
    [] k = "for_in"    -> <<"for">> \o Parens(c[1].t \o <<"in">> \o c[2].bare) \o c[3].t
    [] k = "if"        -> <<"if">> \o Parens(c[1].t) \o c[2].t
                            \o (IF Len(c) = 3 THEN <<"else">> \o c[3].t ELSE <<>>)

Content(x) == IF x.kind \in {"decl_list", "none"} THEN Braces(x.t) ELSE x.t

DeclText(k, c) ==
  CASE k = "func"             -> <<"func">> \o Function(c)
    [] k \in {"type", "typealias"} -> <<k>> \o c[1].t \o <<"=">> \o c[2].t
    [] k = "type_constructor" ->
         <<"type">> \o c[1].t \o Parens(Joined(Bares(c[2].kids), <<",">>)) \o <<"=">> \o c[3].t
    [] k = "error_decl"       -> <<"error">> \o Braces(FlattenSeq(Texts(c)))
    [] k = "import"           -> <<"import">> \o c[1].t \o After(<<"as">>, c[2].t)
    [] k = "extern_c"         ->
         <<"extern", "(", "C">> \o After(<<",">>, c[1].t) \o <<")">> \o Content(c[2])
    [] k = "extern"           ->
         <<"extern">> \o (IF c[1].t = <<>> THEN <<>> ELSE Parens(<<",">> \o c[1].t)) \o Content(c[2])
    [] k = "c_struct"         -> <<"struct">> \o c[1].t \o Braces(FlattenSeq(Texts(c[2].kids)))
    [] k = "c_field"          -> FlattenSeq(Texts(c)) \o <<";">>
    [] k \in {"public", "private", "internal"} -> <<k>> \o Content(c[1])

Expressions == {"arg_list", "init_expr", "::", "rest", "call", "index", "field", "overload",
                "const_expr", "cast", "func_expr", "ternary"}
Types == {"type_expr", "ptr", "pure_type", "slice_type", "array_type", "tuple_type", "struct_type",
          "func_pointer_type", "enum", "enumflags", "type_constructor_instance"}
Statements == {"decl_list", "compound_stmt", "stmt_list", "=", "return", "defer", "for", "for_in", "if"}

NodeText(k, c) ==
  CASE k \in Expressions  -> Expression(k, c)
    [] k \in Types        -> Plain(TypeText(k, c), Tight)
    [] k \in Statements   -> Plain(StatementText(k, c), Tight)
    [] k = "asm"          -> Plain(<<"asm", "%", "{", "}%asm">>, Tight)
    [] k = "none"         -> Plain(<<>>, Tight)
    [] k \in {"let", "const", "pure"} /\ Len(c) > 2       -> VariableText(k, c)
    [] k \in DOMAIN Precedence \cup UnaryOperators /\ c # <<>> -> Operator(k, c)
    [] c = <<>> /\ k # "error_decl"                       -> Plain(<<k>>, Tight)
    [] OTHER              -> Plain(DeclText(k, c), Tight)

(* A tree is written from its leaves to its root.                          *)
WriteNode(xs, node) ==
  LET first == Len(xs) - node[2]
      c == SubSeq(xs, first + 1, Len(xs))
  IN Append(SubSeq(xs, 1, first), NodeText(node[1], c) @@ [kind |-> node[1], kids |-> c])

Text(tree) == FoldLeft(WriteNode, <<>>, tree)[1].t

-----------------------------------------------------------------------------

(* A file written from a tree is read as that tree: operators by their     *)
(* precedence and from left to right, lists, types, statements and         *)
(* declarations where they stand, with a semicolon only where two of them  *)
(* would run into each other.                                              *)
ReadsSource ==
  source # <<>> /\ parser.end # "" =>
    parser.end = "parsed" /\ parser.at > Len(tokens) /\ parser.out = source

(* What carries a meaning by itself: names, literals, operators.           *)
Meant(ts) ==
  SelectSeq(ts, LAMBDA t : t \in (Names \ {"C", "carbon", "define"}) \cup Literals
                                   \cup DOMAIN Precedence \cup UnaryOperators)

(* Unknown tags are skipped with a message.  A stale name stands where the *)
(* parser took a token for an identifier that is none.                     *)
KnownTags == \A i \in 2 .. Len(tokens) : tokens[i - 1] = "#" => tokens[i] = "define"
NamesRead == \A i \in DOMAIN parser.out : parser.out[i][1] # "stale"

(* Whatever is accepted, everything that was read is in the tree, once and *)
(* in its place, unless a name was stale; and reading ends with the file,  *)
(* at its limit, or at a token that begins no declaration.                 *)
NothingDropped ==
  parser.end = "parsed" /\ KnownTags /\ NamesRead =>
    /\ Meant(SubSeq(tokens, 1, parser.at - 1)) = Meant(Text(parser.out))
    /\ parser.at <= Len(tokens) /\ tries < ListLimit =>
         Token(parser.at) \notin {"let", "const", "pure", "func", "type", "typealias", "import", "extern", "#"}

(* Which structures of a tree stand outside of every extern, and which     *)
(* inside one of the language itself.                                      *)
Enclose(xs, node) ==
  LET first == Len(xs) - node[2]
      inside == UNION {xs[i] : i \in first + 1 .. Len(xs)}
  IN Append(SubSeq(xs, 1, first),
       CASE node = <<"c_struct", 2>> -> inside \cup {"open"}
         [] node[1] = "extern_c"     -> inside \ {"open"}
         [] node[1] = "extern"       -> IF "open" \in inside THEN (inside \ {"open"}) \cup {"wrong"} ELSE inside
         [] OTHER                    -> inside)

(* A C structure is only read where the linkage is C: the innermost extern *)
(* around it says so, however externs were opened and left before it.      *)
CStructsInside ==
  parser.end = "parsed" =>
    LET found == FoldLeft(Enclose, <<>>, parser.out)[1] IN
    /\ "wrong" \notin found
    /\ "open" \in found => parser.linkage = "C"
=============================================================================
