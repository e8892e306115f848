------------------------------- MODULE Parser -------------------------------
(* The recursive descent parser of parser.cc.                              *)
(*                                                                         *)
(* parse_code_unit reads a file declaration by declaration; each is one    *)
(* step here, and what the step does is computed by the rules below, one   *)
(* for each parse_ method.  A rule takes the state of the parser and       *)
(* returns it.                                                             *)
(*                                                                         *)
(* Nodes are written in the order a tree is finished: its children, then   *)
(* the kind of the node with the number of its children.  That number      *)
(* makes the sequence a tree, and the last node is the root.  "none" is a  *)
(* null pointer, also where a rule returns it as "nothing here".           *)
EXTENDS Tokens, SequencesExt

CONSTANTS Files,     \* what is parsed: tokens, and the tree they were written from
          Garbage,   \* the values current_linkage may have before it is set
          ListLimit, \* LIMIT of declaration, statement and field lists (8192)
          ArgLimit,  \* LIMIT of parse_arg_list (32)
          PartLimit  \* LIMIT of parse_qualified_identifier (32)

VARIABLES
  source,  \* the tree the file was written from, if it was
  tokens,  \* the file
  parser,  \* the state of parser_impl, and the nodes made so far
  tries,   \* iterations of the loop over the declarations of the file
  decls    \* declarations of the file read so far

vars == <<source, tokens, parser, tries, decls>>

Linkage == {"local", "carbon", "C"}
State == [ at      : Nat,                \* current token
           linkage : Linkage,            \* current_linkage
           retry   : BOOLEAN,            \* decl_retry
           out     : Seq(STRING \X Nat), \* the nodes
           end     : STRING ]            \* "", "error", "crash", "parsed"

-----------------------------------------------------------------------------
(* The lexer as the parser uses it.  Where an error was thrown no rule     *)
(* goes on: it finds a token that nothing begins with.                     *)

Token(i) == IF i > Len(tokens) THEN "eof" ELSE tokens[i]
Tok(p) == IF p.end = "" THEN Token(p.at) ELSE "thrown"
Advance(p) == IF p.at > Len(tokens) THEN p ELSE [p EXCEPT !.at = @ + 1]

End(p, how) == IF p.end = "" THEN [p EXCEPT !.end = how] ELSE p
Fail(p) == End(p, "error")   \* throw parse_error
Crash(p) == End(p, "crash")  \* a null pointer is followed

Expect(p, t) == IF Tok(p) = t THEN Advance(p) ELSE Fail(p)
Optional(p, t) == IF Tok(p) = t THEN Advance(p) ELSE p

-----------------------------------------------------------------------------
(* Nodes.                                                                  *)

Make(p, kind, n) == [p EXCEPT !.out = Append(@, <<kind, n>>)]
Leaf(p, name) == Make(p, name, 0)
None(p) == Leaf(p, "none")
Root(p) == IF p.end = "" THEN Last(p.out) ELSE <<"none", 0>>
IsNone(p) == Root(p) = <<"none", 0>>
Drop(p) == IF p.end = "" THEN [p EXCEPT !.out = Front(@)] ELSE p
List(p, kind, n) == IF n = 0 THEN None(p) ELSE Make(p, kind, n)

(* string_value is the last word the lexer has read: where the grammar     *)
(* wants an identifier and the parser does not ask whether there is one,   *)
(* the name is a stale one.                                                *)
Name(p) == Leaf(Advance(p), IF IsName(Tok(p)) THEN Tok(p) ELSE "stale")
Identifier(p) == IF IsName(Tok(p)) THEN Name(p) ELSE Fail(p)
Identifiers == Names \cup {"stale", "::"}
IsIdentifier(p) == Root(p)[1] \in Identifiers

-----------------------------------------------------------------------------
(* The rules call each other through Parse, which names them.  The numbers *)
(* are those of the loops: iterations and children so far, and the least   *)
(* precedence of parse_binary_expr.                                        *)
RECURSIVE Parse
Rule(r, p) == Parse[r, 0, 0, p]

(* parse_qualified_identifier.                                             *)
Parts(n, p) ==
  IF Tok(p) = "::" /\ n <= PartLimit
  THEN Parse["parts", 0, n + 1, Identifier(Advance(p))]
  ELSE IF n > 1 THEN Make(p, "::", n) ELSE p

QualifiedIdentifier(p) == Parse["parts", 0, 1, Name(p)]

(* parse_arg_list: the lists by what they hold.  The opening token is      *)
(* skipped, whatever it is.                                                *)
Lists == ("call args" :> <<")", "expr">>) @@ ("type args" :> <<")", "type expr">>)
         @@ ("type params" :> <<")", "arg decl">>) @@ ("func args" :> <<")", "func arg">>)
         @@ ("tuple fields" :> <<"}", "tuple field">>) @@ ("init items" :> <<"}", "init item">>)

CloseArgs(list, n, p) == Make(Expect(p, Lists[list][1]), "arg_list", n)

Args(list, n, p) ==
  IF n = ArgLimit THEN CloseArgs(list, n, p)
  ELSE LET arg == Rule(Lists[list][2], p) IN
       IF IsNone(arg) THEN CloseArgs(list, n, Drop(arg))
       ELSE IF Tok(arg) = "," THEN Parse[list, 0, n + 1, Advance(arg)]
       ELSE CloseArgs(list, n + 1, arg)

ArgList(list, p) ==
  LET first == Advance(p) IN
  IF Tok(first) = Lists[list][1] THEN CloseArgs(list, 0, first) ELSE Rule(list, first)

-----------------------------------------------------------------------------
(* Types.                                                                  *)

(* A field list followed by -> is the argument list of a function pointer. *)
FuncPointerOr(p, otherwise) ==
  IF Tok(p) = "->" THEN Make(Rule("type expr", Advance(p)), "func_pointer_type", 2)
  ELSE otherwise

TupleType(p) ==
  LET fields == ArgList("tuple fields", p) IN
  FuncPointerOr(fields,
    Make(IF Root(fields)[2] = 0 THEN None(Drop(fields)) ELSE fields, "tuple_type", 1))

(* A comma may stand behind the last field.                                *)
TupleField(p) == IF Tok(p) = "}" THEN None(p) ELSE Rule("type expr", p)

StructType(p) ==
  LET fields == Expect(Rule("fields", Expect(Advance(p), "{")), "}") IN
  FuncPointerOr(fields, Make(fields, "struct_type", 1))

EnumMembers(n, p) ==
  IF IsName(Tok(p)) THEN Parse["enum members", 0, n + 1, Optional(QualifiedIdentifier(p), ";")]
  ELSE Make(Expect(p, "}"), "arg_list", n)

EnumType(p) ==
  LET kind == Tok(p)
      opened == Advance(p)
      base == IF Tok(opened) = ":" THEN Rule("type expr", Advance(opened)) ELSE None(opened)
  IN Make(Rule("enum members", Expect(base, "{")), kind, 2)

ArrayType(p) ==
  LET opened == Advance(p)
      size == Rule("expr", opened)
  IN IF Tok(opened) = "]" THEN Make(Rule("type expr", Advance(opened)), "slice_type", 1)
     ELSE IF IsNone(size) THEN Fail(size)
     ELSE Make(Rule("type expr", Expect(size, "]")), "array_type", 2)

NamedType(p) ==
  LET name == QualifiedIdentifier(p) IN
  IF Tok(name) = "("
  THEN Make(ArgList("type args", Make(name, "type_expr", 1)), "type_constructor_instance", 2)
  ELSE name

Type(p) ==
  CASE Tok(p) = "{"                      -> TupleType(p)
    [] Tok(p) = "struct"                 -> StructType(p)
    [] Tok(p) \in {"enum", "enumflags"}  -> EnumType(p)
    [] Tok(p) = "["                      -> ArrayType(p)
    [] Tok(p) = "&"                      -> Make(Rule("bare type", Advance(p)), "ptr", 1)
    [] Tok(p) = "pure"                   -> Make(Rule("bare type", Advance(p)), "pure_type", 1)
    [] IsName(Tok(p))                    -> NamedType(p)
    [] Tok(p) \in {"error", "nil"}       -> Leaf(Advance(p), Tok(p))
    [] OTHER                             -> None(p)

(* parse_type_expr with no_wrap, with no_error, and plain.                 *)
BareType(p) == LET t == Rule("type", p) IN IF IsNone(t) THEN Fail(t) ELSE t
TryType(p) == LET t == Rule("type", p) IN IF IsNone(t) THEN t ELSE Make(t, "type_expr", 1)
TypeExpr(p) == LET t == TryType(p) IN IF IsNone(t) THEN Fail(t) ELSE t

-----------------------------------------------------------------------------
(* Lists of declarations, fields and statements.                           *)

Entry == ("decls" :> "decl") @@ ("fields" :> "field")

(* One iteration: what a tag left undone is tried again, anything else     *)
(* that is no entry ends the list.                                         *)
Entries(list, i, n, p) ==
  LET entry == Rule(Entry[list], [p EXCEPT !.retry = FALSE])
      again == list = "decls" /\ entry.retry
  IN IF i = ListLimit THEN List(p, "decl_list", n)
     ELSE IF ~IsNone(entry) THEN Parse[list, i + 1, n + 1, Optional(entry, ";")]
     ELSE IF again THEN Parse[list, i + 1, n, Drop(entry)]
     ELSE List(Drop(entry), "decl_list", n)

StmtList(n, p) ==
  LET stmt == Rule("stmt", p) IN
  IF n = ListLimit THEN List(p, "stmt_list", n)
  ELSE IF IsNone(stmt) THEN List(Drop(stmt), "stmt_list", n)
  ELSE IF Tok(stmt) = ";" THEN Parse["stmts", 0, n + 1, Advance(stmt)]
  ELSE List(stmt, "stmt_list", n + 1)

(* Where neither a declaration nor a statement is found, the loop of       *)
(* parse_compound_stmt goes on: behind empty parentheses, or until its     *)
(* limit without moving.                                                   *)
Block(i, n, p) ==
  LET declared == Rule("decls", p)
      ds == IF IsNone(declared) THEN 0 ELSE 1
      done == Rule("stmts", IF ds = 0 THEN Drop(declared) ELSE declared)
      ss == IF IsNone(done) THEN 0 ELSE 1
      q == IF ss = 0 THEN Drop(done) ELSE done
  IN IF i = ListLimit THEN Make(Expect(p, "}"), "compound_stmt", n)
     ELSE IF q.at = p.at THEN Make(Expect(q, "}"), "compound_stmt", n)
     ELSE Parse["block", i + 1, n + ds + ss, q]

CompoundStmt(p) == Rule("block", Advance(p))

-----------------------------------------------------------------------------
(* Statements.                                                             *)

AssignmentStmt(p) ==
  LET left == Rule("tuple", p) IN
  IF Tok(left) = "=" THEN Make(Rule("tuple", Advance(left)), "=", 2) ELSE left

(* for (name in range) and for (condition).  The two names the code looks  *)
(* for before in are never there: the list of expressions has taken both.  *)
ForStmt(p) ==
  LET opened == Expect(Advance(p), "(")
      expr == Rule("tuple", opened)
      ranges == IsIdentifier(expr) /\ Tok(expr) = "in"
      range == Rule("tuple", Advance(Make(expr, "arg_list", 1)))
      head == IF IsNone(expr) THEN Crash(expr)
              ELSE IF ~ranges THEN expr
              ELSE IF IsNone(range) THEN Fail(range) ELSE range
      body == Rule("stmt", Expect(head, ")"))
  IN IF ranges THEN Make(body, "for_in", 3) ELSE Make(body, "for", 2)

IfStmt(p) ==
  LET cond == Expect(Rule("expr", Expect(Advance(p), "(")), ")")
      body == Rule("stmt", cond)
      other == Rule("stmt", Advance(body))
  IN IF Tok(body) # "else" THEN Make(body, "if", 2)
     ELSE IF IsNone(other) THEN Make(Drop(other), "if", 2) ELSE Make(other, "if", 3)

(* consume_string_until: the text of an asm statement is not read as       *)
(* tokens.  Without an end mark it is the rest of the file.                *)
BehindText(p) ==
  LET ends == {i \in p.at + 1 .. Len(tokens) : tokens[i] = "}%asm"}
  IN [p EXCEPT !.at = IF ends = {} THEN Len(tokens) + 1 ELSE Min(ends) + 1]

AsmStmt(p) ==
  LET text == Expect(Advance(p), "%")
  IN IF Tok(text) = "{" THEN Leaf(BehindText(text), "asm") ELSE Fail(text)

Stmt(p) ==
  CASE Tok(p) = "{"                     -> CompoundStmt(p)
    [] Tok(p) = "for"                   -> ForStmt(p)
    [] Tok(p) \in {"continue", "break"} -> Leaf(Advance(p), Tok(p))
    [] Tok(p) = "if"                    -> IfStmt(p)
    [] Tok(p) = "return"                -> Make(Rule("tuple", Advance(p)), "return", 1)
    [] Tok(p) = "asm"                   -> AsmStmt(p)
    [] Tok(p) = "defer"                 -> Make(Rule("stmt", Advance(p)), "defer", 1)
    [] OTHER                            -> AssignmentStmt(p)

-----------------------------------------------------------------------------
(* Declarations.                                                           *)

(* What may follow a declared name: a type, a value.                       *)
TypeOf(p) == IF Tok(p) = ":" THEN Rule("type expr", Advance(p)) ELSE None(p)
ValueOf(p) == IF Tok(p) = "=" THEN Rule("tuple", Advance(p)) ELSE None(p)

Modifiers(p) == IF Tok(p) = "pure" THEN Rule("modifiers", Leaf(Advance(p), "pure")) ELSE p

(* A variable is named by the token its declaration begins with; its       *)
(* modifiers are children too.                                             *)
Variable(kind, p, named) == Make(ValueOf(TypeOf(named)), kind, Rule("modifiers", p).at - p.at + 3)

ArgDecl(p) == Variable("let", p, Make(Identifier(Rule("modifiers", p)), "arg_list", 1))

MoreNames(n, p) ==
  LET rest == Advance(p)
      name == QualifiedIdentifier(rest)
  IN IF Tok(p) # "," THEN Make(p, "arg_list", n)
     ELSE IF ~IsName(Tok(rest)) THEN Parse["names", 0, n, rest]
     ELSE Parse["names", 0, n + 1, IF Tok(name) = "..." THEN Make(Advance(name), "rest", 1) ELSE name]

VarDecl(p) ==
  LET modified == Rule("modifiers", p)
      declared == IF Tok(modified) \in {"let", "const"} THEN Advance(modified) ELSE Fail(modified)
      names == Parse["names", 0, 1, QualifiedIdentifier(Optional(declared, "{"))]
  IN Variable(Tok(p), p, Optional(names, "}"))

(* A function declaration, and a function in an expression: without name.  *)
FuncDecl(named, p) ==
  LET name == IF named THEN Identifier(Advance(p)) ELSE None(Advance(p))
      args == IF Tok(name) = "(" THEN ArgList("func args", name) ELSE None(name)
      result == TypeOf(args)
      body == IF Tok(result) = "{" THEN Rule("compound", result) ELSE ValueOf(result)
  IN Make(body, IF named THEN "func" ELSE "func_expr", 4)

FuncArg(p) == IF Tok(p) = "type" THEN Rule("primary", p) ELSE ArgDecl(p)

TypeDecl(p) ==
  LET name == Identifier(Advance(p))
      params == ArgList("type params", name)
  IN IF Tok(name) = "(" THEN Make(Rule("type expr", Expect(params, "=")), "type_constructor", 3)
     ELSE Make(Rule("type expr", Expect(name, "=")), Tok(p), 2)

ErrorNames(n, p) ==
  IF IsName(Tok(p)) THEN Parse["error names", 0, n + 1, Name(p)]
  ELSE Make(Expect(p, "}"), "error_decl", n)

ErrorDecl(p) == Rule("error names", Expect(Advance(p), "{"))

ImportDecl(p) ==
  LET name == QualifiedIdentifier(Advance(p)) IN
  Make(IF Tok(name) = "as" THEN Identifier(Advance(name)) ELSE None(name), "import", 2)

Braced(p) == Expect(Rule("decls", Advance(p)), "}")

VisibilityDecl(p) ==
  LET rest == Advance(p) IN
  Make(IF Tok(rest) = "{" THEN Braced(rest) ELSE Rule("decl", rest), Tok(p), 1)

(* What extern and export stand before.                                    *)
Linked(p) ==
  CASE Tok(p) = "func" -> Rule("func", p)
    [] Tok(p) = "let"  -> Rule("var", p)
    [] Tok(p) = "{"    -> Braced(p)
    [] OTHER           -> Fail(p)

(* current_linkage is put back behind the declarations of an extern.       *)
(* Mutant: the linkage of the extern stays.                                *)
KeepLinkage(q, before) == q
RestoreLinkage(q, before) == [q EXCEPT !.linkage = before.linkage]

LinkageDecl(p) ==
  LET rest == Advance(p)
      inner == Advance(rest)
      linkage == IF Tok(rest) = "(" /\ Tok(inner) = "C" THEN "C" ELSE "carbon"
      read == IF Tok(inner) \in {"C", "carbon"} THEN Advance(inner) ELSE inner
      alias == IF Tok(rest) = "(" /\ Tok(read) = "," THEN QualifiedIdentifier(Advance(read))
               ELSE None(IF Tok(rest) = "(" THEN read ELSE rest)
      head == IF Tok(rest) = "(" THEN Expect(alias, ")") ELSE alias
      content == Linked([head EXCEPT !.linkage = linkage])
  IN Make(RestoreLinkage(content, p),
          IF linkage = "C" THEN "extern_c" ELSE "extern", 2)

(* An export is read and then refused: not implemented.                    *)
ExportDecl(p) ==
  LET rest == Advance(p)
      name == Expect(QualifiedIdentifier(Advance(rest)), ")")
  IN Fail(Linked(IF Tok(rest) = "(" THEN name ELSE rest))

(* A field of a C structure is the words of its type and its name.         *)
CWords(n, p) ==
  IF IsName(Tok(p)) \/ Tok(p) \in {"const", "*"} THEN Parse["C words", 0, n + 1, Leaf(Advance(p), Tok(p))]
  ELSE Make(p, "c_field", n)

(* The limit of this loop is met where it does not move: an error.         *)
CFields(n, p) ==
  CASE Tok(p) = "}"   -> Make(Advance(p), "decl_list", n)
    [] Tok(p) = ";"   -> Parse["C fields", 0, n, Advance(p)]
    [] IsName(Tok(p)) -> Parse["C fields", 0, n + 1, Optional(Rule("C words", p), ";")]
    [] OTHER          -> Fail(p)

CStructDecl(p) == Make(Rule("C fields", Expect(Identifier(Advance(p)), "{")), "c_struct", 2)

(* #define declares a constant; any other tag is skipped with a message.   *)
TagDecl(p) ==
  LET tag == Advance(p)
      name == Make(Identifier(Advance(tag)), "arg_list", 1)
      skipped == IF IsName(Tok(tag)) THEN Advance(tag) ELSE tag
  IN IF Tok(tag) = "define" THEN Make(Rule("tuple", None(name)), "const", 3)
     ELSE None([skipped EXCEPT !.retry = TRUE])

Decl(p) ==
  CASE Tok(p) = "#"                               -> TagDecl(p)
    [] Tok(p) \in {"const", "let", "pure"}        -> VarDecl(p)
    [] Tok(p) = "func"                            -> FuncDecl(TRUE, p)
    [] Tok(p) \in {"type", "typealias"}           -> TypeDecl(p)
    [] Tok(p) = "error"                           -> ErrorDecl(p)
    [] Tok(p) = "import"                          -> ImportDecl(p)
    [] Tok(p) = "asm"                             -> AsmStmt(p)
    [] Tok(p) = "extern"                          -> LinkageDecl(p)
    [] Tok(p) = "export"                          -> ExportDecl(p)
    [] Tok(p) \in {"public", "private", "internal"} -> VisibilityDecl(p)
    [] Tok(p) = "struct" /\ p.linkage = "C"       -> CStructDecl(p)
    [] OTHER                                      -> None(p)

(* parse_struct_entry.                                                     *)
Field(p) ==
  CASE IsName(Tok(p))                               -> ArgDecl(p)
    [] Tok(p) = "func"                              -> FuncDecl(TRUE, p)
    [] Tok(p) \in {"type", "typealias"}             -> TypeDecl(p)
    [] Tok(p) = "import"                            -> ImportDecl(p)
    [] Tok(p) \in {"public", "private", "internal"} -> VisibilityDecl(p)
    [] OTHER                                        -> None(p)

-----------------------------------------------------------------------------
(* Expressions.                                                            *)

TupleItems(n, p) ==
  LET item == Rule("expr", Advance(p)) IN
  IF Tok(p) = "," /\ ~IsNone(item) THEN Parse["tuple items", 0, n + 1, item]
  ELSE Make(Make(IF Tok(p) = "," THEN Drop(item) ELSE p, "arg_list", n), "init_expr", 1)

(* parse_braceless_tuple_expr.                                             *)
Tuple(p) ==
  LET first == Rule("expr", p) IN
  IF Tok(first) # "," THEN first
  ELSE IF IsNone(first) THEN Crash(first)
  ELSE Parse["tuple items", 0, 1, first]

(* parse_ternary_expr: a missing condition is only missed when its         *)
(* position is asked for.                                                  *)
Ternary(p) ==
  LET cond == Parse["binary", 0, 0, Rule("unary", p)]
      Refuse(q) == IF IsNone(cond) THEN Crash(q) ELSE Fail(q)
      then == Rule("tuple", Advance(cond))
      other == Rule("tuple", Advance(then))
  IN IF Tok(cond) # "then" THEN cond
     ELSE IF IsNone(then) \/ Tok(then) # "else" THEN Refuse(then)
     ELSE IF IsNone(other) \/ IsNone(cond) THEN Refuse(other)
     ELSE Make(other, "ternary", 3)

(* Binary operators by precedence climbing: the left operand is read, the  *)
(* right one takes every operator that binds tighter.                      *)
Binary(min, p) ==
  LET op == Tok(p)
      after == Advance(p)
      right == IF Tok(after) = "eof" THEN Fail(after) ELSE Rule("unary", after)
  IN IF IsBinary(op) /\ Precedence[op] >= min
     THEN Parse["binary", min, 0, Make(Parse["tighter", Precedence[op], 0, right], op, 2)]
     ELSE p

(* Mutant: an operator that binds as tight is taken to the right.          *)
TighterOrEqual(prec, p) ==
  IF IsBinary(Tok(p)) /\ Precedence[Tok(p)] >= prec
  THEN Parse["tighter", prec, 0, Parse["binary", Precedence[Tok(p)], 0, p]]
  ELSE p
Tighter(prec, p) ==
  IF IsBinary(Tok(p)) /\ Precedence[Tok(p)] > prec
  THEN Parse["tighter", prec, 0, Parse["binary", Precedence[Tok(p)], 0, p]]
  ELSE p

(* Mutant: the operator is skipped and forgotten.                          *)
OperatorForgotten(p) == Rule("cast", IF Tok(p) \in UnaryOperators THEN Advance(p) ELSE p)
Unary(p) ==
  IF Tok(p) \in UnaryOperators THEN Make(Rule("cast", Advance(p)), Tok(p), 1)
  ELSE Rule("cast", p)

Cast(p) ==
  LET type == Expect(Rule("type expr", Expect(Advance(p), "(")), ")")
      value == Rule("unary", type)
  IN IF Tok(p) # "cast" THEN Rule("init", p)
     ELSE IF IsNone(value) THEN Fail(value) ELSE Make(value, "cast", 2)

InitItem(p) ==
  LET name == Expect(Make(Identifier(Advance(p)), "arg_list", 1), "=")
      value == Rule("expr", None(name))
  IN IF Tok(p) # "." THEN Rule("expr", p)
     ELSE IF IsNone(value) THEN Fail(value) ELSE Make(value, "let", 3)

InitList(children, p) == Make(ArgList("init items", p), "init_expr", children)

(* transform_to_type_expr: the name or call in front of { is a type, and   *)
(* so are the names and calls it is called with.  From its leaves to its   *)
(* root, every tree as it is and as a type.                                *)
TypedNode(trees, node) ==
  LET first == Len(trees) - node[2]
      c == SubSeq(trees, first + 1, Len(trees))
      plain == Append(FlattenSeq([i \in DOMAIN c |-> c[i].plain]), node)
      typed == FlattenSeq([i \in DOMAIN c |-> c[i].type])
      type == CASE node[1] \in Identifiers   -> Append(plain, <<"type_expr", 1>>)
                [] node = <<"call", 2>>      -> typed \o <<<<"type_constructor_instance", 2>>, <<"type_expr", 1>>>>
                [] node[1] = "arg_list"      -> Append(typed, node)
                [] OTHER                     -> plain
  IN Append(SubSeq(trees, 1, first), [plain |-> plain, type |-> type])

AsType(p) ==
  LET trees == FoldLeft(TypedNode, <<>>, p.out)
      before == [i \in 1 .. Len(trees) - 1 |-> trees[i].plain]
  IN IF p.end = "" THEN [p EXCEPT !.out = FlattenSeq(before) \o Last(trees).type] ELSE p

(* The { behind a type is skipped without a look at it.                    *)
InitExpr(p) ==
  LET expr == Rule("postfix", p)
      type == TryType(Drop(expr))
  IN IF ~IsNone(expr) THEN (IF Tok(expr) = "{" THEN InitList(2, AsType(expr)) ELSE expr)
     ELSE IF IsNone(type) THEN type ELSE InitList(2, type)

(* parse_call_or_index_or_field_expr.                                      *)
PostfixExpr(p) ==
  LET rest == Advance(p)
      field == IF IsName(Tok(rest)) THEN QualifiedIdentifier(rest) ELSE Fail(rest)
      index == Expect(Rule("tuple", rest), "]")
  IN IF IsNone(p) THEN p
     ELSE CASE Tok(p) = "(" -> Rule("operators", Make(ArgList("call args", p), "call", 2))
            [] Tok(p) = "." -> Rule("operators", Make(field, "field", 2))
            [] Tok(p) = "[" -> Rule("operators", Make(index, "index", 2))
            [] OTHER        -> p

NameOrOverload(p) ==
  LET name == QualifiedIdentifier(p) IN
  IF Tok(name) = "\\" THEN Make(Rule("type expr", Advance(name)), "overload", 2) ELSE name

Primary(p) ==
  CASE Tok(p) \in Atoms          -> Leaf(Advance(p), Tok(p))
    [] IsName(Tok(p))            -> NameOrOverload(p)
    [] Tok(p) = "func"           -> FuncDecl(FALSE, p)
    [] Tok(p) = "type"           -> Make(Rule("type expr", Advance(p)), "const_expr", 1)
    [] Tok(p) = "("              -> Expect(Rule("tuple", Advance(p)), ")")
    [] Tok(p) = "{"              -> InitList(1, p)
    [] Tok(p) \in UnaryOperators -> Make(Rule("cast", Advance(p)), Tok(p), 1)
    [] Tok(p) = "eof"            -> Fail(p)
    [] OTHER                     -> None(p)

-----------------------------------------------------------------------------

Parse == [r \in STRING, i \in Nat, n \in Nat, p \in State |->
  CASE r = "parts"        -> Parts(n, p)
    [] r \in DOMAIN Lists -> Args(r, n, p)
    [] r = "type"         -> Type(p)
    [] r = "bare type"    -> BareType(p)
    [] r = "type expr"    -> TypeExpr(p)
    [] r = "tuple field"  -> TupleField(p)
    [] r = "enum members" -> EnumMembers(n, p)
    [] r \in DOMAIN Entry -> Entries(r, i, n, p)
    [] r = "stmts"        -> StmtList(n, p)
    [] r = "block"        -> Block(i, n, p)
    [] r = "compound"     -> CompoundStmt(p)
    [] r = "stmt"         -> Stmt(p)
    [] r = "modifiers"    -> Modifiers(p)
    [] r = "arg decl"     -> ArgDecl(p)
    [] r = "func arg"     -> FuncArg(p)
    [] r = "names"        -> MoreNames(n, p)
    [] r = "func"         -> FuncDecl(TRUE, p)
    [] r = "var"          -> VarDecl(p)
    [] r = "error names"  -> ErrorNames(n, p)
    [] r = "C words"      -> CWords(n, p)
    [] r = "C fields"     -> CFields(n, p)
    [] r = "decl"         -> Decl(p)
    [] r = "field"        -> Field(p)
    [] r = "tuple items"  -> TupleItems(n, p)
    [] r = "tuple"        -> Tuple(p)
    [] r = "expr"         -> Ternary(p)
    [] r = "binary"       -> Binary(i, p)
    [] r = "tighter"      -> Tighter(i, p)
    [] r = "unary"        -> Unary(p)
    [] r = "cast"         -> Cast(p)
    [] r = "init"         -> InitExpr(p)
    [] r = "init item"    -> InitItem(p)
    [] r = "postfix"      -> Rule("operators", Primary(p))
    [] r = "operators"    -> PostfixExpr(p)
    [] r = "primary"      -> Primary(p)]

-----------------------------------------------------------------------------
(* parse_code_unit: parse_decl_list, one declaration at a time.  What      *)
(* current_linkage is before the first extern is what the memory held: the *)
(* constructor leaves it uninitialized.                                    *)

Running == parser.end = "" /\ tries < ListLimit
next == Rule("decl", [parser EXCEPT !.retry = FALSE])

Init ==
  /\ \E f \in Files : tokens = f.tokens /\ source = f.tree
  /\ \E l \in Garbage :
       parser = [at |-> 1, linkage |-> l, retry |-> FALSE, out |-> <<>>, end |-> ""]
  /\ tries = 0 /\ decls = 0

ReadDecl ==
  /\ Running /\ next.end = "" /\ ~IsNone(next)
  /\ parser' = Optional(next, ";")
  /\ tries' = tries + 1 /\ decls' = decls + 1
  /\ UNCHANGED <<source, tokens>>

SkipTag ==
  /\ Running /\ next.end = "" /\ IsNone(next) /\ next.retry
  /\ parser' = Drop(next)
  /\ tries' = tries + 1
  /\ UNCHANGED <<source, tokens, decls>>

Refuse ==
  /\ Running /\ next.end # ""
  /\ parser' = [next EXCEPT !.out = <<>>]
  /\ UNCHANGED <<source, tokens, tries, decls>>

(* The first token that begins no declaration ends the file, and the limit *)
(* does.  A file must have a declaration.                                  *)
EndOfUnit ==
  /\ parser.end = ""
  /\ tries = ListLimit \/ (next.end = "" /\ IsNone(next) /\ ~next.retry)
  /\ parser' = IF decls = 0 THEN Fail(parser) ELSE End(Make(parser, "decl_list", decls), "parsed")
  /\ UNCHANGED <<source, tokens, tries, decls>>

Next == ReadDecl \/ SkipTag \/ Refuse \/ EndOfUnit
Spec == Init /\ [][Next]_vars
=============================================================================
