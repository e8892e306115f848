------------------------------- MODULE Tokens -------------------------------
(* The tokens of a source file as the lexer hands them to the parser       *)
(* (lexer.cc, token.cc).  A token is a string: a keyword, an operator, a   *)
(* punctuation mark, a name or a literal.                                  *)
EXTENDS Naturals, Sequences, TLC

CONSTANTS Names,     \* the identifiers of the instance
          Literals   \* its number, character and string literals

(* transform_c_lexer_identifier: the words that are no identifiers.  while *)
(* is one of them, although no statement begins with it.                   *)
Keywords ==
  {"as", "if", "in", "let", "asm", "for", "nil", "pure", "func", "true", "type",
   "cast", "else", "then", "enum", "false", "while", "defer", "break", "const",
   "error", "noerr", "return", "extern", "public", "import", "export", "struct",
   "noinit", "private", "noflags", "internal", "continue", "typealias", "enumflags"}

(* token_props: the binary operators with their precedence, and the unary  *)
(* ones.  No operator has the flag RIGHT_ASSOC.  The lexer's table lacks   *)
(* *=: no file has that token.                                             *)
Precedence ==
  [o \in {"+=", "-=", "*=", "/=", "&=", "|=", "<<=", ">>="} |-> 400]
  @@ "||" :> 490 @@ "&&" :> 500 @@ ".." :> 550 @@ "|" :> 580 @@ "^" :> 590 @@ "&" :> 600
  @@ [o \in {"==", "!="} |-> 700] @@ [o \in {">", ">=", "<", "<="} |-> 800]
  @@ [o \in {"<<", ">>"} |-> 900] @@ [o \in {"+", "-"} |-> 1000]
  @@ [o \in {"*", "/", "%"} |-> 1100] @@ "->" :> 1200

UnaryOperators == {"!", "@", "&", "-"}

IsBinary(t) == t \in DOMAIN Precedence
IsName(t) == t \in Names
IsWord(t) == t \in Names \cup Keywords

(* The tokens that are an expression by themselves.                        *)
Atoms == Literals \cup {"true", "false", "nil", "noinit", "noflags", "noerr"}
=============================================================================
