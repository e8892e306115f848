--------------------------- MODULE MCControlFlow ---------------------------
(***************************************************************************)
(* Functions for ControlFlow: one statement of up to three levels between  *)
(* an optional defer and an optional call or return.                       *)
(***************************************************************************)
EXTENDS ControlFlowSpec

Leaf(k) == [kind |-> k, body |-> <<>>]
Node(k, b) == [kind |-> k, body |-> b]

Plains == {Leaf("call"), Leaf("defer")}
Exits  == {Leaf("break"), Leaf("continue"), Leaf("return")}

\* Sequences of one or two of S, exits only at the end.
Blocks(S) ==
  {Node("block", <<s>>) : s \in S \cup Exits}
    \cup {Node("block", <<s, t>>) : s \in S, t \in S \cup Exits}

Inner == {Node("if", <<b>>) : b \in Blocks(Plains)}
           \cup {Node("if", <<Leaf("call"), Leaf(k)>>) : k \in {"break", "return"}}
Bodies == Blocks(Plains \cup Inner)
Tops == Plains \cup {Node(k, <<b>>) : k \in {"if", "for", "while"}, b \in Bodies}
          \cup {Node("if", <<b, c>>) : b, c \in Blocks(Plains)}

\* Every node with the nodes above it, from the function down.
Above(n) == {SubSeq(n, 1, i) : i \in 0 .. Len(n) - 1}
KindIn(f, n) == FoldLeft(LAMBDA s, i : s.body[i], f, n).kind
InLoop(f, n) == \E m \in Above(n) : KindIn(f, m) \in {"for", "while"}
InnerLoop(f, n) == CHOOSE m \in Above(n) :
  /\ KindIn(f, m) \in {"for", "while"}
  /\ \A l \in Above(n) : Len(l) > Len(m) => KindIn(f, l) \notin {"for", "while"}

\* break and continue stand inside a loop: the type checker rejects the rest.
Legal(f) == \A n \in NodesOf(f) :
  KindIn(f, n) \in {"break", "continue"} => InLoop(f, n)

All ==
  {f \in {Node("func", pre \o <<t>> \o post) :
            pre \in {<<>>, <<Leaf("defer")>>}, t \in Tops,
            post \in {<<>>, <<Leaf("call")>>, <<Leaf("return")>>}} : Legal(f)}

Has(f, k) == \E n \in NodesOf(f) : KindIn(f, n) = k

\* break and continue leave no scope that has a defer, continue stands in a
\* for of a condition, and a function that returns early and has a defer of
\* its own returns at its end too.
Structured(f) ==
  /\ \A n \in NodesOf(f) : KindIn(f, n) \in {"break", "continue"} =>
       \A m \in NodesOf(f) : KindIn(f, m) = "defer" => InnerLoop(f, n) \notin Above(m)
  /\ \A n \in NodesOf(f) : KindIn(f, n) = "continue" => KindIn(f, InnerLoop(f, n)) = "while"
  /\ (Has(f, "return") /\ \E i \in DOMAIN f.body : f.body[i].kind = "defer") =>
       f.body[Len(f.body)].kind = "return"
StructuredFunctions == {f \in All : Structured(f)}
=============================================================================
