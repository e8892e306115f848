---------------------------- MODULE Scopes_proofs ----------------------------
(***************************************************************************)
(* Theorems about Scopes, for every set of plain programs and every bound  *)
(* on the subpasses: a symbol belongs to the first item that declares it,  *)
(* and the walks implement lexical scoping.  The walks look names up in a  *)
(* state that fills while they go on; the invariant says what it holds     *)
(* when they come to an item, and that this is what the text before the    *)
(* item says.                                                              *)
(***************************************************************************)
EXTENDS ScopesSpec, WellFoundedInduction, TLAPS

(* The code keeps the promises for programs that are plain.                *)
AllPlain == \A p \in Programs : Plain(p)

-----------------------------------------------------------------------------
(* The inductive invariant, in parts.                                      *)

Phases == {"register", "imports", "resolve", "checks", "done"}

PlaceInv ==
  /\ prog \in Programs
  /\ phase \in Phases /\ sub \in Nat
  /\ at \in DOMAIN prog /\ start \in 1 .. at
  /\ phase = "register" => sub \in {0, 1} /\ prog[start].file = prog[at].file

(* The walks have been through an item, or are in it again.                *)
Passed(i) ==
  /\ i \in DOMAIN prog
  /\ phase = "register" => i < at \/ (sub = 1 /\ prog[i].file <= prog[at].file)

(* A symbol stands for a declaration the walks have passed.                *)
SymbolsInv ==
  \A k \in DOMAIN symbols :
    /\ k = <<k[1], k[2]>> /\ DOMAIN symbols[k] = {"item", "token"}
    /\ IF k[1] = 0 THEN k[2] \in Builtins
       ELSE Passed(symbols[k].item) /\ Declares(prog, symbols[k].item, k[1], k[2])

(* The imports of a module, in the order of the text.                      *)
ImportsInv ==
  /\ DOMAIN imports = {prog[i].module : i \in DOMAIN prog}
  /\ \A m \in DOMAIN imports :
       /\ imports[m] \in Seq(Nat)
       /\ Members(imports[m]) = {i \in Imports(prog, m) : Passed(i)}
       /\ \A j, k \in DOMAIN imports[m] : j < k => imports[m][j] < imports[m][k]

OnceInv ==
  /\ \A i \in typed : Passed(i)
  /\ \A i \in DOMAIN unpacked : Passed(i)

(* An item that has been passed has declared its names, unless it waits    *)
(* for the type of its value.                                              *)
Waits(i) == Late(prog, i) /\ i \notin Ready(prog)

DeclaredInv ==
  \A i \in DOMAIN prog : Passed(i) /\ ~ Waits(i) =>
    \A n \in Members(prog[i].names) : Has(DeclaresIn(prog, i), n)

(* A declaration that is ready has its type.                               *)
TypedInv ==
  \A i \in Ready(prog) :
    Passed(i) /\ prog[i].kind \in {"func", "for", "let"} /\ ~ Redeclares(prog, i) => i \in typed

TextInv ==
  PlaceInv /\ SymbolsInv /\ ImportsInv /\ OnceInv /\ DeclaredInv /\ TypedInv /\ FirstDeclares

(* The use of an item, looked up now.                                      *)
FindAt(i, u) ==
  LET path == Path(prog, i)
      hits == {k \in DOMAIN path : FindIn(path[k], u) # {}}
  IN  UNION {FindIn(path[k], u) : k \in FirstOf(hits)}

(* A use that is bound is found again.                                     *)
BoundInv ==
  /\ DOMAIN bound = DOMAIN prog
  /\ \A i \in DOMAIN prog :
       /\ DOMAIN bound[i] = DOMAIN prog[i].uses
       /\ \A k \in DOMAIN prog[i].uses :
            bound[i][k] # {} =>
              /\ bound[i][k] = Meaning(prog, i, prog[i].uses[k])
              /\ FindAt(i, prog[i].uses[k]) # {}

-----------------------------------------------------------------------------
(* Facts about sets of numbers and the text of a program.                  *)
LEMMA Least ==
  ASSUME NEW T \in SUBSET Nat, T # {}
  PROVE  \E x \in T : \A y \in T : x <= y
<1> DEFINE R == OpToRel(<, Nat)
<1>1. IsWellFoundedOn(R, Nat)  BY NatLessThanWellFounded
<1> HIDE DEF R
<1>2. PICK x \in T : \A y \in T : ~ (<<y, x>> \in R)  BY <1>1, WFMin
<1>3. ASSUME NEW y \in T, y < x  PROVE <<y, x>> \in R
  BY <1>3 DEF R, OpToRel
<1>4. \A y \in T : x <= y
  <2> TAKE y \in T
  <2>1. ~ (y < x)  BY <1>2, <1>3
  <2> QED  BY <2>1
<1> QED  BY <1>4

LEMMA Greatest ==
  ASSUME NEW n \in Nat, NEW T \in SUBSET (1 .. n), T # {}
  PROVE  \E x \in T : \A y \in T : x >= y
<1> DEFINE S == {n - t : t \in T}
<1>1. S \in SUBSET Nat /\ S # {}
  <2>1. ASSUME NEW t \in T  PROVE n - t \in Nat
    <3>1. t \in 1 .. n  OBVIOUS
    <3> QED  BY <3>1
  <2>2. PICK t \in T : TRUE  OBVIOUS
  <2>3. n - t \in S  OBVIOUS
  <2> QED  BY <2>1, <2>3
<1>2. PICK z \in S : \A y \in S : z <= y
  <2> HIDE DEF S
  <2> QED  BY <1>1, Least
<1>3. PICK x \in T : z = n - x  OBVIOUS
<1>4. ASSUME NEW y \in T  PROVE x >= y
  <2>1. n - y \in S  OBVIOUS
  <2>2. z <= n - y  BY <1>2, <2>1
  <2> QED  BY <1>3, <2>2
<1> QED  BY <1>4

LEMMA FirstOfFacts ==
  ASSUME NEW S \in SUBSET Nat
  PROVE  /\ S = {} => FirstOf(S) = {}
         /\ S # {} => \E k \in S : FirstOf(S) = {k} /\ \A j \in S : k <= j
<1>1. CASE S = {}  BY <1>1 DEF FirstOf
<1>2. CASE S # {}
  <2>1. PICK k \in S : \A j \in S : k <= j  BY <1>2, Least
  <2>2. ASSUME NEW i \in S, \A j \in S : i <= j  PROVE i = k
    <3>1. i <= k /\ k <= i  BY <2>1, <2>2
    <3> QED  BY <3>1
  <2>3. FirstOf(S) = {k}  BY <2>1, <2>2 DEF FirstOf
  <2> QED  BY <1>2, <2>1, <2>3
<1> QED  BY <1>1, <1>2

LEMMA LastOfFacts ==
  ASSUME NEW n \in Nat, NEW S \in SUBSET (1 .. n)
  PROVE  /\ S = {} => LastOf(S) = {}
         /\ S # {} => \E k \in S : LastOf(S) = {k} /\ \A j \in S : j <= k
<1>1. CASE S = {}  BY <1>1 DEF LastOf
<1>2. CASE S # {}
  <2>1. PICK k \in S : \A j \in S : k >= j  BY <1>2, Greatest
  <2>2. ASSUME NEW i \in S, \A j \in S : i >= j  PROVE i = k
    <3>1. i >= k /\ k >= i  BY <2>1, <2>2
    <3> QED  BY <3>1
  <2>3. LastOf(S) = {k}  BY <2>1, <2>2 DEF LastOf
  <2> QED  BY <1>2, <2>1, <2>3
<1> QED  BY <1>1, <1>2

(* What a search finds in the first of the places where it finds anything. *)
Hit(f) == UNION {f[k] : k \in FirstOf({k \in DOMAIN f : f[k] # {}})}

LEMMA HitFacts ==
  ASSUME NEW n \in Nat, NEW f, DOMAIN f = 1 .. n
  PROVE  /\ Hit(f) # {} <=> \E k \in 1 .. n : f[k] # {}
         /\ Hit(f) # {} => \E k \in 1 .. n : /\ f[k] # {} /\ Hit(f) = f[k]
                                             /\ \A j \in 1 .. k - 1 : f[j] = {}
<1> DEFINE S == {k \in DOMAIN f : f[k] # {}}
<1>1. S \in SUBSET Nat /\ S \subseteq 1 .. n  OBVIOUS
<1>2. Hit(f) = UNION {f[k] : k \in FirstOf(S)}  BY DEF Hit
<1>3. S = {} <=> ~ \E k \in 1 .. n : f[k] # {}  OBVIOUS
<1>4. \A k \in S : f[k] # {}  OBVIOUS
<1>5. \A j \in 1 .. n : j \notin S => f[j] = {}  OBVIOUS
<1> HIDE DEF S
<1>6. CASE S = {}
  <2>1. FirstOf(S) = {}  BY <1>1, <1>6, FirstOfFacts
  <2> QED  BY <1>2, <1>3, <1>6, <2>1
<1>7. CASE S # {}
  <2>1. PICK k \in S : FirstOf(S) = {k} /\ \A j \in S : k <= j  BY <1>1, <1>7, FirstOfFacts
  <2>2. Hit(f) = f[k]  BY <1>2, <2>1
  <2>3. \A j \in 1 .. k - 1 : f[j] = {}
    <3> TAKE j \in 1 .. k - 1
    <3>1. j \in 1 .. n /\ ~ (k <= j)  BY <1>1
    <3> QED  BY <1>5, <2>1, <3>1
  <2> QED  BY <1>1, <1>3, <1>4, <1>7, <2>2, <2>3
<1> QED  BY <1>6, <1>7

(* Two searches with the same first place.                                 *)
LEMMA SameHit ==
  ASSUME NEW n \in Nat, NEW f, NEW g, DOMAIN f = 1 .. n, DOMAIN g = 1 .. n,
         \A k \in 1 .. n : f[k] # {} => f[k] = g[k],
         \A j, k \in 1 .. n : j < k /\ g[j] # {} /\ f[j] = {} => f[k] = {}
  PROVE  Hit(f) \in {{}, Hit(g)}
<1> SUFFICES ASSUME Hit(f) # {}  PROVE Hit(f) = Hit(g)  OBVIOUS
<1>1. PICK k \in 1 .. n : f[k] # {} /\ Hit(f) = f[k] /\ \A j \in 1 .. k - 1 : f[j] = {}
  BY HitFacts
<1>2. f[k] = g[k]  BY <1>1
<1>3. PICK i \in 1 .. n : g[i] # {} /\ Hit(g) = g[i] /\ \A j \in 1 .. i - 1 : g[j] = {}
  <2>1. \E j \in 1 .. n : g[j] # {}  BY <1>1, <1>2
  <2> QED  BY <2>1, HitFacts
<1>4. i <= k
  <2>1. CASE k < i
    <3>1. k \in 1 .. i - 1  BY <2>1
    <3> QED  BY <1>1, <1>2, <1>3, <3>1
  <2> QED  BY <2>1
<1>5. ~ (i < k)
  <2>1. CASE i < k
    <3>1. i \in 1 .. k - 1  BY <2>1
    <3>2. f[i] = {}  BY <1>1, <3>1
    <3> QED  BY <1>1, <1>3, <2>1, <3>2
  <2> QED  BY <2>1
<1> QED  BY <1>1, <1>2, <1>3, <1>4, <1>5

-----------------------------------------------------------------------------
LEMMA ItemFacts ==
  ASSUME NEW p \in Programs
  PROVE  /\ WellFormed(p)
         /\ p \in Seq(Item) /\ Len(p) \in Nat \ {0} /\ DOMAIN p = 1 .. Len(p)
         /\ \A i \in DOMAIN p :
              /\ p[i] \in Item
              /\ p[i].module \in Nat \ {0} /\ p[i].file \in Nat /\ p[i].from \in Nat
              /\ p[i].scope \in Int /\ Enclosed(p, i)
              /\ p[i].names \in Seq(Names) /\ p[i].uses \in Seq(Use)
              /\ p[i].kind = "import" => p[i].from > 0
<1>1. p \in Seq(Item) /\ Len(p) > 0 /\ WellFormed(p)  BY ProgramsAssumption
<1>2. Len(p) \in Nat /\ DOMAIN p = 1 .. Len(p) /\ \A i \in DOMAIN p : p[i] \in Item  BY <1>1
<1>3. ASSUME NEW i \in DOMAIN p
      PROVE  /\ p[i].module \in Nat /\ p[i].file \in Nat /\ p[i].from \in Nat
             /\ p[i].scope \in Int /\ p[i].names \in Seq(Names) /\ p[i].uses \in Seq(Use)
  <2>1. p[i] \in Item  BY <1>2
  <2> QED  BY <2>1 DEF Item
<1>4. \A i \in DOMAIN p : /\ p[i].module > 0 /\ Enclosed(p, i)
                          /\ p[i].kind = "import" => p[i].from > 0
  BY <1>1 DEF WellFormed
<1> QED  BY <1>1, <1>2, <1>3, <1>4

(* An item stands in its module, or in a scope before it.                  *)
LEMMA ScopeFacts ==
  ASSUME NEW p \in Programs, NEW i \in DOMAIN p
  PROVE  /\ p[i].scope > 0 => /\ p[i].scope \in DOMAIN p /\ p[i].scope \in 1 .. i - 1
                              /\ p[p[i].scope].module = p[i].module
         /\ p[i].scope <= 0 => p[i].scope = Module(p[i].module)
         /\ p[i].scope # 0 /\ DeclaresIn(p, i) # 0 /\ DeclaresIn(p, i) \in Int
         /\ \A m \in Nat : DeclaresIn(p, i) = Module(m) => p[i].module = m
<1>1. /\ i \in Nat \ {0} /\ i <= Len(p) /\ Len(p) \in Nat /\ DOMAIN p = 1 .. Len(p)
      /\ p[i].module \in Nat \ {0} /\ p[i].scope \in Int /\ Enclosed(p, i)
  BY ItemFacts
<1>2. \/ p[i].scope = Module(p[i].module) /\ p[i].scope < 0
      \/ p[i].scope \in 1 .. i - 1 /\ p[p[i].scope].module = p[i].module
  BY <1>1 DEF Enclosed, Module
<1>3. p[i].scope \in 1 .. i - 1 => p[i].scope \in DOMAIN p  BY <1>1
<1>4. DeclaresIn(p, i) \in {i, p[i].scope}  BY DEF DeclaresIn
<1>5. \A m \in Nat : p[i].scope = Module(m) => p[i].module = m
  <2> TAKE m \in Nat
  <2>1. CASE p[i].scope < 0  BY <1>1, <1>2, <2>1 DEF Module
  <2>2. CASE ~ (p[i].scope < 0)  BY <1>1, <1>2, <2>2 DEF Module
  <2> QED  BY <2>1, <2>2
<1>6. \A m \in Nat : Module(m) # i  BY <1>1 DEF Module
<1> QED  BY <1>1, <1>2, <1>3, <1>4, <1>5, <1>6

(* The scopes around an item are those around the scope it stands in.      *)
PathRule(p, f, j) == <<p[j].scope>> \o (IF p[j].scope > 0 THEN f[p[j].scope] ELSE <<0>>)

LEMMA PathExists ==
  ASSUME NEW p \in Programs
  PROVE  \E f : f = [j \in DOMAIN p |-> PathRule(p, f, j)]
<1> DEFINE Is(f, n) == f = [j \in 1 .. n |-> PathRule(p, f, j)]
           Bad == {n \in 0 .. Len(p) : ~ \E f : Is(f, n)}
<1>1. Len(p) \in Nat /\ DOMAIN p = 1 .. Len(p)  BY ItemFacts
<1>2. SUFFICES ASSUME Bad # {}  PROVE FALSE
  <2>1. Len(p) \in 0 .. Len(p)  BY <1>1
  <2>2. Bad = {} => \E f : Is(f, Len(p))  BY <2>1
  <2> QED  BY <1>1, <2>2
<1>3. PICK m \in Bad : \A y \in Bad : m <= y
  <2>1. Bad \in SUBSET Nat  BY <1>1
  <2> HIDE DEF Bad
  <2> QED  BY <1>2, <2>1, Least
<1>4. m \in 0 .. Len(p) /\ ~ \E f : Is(f, m)  OBVIOUS
<1>5. m # 0
  <2>1. Is([j \in 1 .. 0 |-> 0], 0)  OBVIOUS
  <2> QED  BY <1>4, <2>1
<1>6. PICK f : Is(f, m - 1)
  <2>1. m - 1 \in 0 .. Len(p) /\ ~ (m <= m - 1)  BY <1>1, <1>4, <1>5
  <2>2. m - 1 \notin Bad  BY <1>3, <2>1
  <2> QED  BY <2>1, <2>2
<1> DEFINE h == [j \in 1 .. m |-> IF j = m THEN PathRule(p, f, m) ELSE f[j]]
<1>7. h = [j \in 1 .. m |-> PathRule(p, h, j)]
  <2>1. ASSUME NEW j \in 1 .. m  PROVE h[j] = PathRule(p, h, j)
    <3>1. j \in DOMAIN p  BY <1>1, <1>4
    <3>2. j # m => f[j] = PathRule(p, f, j)  BY <1>4, <1>6
    <3>3. h[j] = PathRule(p, f, j)  BY <3>2
    <3>4. p[j].scope > 0 => p[j].scope \in 1 .. j - 1  BY <3>1, ScopeFacts
    <3>5. p[j].scope > 0 => h[p[j].scope] = f[p[j].scope]  BY <1>4, <3>4
    <3> QED  BY <3>3, <3>5 DEF PathRule
  <2>2. h = [j \in 1 .. m |-> h[j]]  OBVIOUS
  <2> HIDE DEF h
  <2> QED  BY <2>1, <2>2
<1> HIDE DEF h
<1> QED  BY <1>4, <1>7

LEMMA PathUnfolds ==
  ASSUME NEW p \in Programs, NEW i \in DOMAIN p
  PROVE  Path(p, i) = <<p[i].scope>> \o (IF p[i].scope > 0 THEN Path(p, p[i].scope) ELSE <<0>>)
<1> DEFINE P(f) == f = [j \in DOMAIN p |-> PathRule(p, f, j)]
           all == CHOOSE f : P(f)
<1>1. \E f : P(f)  BY PathExists
<1>2. \A j : Path(p, j) = all[j]  BY DEF Path, PathRule
<1>3. P(all)
  <2> HIDE DEF P
  <2> QED  BY <1>1, Zenon
<1>4. all[i] = PathRule(p, all, i)
  <2> HIDE DEF all
  <2> QED  BY <1>3
<1> HIDE DEF all, P
<1>5. Path(p, i) = all[i] /\ Path(p, p[i].scope) = all[p[i].scope]  BY <1>2
<1> QED  BY <1>4, <1>5, SMTT(30) DEF PathRule

PathOK(p, i) ==
  LET path == Path(p, i)
  IN  /\ path \in Seq(Int)
      /\ \A k \in DOMAIN path : \/ path[k] \in DOMAIN p
                                \/ path[k] = Module(p[i].module)
                                \/ path[k] = 0
      /\ \A j, k \in DOMAIN path : j < k /\ path[j] <= 0 => path[k] = 0

LEMMA PathFacts ==
  ASSUME NEW p \in Programs, NEW i \in DOMAIN p  PROVE PathOK(p, i)
<1> DEFINE Bad == {j \in DOMAIN p : ~ PathOK(p, j)}
<1>1. DOMAIN p = 1 .. Len(p) /\ Len(p) \in Nat  BY ItemFacts
<1>2. SUFFICES ASSUME Bad # {}  PROVE FALSE  OBVIOUS
<1>3. PICK j \in Bad : \A y \in Bad : j <= y
  <2>1. Bad \in SUBSET Nat  BY <1>1
  <2> HIDE DEF Bad
  <2> QED  BY <1>2, <2>1, Least
<1>4. j \in DOMAIN p /\ ~ PathOK(p, j) /\ j \in Nat  BY <1>1
<1> DEFINE s == p[j].scope
<1>5. s \in Int /\ s # 0 /\ p[j].module \in Nat \ {0}  BY <1>4, ItemFacts, ScopeFacts
<1>6. CASE s > 0
  <2>1. s \in DOMAIN p /\ s < j /\ p[s].module = p[j].module
    <3>1. s \in DOMAIN p /\ s \in 1 .. j - 1 /\ p[s].module = p[j].module
      BY <1>4, <1>6, ScopeFacts
    <3> QED  BY <1>4, <3>1
  <2>2. PathOK(p, s)
    <3>1. s \in Nat /\ ~ (j <= s)  BY <1>1, <1>4, <2>1
    <3> QED  BY <1>3, <2>1, <3>1
  <2> DEFINE rest == Path(p, s)
  <2>3. Path(p, j) = <<s>> \o rest  BY <1>4, <1>6, PathUnfolds
  <2>4. rest \in Seq(Int)  BY <2>2 DEF PathOK
  <2>5. \A k \in 1 .. Len(rest) :
          rest[k] \in DOMAIN p \/ rest[k] = Module(p[j].module) \/ rest[k] = 0
    BY <2>1, <2>2, <2>4 DEF PathOK
  <2>6. \A k, l \in 1 .. Len(rest) : k < l /\ rest[k] <= 0 => rest[l] = 0
    BY <2>2, <2>4 DEF PathOK
  <2> DEFINE path == <<s>> \o rest
  <2> HIDE DEF rest
  <2>7. /\ path \in Seq(Int) /\ Len(path) = Len(rest) + 1
        /\ path[1] = s /\ \A k \in 2 .. Len(rest) + 1 : path[k] = rest[k - 1]
    BY <1>5, <2>4
  <2> HIDE DEF path, s
  <2>8. ASSUME NEW k \in DOMAIN path
        PROVE  path[k] \in DOMAIN p \/ path[k] = Module(p[j].module) \/ path[k] = 0
    <3>1. CASE k = 1  BY <2>1, <2>7, <3>1
    <3>2. CASE k # 1
      <4>1. k \in 2 .. Len(rest) + 1 /\ k - 1 \in 1 .. Len(rest)  BY <2>4, <2>7, <3>2
      <4> QED  BY <2>5, <2>7, <4>1
    <3> QED  BY <3>1, <3>2
  <2>9. ASSUME NEW k \in DOMAIN path, NEW l \in DOMAIN path, k < l, path[k] <= 0
        PROVE  path[l] = 0
    <3>1. k # 1  BY <1>6, <2>7, <2>9
    <3>2. /\ k \in 2 .. Len(rest) + 1 /\ k - 1 \in 1 .. Len(rest)
          /\ l \in 2 .. Len(rest) + 1 /\ l - 1 \in 1 .. Len(rest) /\ k - 1 < l - 1
      <4>1. DOMAIN path = 1 .. Len(rest) + 1 /\ Len(rest) \in Nat  BY <2>4, <2>7
      <4> HIDE DEF path
      <4>2. k \in Nat /\ l \in Nat /\ 1 < k /\ k < l /\ l <= Len(rest) + 1
        BY <2>9, <3>1, <4>1
      <4> QED  BY <4>1, <4>2
    <3> QED  BY <2>6, <2>7, <2>9, <3>2
  <2>10. Path(p, j) = path  BY <2>3 DEF path
  <2> QED  BY <1>4, <2>7, <2>8, <2>9, <2>10 DEF PathOK
<1>7. CASE ~ (s > 0)
  <2>1. s = Module(p[j].module) /\ s <= 0  BY <1>4, <1>5, <1>7, ScopeFacts
  <2> DEFINE path == <<s>> \o <<0>>
  <2>2. path = Path(p, j)
    <3>1. Path(p, j) = <<s>> \o (IF s > 0 THEN Path(p, s) ELSE <<0>>)
      BY <1>4, PathUnfolds
    <3> QED  BY <1>7, <3>1
  <2> HIDE DEF s
  <2>3. path \in Seq(Int) /\ DOMAIN path = {1, 2} /\ path[1] = s /\ path[2] = 0
    BY <1>5
  <2>4. /\ path \in Seq(Int) /\ path = Path(p, j)
        /\ \A k \in DOMAIN path : path[k] = Module(p[j].module) \/ path[k] = 0
        /\ \A k, l \in DOMAIN path : k < l => path[l] = 0
    BY <2>1, <2>2, <2>3
  <2> HIDE DEF path
  <2> QED  BY <1>4, <2>4 DEF PathOK
<1> QED  BY <1>6, <1>7

-----------------------------------------------------------------------------
(* The declarations that are ready rest on others that are.                *)
ReadyUse(p, f, i, u) ==
  \E s \in Meaning(p, i, u) :
     /\ s # 0
     /\ Owner(p, s, u.name) \in 1 .. i - 1
     /\ p[Owner(p, s, u.name)].kind \in {"func", "for", "let"}
     /\ f[Owner(p, s, u.name)]

ReadyImports(p, i) ==
  \A k \in Imports(p, p[i].module) : k < i /\ \E j \in 1 .. i - 1 : p[j].module = p[k].from

ReadyRule(p, f, i) ==
  ReadyImports(p, i) /\ \A u \in Members(p[i].uses) : ReadyUse(p, f, i, u)

LEMMA ReadyExists ==
  ASSUME NEW p \in Programs
  PROVE  \E f : f = [j \in DOMAIN p |-> ReadyRule(p, f, j)]
<1> DEFINE Is(f, n) == f = [j \in 1 .. n |-> ReadyRule(p, f, j)]
           Bad == {n \in 0 .. Len(p) : ~ \E f : Is(f, n)}
<1>1. Len(p) \in Nat /\ DOMAIN p = 1 .. Len(p)  BY ItemFacts
<1>2. SUFFICES ASSUME Bad # {}  PROVE FALSE
  <2>1. Len(p) \in 0 .. Len(p)  BY <1>1
  <2>2. Bad = {} => \E f : Is(f, Len(p))  BY <2>1
  <2> QED  BY <1>1, <2>2
<1>3. PICK m \in Bad : \A y \in Bad : m <= y
  <2>1. Bad \in SUBSET Nat  BY <1>1
  <2> HIDE DEF Bad
  <2> QED  BY <1>2, <2>1, Least
<1>4. m \in 0 .. Len(p) /\ ~ \E f : Is(f, m)  OBVIOUS
<1>5. m # 0
  <2>1. Is([j \in 1 .. 0 |-> 0], 0)  OBVIOUS
  <2> QED  BY <1>4, <2>1
<1>6. PICK f : Is(f, m - 1)
  <2>1. m - 1 \in 0 .. Len(p) /\ ~ (m <= m - 1)  BY <1>1, <1>4, <1>5
  <2>2. m - 1 \notin Bad  BY <1>3, <2>1
  <2> QED  BY <2>1, <2>2
<1> DEFINE h == [j \in 1 .. m |-> IF j = m THEN ReadyRule(p, f, m) ELSE f[j]]
<1>7. h = [j \in 1 .. m |-> ReadyRule(p, h, j)]
  <2>1. ASSUME NEW j \in 1 .. m  PROVE h[j] = ReadyRule(p, h, j)
    <3>2. j # m => f[j] = ReadyRule(p, f, j)  BY <1>4, <1>6
    <3>3. h[j] = ReadyRule(p, f, j)  BY <3>2
    <3>4. \A o \in 1 .. j - 1 : h[o] = f[o]  BY <1>4
    <3> HIDE DEF h
    <3>5. \A u : ReadyUse(p, h, j, u) = ReadyUse(p, f, j, u)  BY <3>4 DEF ReadyUse
    <3> QED  BY <3>3, <3>5 DEF ReadyRule
  <2>2. h = [j \in 1 .. m |-> h[j]]  OBVIOUS
  <2> HIDE DEF h
  <2> QED  BY <2>1, <2>2
<1> HIDE DEF h
<1> QED  BY <1>4, <1>7

LEMMA ReadyFacts ==
  ASSUME NEW p \in Programs, NEW i \in Ready(p)
  PROVE  /\ i \in DOMAIN p /\ ReadyImports(p, i)
         /\ \A u \in Members(p[i].uses) : \E s \in Meaning(p, i, u) :
              /\ s # 0
              /\ Owner(p, s, u.name) \in 1 .. i - 1
              /\ p[Owner(p, s, u.name)].kind \in {"func", "for", "let"}
              /\ Owner(p, s, u.name) \in Ready(p)
<1> DEFINE P(f) == f = [j \in DOMAIN p |-> ReadyRule(p, f, j)]
           all == CHOOSE f : P(f)
<1>1. \E f : P(f)  BY ReadyExists
<1>2. Ready(p) = {j \in DOMAIN p : all[j]}
  BY DEF Ready, ReadyRule, ReadyImports, ReadyUse
<1>3. P(all)
  <2> HIDE DEF P
  <2> QED  BY <1>1, Zenon
<1> HIDE DEF all
<1>4. i \in DOMAIN p /\ all[i]  BY <1>2
<1>5. all[i] = ReadyRule(p, all, i)  BY <1>3, <1>4
<1>6. ReadyRule(p, all, i)  BY <1>4, <1>5
<1> HIDE DEF P
<1>7. \A o \in 1 .. i - 1 : all[o] => o \in Ready(p)
  <2>1. DOMAIN p = 1 .. Len(p) /\ Len(p) \in Nat  BY ItemFacts
  <2>2. \A o \in 1 .. i - 1 : o \in DOMAIN p  BY <1>4, <2>1
  <2> QED  BY <1>2, <2>2
<1> QED  BY <1>4, <1>6, <1>7 DEF ReadyRule, ReadyUse

(* The first item that declares a name in a scope.                         *)
LEMMA OwnerFacts ==
  ASSUME NEW p \in Programs, NEW s, NEW n, NEW j \in DOMAIN p, Declares(p, j, s, n)
  PROVE  /\ Owner(p, s, n) \in DOMAIN p /\ Owner(p, s, n) <= j
         /\ Declares(p, Owner(p, s, n), s, n)
         /\ \A k \in 1 .. Owner(p, s, n) - 1 : ~ Declares(p, k, s, n)
<1> DEFINE S == {i \in DOMAIN p : Declares(p, i, s, n)}
           First(i) == i \in DOMAIN p /\ Declares(p, i, s, n)
                       /\ \A k \in 1 .. i - 1 : ~ Declares(p, k, s, n)
<1>1. DOMAIN p = 1 .. Len(p) /\ Len(p) \in Nat  BY ItemFacts
<1>2. PICK i \in S : \A k \in S : i <= k
  <2>1. S \in SUBSET Nat /\ S # {}  BY <1>1
  <2> HIDE DEF S
  <2> QED  BY <2>1, Least
<1>3. First(i)
  <2> SUFFICES ASSUME NEW k \in 1 .. i - 1  PROVE ~ Declares(p, k, s, n)  OBVIOUS
  <2>1. k \in DOMAIN p /\ ~ (i <= k)  BY <1>1
  <2> QED  BY <1>2, <2>1
<1>4. Owner(p, s, n) = CHOOSE k : First(k)  BY DEF Owner
<1>5. First(Owner(p, s, n))
  <2> HIDE DEF First
  <2> QED  BY <1>3, <1>4, Zenon
<1>6. Owner(p, s, n) <= j
  <2> DEFINE o == Owner(p, s, n)
  <2>1. o \in 1 .. Len(p) /\ j \in 1 .. Len(p) /\ \A k \in 1 .. o - 1 : ~ Declares(p, k, s, n)
    BY <1>1, <1>5
  <2> HIDE DEF o
  <2>2. j \notin 1 .. o - 1  BY <2>1
  <2>3. o <= j  BY <1>1, <2>1, <2>2
  <2> QED  BY <2>3 DEF o
<1> QED  BY <1>5, <1>6

LEMMA OwnerUnique ==
  ASSUME NEW p \in Programs, NEW s, NEW n, NEW j \in DOMAIN p, Declares(p, j, s, n),
         \A k \in 1 .. j - 1 : ~ Declares(p, k, s, n)
  PROVE  Owner(p, s, n) = j
<1> DEFINE o == Owner(p, s, n)
<1>1. DOMAIN p = 1 .. Len(p) /\ Len(p) \in Nat  BY ItemFacts
<1>2. o \in DOMAIN p /\ o <= j /\ Declares(p, o, s, n)  BY OwnerFacts
<1> HIDE DEF o
<1>3. o \notin 1 .. j - 1  BY <1>2
<1>4. o = j  BY <1>1, <1>2, <1>3
<1> QED  BY <1>4 DEF o

(* The kinds of scopes.                                                    *)
LEMMA MeaningInCases ==
  ASSUME NEW p, NEW s \in Int, NEW i, NEW u
  PROVE  /\ s > 0 => MeaningIn(p, s, i, u) =
                       IF u.of = Bare /\ DeclaredBefore(p, s, i, u.name) THEN {s} ELSE {}
         /\ s = 0 => MeaningIn(p, s, i, u) =
                       IF u.of = Bare /\ u.name \in Builtins THEN {s} ELSE {}
         /\ s < 0 => MeaningIn(p, s, i, u) = ModuleMeaning(p, -s, u)
<1>1. CASE s > 0  BY <1>1 DEF MeaningIn, IsModule
<1>2. CASE s = 0  BY <1>2 DEF MeaningIn, IsModule
<1>3. CASE s < 0  BY <1>3 DEF MeaningIn, IsModule
<1> QED  BY <1>1, <1>2, <1>3

(* A meaning other than 0 is a scope in which an item declares the name.   *)
LEMMA MeaningDeclared ==
  ASSUME NEW p \in Programs, NEW i \in DOMAIN p, NEW u, NEW s \in Meaning(p, i, u), s # 0
  PROVE  \E j \in DOMAIN p : Declares(p, j, s, u.name)
<1> DEFINE path == Path(p, i)
<1>1. PICK k \in DOMAIN path : s \in MeaningIn(p, path[k], i, u)
  BY DEF Meaning, FirstOf
<1>2. path[k] \in Int  BY PathFacts DEF PathOK
<1>3. DOMAIN p = 1 .. Len(p) /\ Len(p) \in Nat  BY ItemFacts
<1> DEFINE r == path[k]
<1> HIDE DEF path
<1>4. s \in MeaningIn(p, r, i, u) /\ r \in Int  BY <1>1, <1>2
<1> HIDE DEF r
<1>5. CASE r > 0
  <2>1. s = r /\ \E j \in 1 .. i - 1 : Declares(p, j, r, u.name)
    <3>1. MeaningIn(p, r, i, u) = {r} /\ DeclaredBefore(p, r, i, u.name)
      BY <1>4, <1>5, MeaningInCases
    <3> QED  BY <1>4, <3>1 DEF DeclaredBefore
  <2>2. \A j \in 1 .. i - 1 : j \in DOMAIN p  BY <1>3
  <2> QED  BY <2>1, <2>2
<1>6. CASE r = 0
  <2>1. MeaningIn(p, r, i, u) = {r}  BY <1>4, <1>6, MeaningInCases
  <2> QED  BY <1>4, <1>6, <2>1
<1>7. CASE r < 0
  <2>1. \/ s = r /\ InModule(p, -r, u.name)
        \/ \E j \in Imports(p, -r) : s = Module(p[j].from) /\ InModule(p, p[j].from, u.name)
    <3>1. s \in ModuleMeaning(p, -r, u)  BY <1>4, <1>7, MeaningInCases
    <3> QED  BY <1>4, <3>1 DEF ModuleMeaning, Having, FirstOf, LastOf, Module
  <2>2. Module(-r) = r  BY <1>4 DEF Module
  <2> QED  BY <2>1, <2>2 DEF InModule
<1> QED  BY <1>4, <1>5, <1>6, <1>7

-----------------------------------------------------------------------------
(* Where the walks are.                                                    *)
LEMMA PlaceFacts ==
  ASSUME PlaceInv
  PROVE  /\ prog \in Programs /\ DOMAIN prog = 1 .. Last /\ Last \in Nat \ {0}
         /\ at \in 1 .. Last /\ start \in 1 .. at
         /\ \A i \in DOMAIN prog : prog[i].file \in Nat /\ prog[i].module \in Nat \ {0}
         /\ \A i, j \in DOMAIN prog : i < j => prog[i].file <= prog[j].file
         /\ \A i, j \in DOMAIN prog : prog[i].file = prog[j].file => prog[i].module = prog[j].module
         /\ \A i, j, k \in DOMAIN prog :
              i < j /\ j < k /\ prog[i].module = prog[k].module => prog[j].module = prog[i].module
BY ItemFacts DEF PlaceInv, Last, WellFormed

LEMMA PassedFacts ==
  ASSUME PlaceInv
  PROVE  /\ \A i \in DOMAIN prog : i < at => Passed(i)
         /\ \A i, j \in DOMAIN prog : Passed(i) /\ j <= i => Passed(j)
         /\ \A i \in DOMAIN prog : Passed(i) /\ ~ Passed(at) => i < at
         /\ ~ Passed(at) => phase = "register" /\ sub = 0
         /\ \A i \in DOMAIN prog : phase # "register" => Passed(i)
<1>1. DOMAIN prog = 1 .. Last /\ Last \in Nat /\ at \in 1 .. Last
  BY PlaceFacts
<1>2. /\ \A i \in DOMAIN prog : prog[i].file \in Nat
      /\ \A i, j \in DOMAIN prog : i < j => prog[i].file <= prog[j].file
  BY PlaceFacts
<1>3. sub \in Nat /\ (phase = "register" => sub \in {0, 1})  BY DEF PlaceInv
<1>4. \A i \in DOMAIN prog : i < at => Passed(i)  BY DEF Passed
<1>5. ASSUME NEW i \in DOMAIN prog, NEW j \in DOMAIN prog, Passed(i), j <= i
      PROVE  Passed(j)
  <2>1. CASE phase = "register" /\ ~ (i < at)
    <3>1. sub = 1 /\ prog[i].file <= prog[at].file  BY <1>5, <2>1 DEF Passed
    <3>2. prog[j].file <= prog[i].file
      <4>1. CASE j = i  BY <1>2, <4>1
      <4>2. CASE j < i  BY <1>2, <4>2
      <4> QED  BY <1>1, <1>5, <4>1, <4>2
    <3>3. prog[j].file <= prog[at].file  BY <1>1, <1>2, <3>1, <3>2
    <3> QED  BY <2>1, <3>1, <3>3 DEF Passed
  <2>2. CASE i < at  BY <1>1, <1>5, <2>2 DEF Passed
  <2>3. CASE phase # "register"  BY <2>3 DEF Passed
  <2> QED  BY <2>1, <2>2, <2>3
<1>6. ~ Passed(at) => phase = "register" /\ sub = 0
  <2>1. prog[at].file <= prog[at].file  BY <1>1, <1>2
  <2> QED  BY <1>1, <1>3, <2>1 DEF Passed
<1>7. ASSUME NEW i \in DOMAIN prog, Passed(i), ~ Passed(at)  PROVE i < at
  BY <1>6, <1>7 DEF Passed
<1> QED  BY <1>4, <1>5, <1>6, <1>7 DEF Passed

(* The walks go on.                                                        *)
LEMMA LeaveFacts ==
  ASSUME PlaceInv, NEW un, Leave(un), prog' = prog
  PROVE  /\ PlaceInv'
         /\ \A i : Passed(i)' <=> Passed(i) \/ i = at
         /\ \A m : Exists(m) => Exists(m)'
<1>1. /\ DOMAIN prog = 1 .. Last /\ Last \in Nat /\ at \in 1 .. Last /\ at \in Nat
      /\ start \in 1 .. at
  BY PlaceFacts
<1>2. /\ \A i \in DOMAIN prog : prog[i].file \in Nat
      /\ \A i, j \in DOMAIN prog : i < j => prog[i].file <= prog[j].file
      /\ \A i, j \in DOMAIN prog : prog[i].file = prog[j].file => prog[i].module = prog[j].module
  BY PlaceFacts
<1>3. /\ prog \in Programs /\ sub \in Nat /\ phase \in Phases
      /\ phase = "register" => sub \in {0, 1} /\ prog[start].file = prog[at].file
  BY DEF PlaceInv
<1>4. \A i \in DOMAIN prog : phase = "register" /\ sub = 1 =>
        (Passed(i) <=> prog[i].file <= prog[at].file)
  <2> SUFFICES ASSUME NEW i \in DOMAIN prog, phase = "register", sub = 1
               PROVE  Passed(i) <=> prog[i].file <= prog[at].file
    OBVIOUS
  <2>1. i < at => prog[i].file <= prog[at].file  BY <1>1, <1>2
  <2> QED  BY <2>1 DEF Passed
<1>5. phase = "register" /\ EndOfFile =>
        \A i \in DOMAIN prog : prog[i].file <= prog[at].file <=> i <= at
  <2> SUFFICES ASSUME EndOfFile, NEW i \in DOMAIN prog
               PROVE  prog[i].file <= prog[at].file <=> i <= at
    OBVIOUS
  <2>1. i < at => prog[i].file <= prog[at].file  BY <1>1, <1>2
  <2>2. ASSUME i > at  PROVE ~ (prog[i].file <= prog[at].file)
    <3>1. at + 1 \in DOMAIN prog /\ at < Last  BY <1>1, <2>2
    <3>2. prog[at + 1].file # prog[at].file  BY <3>1 DEF EndOfFile
    <3>3. prog[at].file <= prog[at + 1].file  BY <1>1, <1>2, <3>1
    <3>4. prog[at + 1].file <= prog[i].file
      <4>1. CASE i = at + 1  BY <1>2, <3>1, <4>1
      <4>2. CASE i # at + 1
        <5>1. at + 1 < i  BY <1>1, <2>2, <4>2
        <5> QED  BY <1>2, <3>1, <5>1
      <4> QED  BY <4>1, <4>2
    <3>5. /\ prog[at].file \in Nat /\ prog[at + 1].file \in Nat /\ prog[i].file \in Nat
      BY <1>1, <1>2, <3>1
    <3> QED  BY <3>2, <3>3, <3>4, <3>5
  <2>3. i = at => prog[i].file <= prog[at].file  BY <1>1, <1>2
  <2>4. i \in Nat /\ at \in Nat  BY <1>1
  <2>5. CASE i <= at
    <3>1. i < at \/ i = at  BY <2>4, <2>5
    <3> QED  BY <2>1, <2>3, <2>5, <3>1
  <2>6. CASE ~ (i <= at)
    <3>1. i > at  BY <2>4, <2>6
    <3> QED  BY <2>2, <2>6, <3>1
  <2> QED  BY <2>5, <2>6
<1>6. CASE NextItem(un)
  <2>1. /\ phase' = phase /\ sub' = sub /\ start' = start /\ at' = at + 1
        /\ phase \in {"register", "resolve", "checks"}
    BY <1>6 DEF NextItem, Goto
  <2>2. at < Last /\ (phase = "register" => prog[at + 1].file = prog[at].file)
    BY <1>1, <1>6 DEF NextItem, EndOfFile
  <2>3. at + 1 \in DOMAIN prog  BY <1>1, <2>2
  <2>4. PlaceInv'  BY <1>1, <1>3, <2>1, <2>2, <2>3 DEF PlaceInv
  <2>5. ASSUME NEW i  PROVE Passed(i)' <=> Passed(i) \/ i = at
    <3>1. Passed(i)' <=> /\ i \in DOMAIN prog
                         /\ phase = "register" =>
                              i < at + 1 \/ (sub = 1 /\ prog[i].file <= prog[at + 1].file)
      BY <2>1 DEF Passed
    <3>2. CASE phase = "register" /\ sub = 1
      <4>1. i \in DOMAIN prog /\ i < at + 1 => prog[i].file <= prog[at].file
        <5>1. CASE i = at  BY <1>1, <1>2, <5>1
        <5>2. CASE i # at  BY <1>1, <1>2, <5>2
        <5> QED  BY <5>1, <5>2
      <4>2. i = at => i \in DOMAIN prog /\ i < at + 1  BY <1>1
      <4>3. Passed(i) => i \in DOMAIN prog  BY DEF Passed
      <4> QED  BY <1>4, <2>2, <3>1, <3>2, <4>1, <4>2, <4>3
    <3>3. CASE ~ (phase = "register" /\ sub = 1)
      <4>1. i \in DOMAIN prog => (i < at + 1 <=> i < at \/ i = at)  BY <1>1
      <4>2. i = at => i \in DOMAIN prog  BY <1>1
      <4> QED  BY <3>1, <3>3, <4>1, <4>2 DEF Passed
    <3> QED  BY <3>2, <3>3
  <2>6. ASSUME NEW m, Exists(m)  PROVE Exists(m)'
    <3>1. \A i \in DOMAIN prog : i <= at => i <= at + 1  BY <1>1
    <3> QED  BY <2>1, <2>6, <3>1 DEF Exists
  <2> QED  BY <2>4, <2>5, <2>6
<1>7. CASE RepeatFile(un)
  <2>1. /\ phase = "register" /\ sub = 0 /\ EndOfFile
        /\ phase' = "register" /\ sub' = 1 /\ start' = start /\ at' = start
    BY <1>7 DEF RepeatFile, Goto
  <2>2. start \in DOMAIN prog /\ prog[start].file = prog[at].file  BY <1>1, <1>3, <2>1
  <2>3. PlaceInv'
    <3>1. start \in 1 .. start  BY <1>1
    <3> QED  BY <1>3, <2>1, <2>2, <3>1 DEF PlaceInv
  <2>4. ASSUME NEW i  PROVE Passed(i)' <=> Passed(i) \/ i = at
    <3>1. Passed(i)' <=> i \in DOMAIN prog /\ (i < start \/ prog[i].file <= prog[at].file)
      BY <2>1, <2>2 DEF Passed
    <3>2. i \in DOMAIN prog => (i < start \/ prog[i].file <= prog[at].file <=> i <= at)
      <4>1. i \in DOMAIN prog => (prog[i].file <= prog[at].file <=> i <= at)  BY <1>5, <2>1
      <4>2. i \in DOMAIN prog /\ i < start => i <= at  BY <1>1
      <4> QED  BY <4>1, <4>2
    <3>3. Passed(i) <=> i \in DOMAIN prog /\ i < at  BY <2>1 DEF Passed
    <3> QED  BY <1>1, <3>1, <3>2, <3>3
  <2>5. ASSUME NEW m, Exists(m)  PROVE Exists(m)'
    <3>1. PICK i \in DOMAIN prog : prog[i].module = m /\ i <= at  BY <2>1, <2>5 DEF Exists
    <3>2. CASE i <= start  BY <2>1, <3>1, <3>2 DEF Exists
    <3>3. CASE ~ (i <= start)
      <4>1. prog[start].file <= prog[i].file  BY <1>1, <1>2, <2>2, <3>3
      <4>2. prog[i].file <= prog[at].file  BY <1>5, <2>1, <3>1
      <4>3. prog[i].file = prog[start].file  BY <1>2, <2>2, <4>1, <4>2
      <4>4. prog[start].module = m  BY <1>2, <2>2, <3>1, <4>3
      <4>5. start <= start  BY <1>1
      <4> QED  BY <2>1, <2>2, <4>4, <4>5 DEF Exists
    <3> QED  BY <3>2, <3>3
  <2> QED  BY <2>3, <2>4, <2>5
<1>8. CASE NextFile(un)
  <2>1. phase = "register" /\ sub = 1 /\ EndOfFile  BY <1>8 DEF NextFile
  <2>2. \A i \in DOMAIN prog : Passed(i) <=> i <= at  BY <1>4, <1>5, <2>1
  <2>3. CASE at < Last
    <3>1. phase' = "register" /\ sub' = 0 /\ start' = at + 1 /\ at' = at + 1
      BY <1>8, <2>3 DEF NextFile, Goto
    <3>2. at + 1 \in DOMAIN prog /\ at + 1 \in 1 .. at + 1  BY <1>1, <2>3
    <3>3. PlaceInv'  BY <1>3, <3>1, <3>2 DEF PlaceInv, Phases
    <3>4. ASSUME NEW i  PROVE Passed(i)' <=> Passed(i) \/ i = at
      <4>1. Passed(i)' <=> i \in DOMAIN prog /\ i < at + 1
        <5>1. phase' = "register" /\ ~ (sub' = 1) /\ at' = at + 1  BY <3>1
        <5> QED  BY <5>1 DEF Passed
      <4>2. Passed(i) => i \in DOMAIN prog  BY DEF Passed
      <4>3. i \in DOMAIN prog => (i < at + 1 <=> i <= at)  BY <1>1
      <4> QED  BY <1>1, <2>2, <4>1, <4>2, <4>3
    <3>5. ASSUME NEW m, Exists(m)  PROVE Exists(m)'
      <4>1. \A i \in DOMAIN prog : i <= at => i <= at + 1  BY <1>1
      <4> QED  BY <2>1, <3>1, <3>5, <4>1 DEF Exists
    <3> QED  BY <3>3, <3>4, <3>5
  <2>4. CASE ~ (at < Last)
    <3>1. phase' = "imports" /\ sub' = 0 /\ start' = 1 /\ at' = 1
      BY <1>8, <2>4 DEF NextFile, Goto
    <3>2. 1 \in DOMAIN prog /\ 1 \in 1 .. 1  BY <1>1
    <3>3. PlaceInv'  BY <1>3, <3>1, <3>2 DEF PlaceInv, Phases
    <3>4. ASSUME NEW i  PROVE Passed(i)' <=> Passed(i) \/ i = at
      <4>1. Passed(i)' <=> i \in DOMAIN prog  BY <3>1 DEF Passed
      <4>2. Passed(i) => i \in DOMAIN prog  BY DEF Passed
      <4>3. i \in DOMAIN prog => i <= at  BY <1>1, <2>4
      <4> QED  BY <1>1, <2>2, <4>1, <4>2, <4>3
    <3>5. ASSUME NEW m, Exists(m)  PROVE Exists(m)'  BY <3>1, <3>5 DEF Exists
    <3> QED  BY <3>3, <3>4, <3>5
  <2> QED  BY <2>3, <2>4
<1>9. CASE ResolveAgain(un) \/ StartChecks(un) \/ Finish(un)
  <2>1. /\ phase \in {"resolve", "checks"} /\ phase' \in {"resolve", "checks", "done"}
        /\ sub' \in {0, sub + 1} /\ start' = 1 /\ at' = 1
    BY <1>9 DEF ResolveAgain, StartChecks, Finish, Goto, Checking
  <2>2. 1 \in DOMAIN prog /\ 1 \in 1 .. 1  BY <1>1
  <2>3. PlaceInv'  BY <1>3, <2>1, <2>2 DEF PlaceInv, Phases
  <2>4. \A i : Passed(i)' <=> Passed(i) \/ i = at  BY <1>1, <2>1 DEF Passed
  <2>5. ASSUME NEW m, Exists(m)  PROVE Exists(m)'  BY <2>1, <2>5 DEF Exists
  <2> QED  BY <2>3, <2>4, <2>5
<1> QED  BY <1>6, <1>7, <1>8, <1>9 DEF Leave

-----------------------------------------------------------------------------
(* What is found.                                                          *)
LEMMA SymbolFacts ==
  ASSUME PlaceInv, SymbolsInv, NEW s, NEW n, Has(s, n)
  PROVE  /\ s = 0 => n \in Builtins
         /\ s # 0 => /\ symbols[s, n].item \in DOMAIN prog /\ Passed(symbols[s, n].item)
                     /\ Declares(prog, symbols[s, n].item, s, n)
<1> DEFINE k == <<s, n>>
<1>1. k \in DOMAIN symbols  BY DEF Has
<1>2. k[1] = s /\ k[2] = n  OBVIOUS
<1>3. symbols[s, n] = symbols[k]  OBVIOUS
<1> HIDE DEF k
<1>4. s # 0 => Passed(symbols[k].item) /\ Declares(prog, symbols[k].item, s, n)
  BY <1>1, <1>2 DEF SymbolsInv
<1>5. s = 0 => n \in Builtins  BY <1>1, <1>2 DEF SymbolsInv
<1> QED  BY <1>3, <1>4, <1>5 DEF Passed

(* A name that a declaration passed has not brought yet is nowhere.        *)
LEMMA NotHad ==
  ASSUME AllPlain, TextInv, NEW j \in DOMAIN prog, NEW s, NEW n,
         Passed(j), Declares(prog, j, s, n), ~ Has(s, n)
  PROVE  /\ n \notin Builtins
         /\ \A i \in DOMAIN prog \ {j} : n \notin Members(prog[i].names)
         /\ \A r : ~ Has(r, n)
<1> USE DEF TextInv
<1>1. prog \in Programs  BY DEF PlaceInv
<1>2. Waits(j)
  <2>1. s = DeclaresIn(prog, j) /\ n \in Members(prog[j].names)  BY DEF Declares
  <2> QED  BY <2>1 DEF DeclaredInv
<1>3. ~ Awaited(prog)  BY <1>1 DEF AllPlain, Plain
<1>4. n \in Members(prog[j].names)  BY DEF Declares
<1>5. n \notin Builtins /\ \A i \in DOMAIN prog \ {j} : n \notin Members(prog[i].names)
  BY <1>2, <1>3, <1>4 DEF Awaited, Waits
<1>6. ASSUME NEW r, Has(r, n)  PROVE FALSE
  <2>1. r # 0  BY <1>5, <1>6, SymbolFacts
  <2>2. symbols[r, n].item \in DOMAIN prog /\ Declares(prog, symbols[r, n].item, r, n)
    BY <1>6, <2>1, SymbolFacts
  <2>3. symbols[r, n].item = j  BY <1>5, <2>2 DEF Declares
  <2> QED  BY <1>6, <2>2, <2>3 DEF Declares
<1> QED  BY <1>5, <1>6

(* The imports of a module that have the name, in the order of the search. *)
Hits(m, u) == {k \in Searched(m) : Has(From(imports[m][k]), u.name)}
Quals(m, u) == {k \in Called(m, u.of) : Has(From(imports[m][k]), u.name)}

LEMMA FindInCases ==
  ASSUME NEW s \in Int, NEW u
  PROVE  /\ s >= 0 => FindIn(s, u) = IF u.of = Bare /\ Has(s, u.name) THEN {s} ELSE {}
         /\ u.of = Bare /\ Has(s, u.name) => FindIn(s, u) = {s}
         /\ s < 0 /\ u.of = Bare /\ ~ Has(s, u.name) =>
              FindIn(s, u) = {From(imports[-s][k]) : k \in FirstOf(Hits(-s, u))}
         /\ s < 0 /\ u.of # Bare =>
              FindIn(s, u) = {From(imports[-s][k]) : k \in FirstOf(Quals(-s, u))}
<1>1. IsModule(s) <=> ~ (s >= 0)  BY DEF IsModule
<1>2. CASE u.of = Bare  BY <1>1, <1>2 DEF FindIn, Hits
<1>3. CASE u.of # Bare  BY <1>1, <1>3 DEF FindIn, Quals
<1> QED  BY <1>2, <1>3

(* The search of a module's imports.                                       *)
LEMMA HitsFacts ==
  ASSUME PlaceInv, ImportsInv, NEW m \in DOMAIN imports, NEW u
  PROVE  /\ Hits(m, u) \in SUBSET Nat /\ Hits(m, u) \subseteq DOMAIN imports[m]
         /\ \A k \in DOMAIN imports[m] : /\ imports[m][k] \in Imports(prog, m)
                                         /\ Passed(imports[m][k])
         /\ \A i \in Imports(prog, m) : Passed(i) => \E k \in DOMAIN imports[m] : imports[m][k] = i
<1>1. imports[m] \in Seq(Nat) /\ Members(imports[m]) = {i \in Imports(prog, m) : Passed(i)}
  BY DEF ImportsInv
<1>2. DOMAIN imports[m] = 1 .. Len(imports[m]) /\ Len(imports[m]) \in Nat  BY <1>1
<1>3. Hits(m, u) \subseteq DOMAIN imports[m]  BY DEF Hits, Searched, Open
<1>4. \A k \in DOMAIN imports[m] : imports[m][k] \in Members(imports[m])  BY DEF Members
<1>5. \A i \in Members(imports[m]) : \E k \in DOMAIN imports[m] : imports[m][k] = i
  BY DEF Members
<1>6. DOMAIN imports[m] \in SUBSET Nat  BY <1>2
<1> QED  BY <1>1, <1>3, <1>4, <1>5, <1>6

(* The import a qualified name is looked up in: the last of that name, and *)
(* all of that name are of one module.                                     *)
LEMMA QualsFacts ==
  ASSUME AllPlain, PlaceInv, ImportsInv, NEW m \in DOMAIN imports, NEW u
  PROVE  /\ \A k \in Quals(m, u) :
              /\ k \in DOMAIN imports[m] /\ Key(prog[imports[m][k]]) = u.of
              /\ Has(From(imports[m][k]), u.name)
              /\ FirstOf(Quals(m, u)) = {k}
         /\ \A k \in DOMAIN imports[m] :
              Key(prog[imports[m][k]]) = u.of /\ Has(From(imports[m][k]), u.name) => Quals(m, u) # {}
         /\ \A i, j \in Imports(prog, m) :
              Key(prog[i]) = u.of /\ Key(prog[j]) = u.of => prog[i].from = prog[j].from
<1> DEFINE C == {k \in DOMAIN imports[m] : Key(prog[imports[m][k]]) = u.of}
<1>1. imports[m] \in Seq(Nat)  BY DEF ImportsInv
<1>2. DOMAIN imports[m] = 1 .. Len(imports[m]) /\ Len(imports[m]) \in Nat  BY <1>1
<1>3. C \in SUBSET (1 .. Len(imports[m])) /\ C \subseteq DOMAIN imports[m]  BY <1>2
<1>4. Called(m, u.of) = LastOf(C)  BY DEF Called
<1>5. \A k \in C : Key(prog[imports[m][k]]) = u.of  OBVIOUS
<1>6. \A i, j \in Imports(prog, m) :
        Key(prog[i]) = u.of /\ Key(prog[j]) = u.of => prog[i].from = prog[j].from
  <2>1. ~ SharedKey(prog)  BY DEF AllPlain, Plain, PlaceInv
  <2> QED  BY <2>1 DEF SharedKey, Imports
<1>7. \A k \in DOMAIN imports[m] : Key(prog[imports[m][k]]) = u.of => k \in C  OBVIOUS
<1> HIDE DEF C
<1>8. ASSUME NEW k \in Quals(m, u)
      PROVE  /\ k \in C /\ Has(From(imports[m][k]), u.name)
             /\ FirstOf(Quals(m, u)) = {k}
  <2>1. k \in LastOf(C) /\ Has(From(imports[m][k]), u.name)  BY <1>4, <1>8 DEF Quals
  <2>2. C # {}  BY <2>1 DEF LastOf
  <2>3. PICK l \in C : LastOf(C) = {l}  BY <1>2, <1>3, <2>2, LastOfFacts
  <2>4. l = k /\ Quals(m, u) = {k}  BY <1>4, <2>1, <2>3 DEF Quals
  <2>5. Quals(m, u) \in SUBSET Nat /\ Quals(m, u) # {}  BY <1>2, <1>3, <2>3, <2>4
  <2>6. PICK j \in Quals(m, u) : FirstOf(Quals(m, u)) = {j}  BY <2>5, FirstOfFacts
  <2> QED  BY <2>1, <2>3, <2>4, <2>6
<1>9. ASSUME NEW k \in DOMAIN imports[m], Key(prog[imports[m][k]]) = u.of,
             Has(From(imports[m][k]), u.name)
      PROVE  Quals(m, u) # {}
  <2>1. k \in C  BY <1>7, <1>9
  <2>2. PICK l \in C : LastOf(C) = {l}  BY <1>2, <1>3, <2>1, LastOfFacts
  <2>3. l \in DOMAIN imports[m] /\ Key(prog[imports[m][l]]) = u.of  BY <1>3, <1>5, <2>2
  <2>4. imports[m][l] \in Imports(prog, m) /\ imports[m][k] \in Imports(prog, m)
    BY <1>9, <2>3, HitsFacts
  <2>5. prog[imports[m][l]].from = prog[imports[m][k]].from  BY <1>6, <1>9, <2>3, <2>4
  <2>6. Has(From(imports[m][l]), u.name)  BY <1>9, <2>5 DEF From
  <2> QED  BY <1>4, <2>2, <2>6 DEF Quals
<1> QED  BY <1>3, <1>5, <1>6, <1>8, <1>9

(* A module that exists besides the one being walked has been passed.      *)
LEMMA ThereFacts ==
  ASSUME PlaceInv, NEW m, Exists(m), m # prog[at].module, NEW j \in DOMAIN prog, prog[j].module = m
  PROVE  Passed(j)
<1>1. DOMAIN prog = 1 .. Last /\ Last \in Nat /\ at \in 1 .. Last  BY PlaceFacts
<1>2. CASE phase # "register"  BY <1>2 DEF Passed
<1>3. CASE phase = "register"
  <2>1. PICK i \in DOMAIN prog : prog[i].module = m /\ i <= at  BY <1>3 DEF Exists
  <2>2. i < at  BY <1>1, <2>1
  <2>3. ~ (at < j)
    <3>1. at \in DOMAIN prog /\ (at < j => prog[at].module = prog[i].module)
      BY <1>1, <2>1, <2>2, PlaceFacts
    <3> QED  BY <2>1, <3>1
  <2>4. j < at  BY <1>1, <2>3
  <2> QED  BY <2>4 DEF Passed
<1> QED  BY <1>2, <1>3

(* A scope around the item being visited is searched, and has the name if  *)
(* the text says so; if it should and does not, no other scope does.       *)
Answers(s, u) ==
  /\ FindIn(s, u) # {} => FindIn(s, u) = MeaningIn(prog, s, at, u)
  /\ MeaningIn(prog, s, at, u) # {} /\ FindIn(s, u) = {} =>
       IF s > 0 THEN \A r \in Int : FindIn(r, u) = {} ELSE FindIn(0, u) = {}

LEMMA NowhereFound ==
  ASSUME PlaceInv, SymbolsInv, NEW u, \A r : ~ Has(r, u.name)
  PROVE  \A r \in Int : FindIn(r, u) = {}
<1> TAKE r \in Int
<1>1. CASE r >= 0  BY <1>1, FindInCases
<1>2. CASE ~ (r >= 0)
  <2>1. r < 0  BY <1>2
  <2>2. Hits(-r, u) = {} /\ Quals(-r, u) = {}  BY DEF Hits, Quals
  <2>3. FirstOf({}) = {}  BY DEF FirstOf
  <2>4. CASE u.of = Bare
    <3>1. FindIn(r, u) = {From(imports[-r][k]) : k \in FirstOf(Hits(-r, u))}
      BY <2>1, <2>4, FindInCases
    <3> QED  BY <2>2, <2>3, <3>1
  <2>5. CASE u.of # Bare
    <3>1. FindIn(r, u) = {From(imports[-r][k]) : k \in FirstOf(Quals(-r, u))}
      BY <2>1, <2>5, FindInCases
    <3> QED  BY <2>2, <2>3, <3>1
  <2> QED  BY <2>4, <2>5
<1> QED  BY <1>1, <1>2

LEMMA LocalAnswers ==
  ASSUME AllPlain, TextInv, NEW u \in Members(prog[at].uses), NEW s \in DOMAIN prog,
         s \in Members(Path(prog, at))
  PROVE  Answers(s, u)
<1>1. /\ prog \in Programs /\ DOMAIN prog = 1 .. Last /\ Last \in Nat /\ at \in 1 .. Last
      /\ PlaceInv /\ SymbolsInv
  BY PlaceFacts DEF TextInv
<1>2. s \in Int /\ s > 0 /\ s >= 0 /\ s # 0  BY <1>1
<1>3. /\ FindIn(s, u) = IF u.of = Bare /\ Has(s, u.name) THEN {s} ELSE {}
      /\ MeaningIn(prog, s, at, u) =
           IF u.of = Bare /\ DeclaredBefore(prog, s, at, u.name) THEN {s} ELSE {}
  BY <1>2, FindInCases, MeaningInCases
<1>4. ASSUME Has(s, u.name)  PROVE DeclaredBefore(prog, s, at, u.name)
  <2>1. PICK j \in DOMAIN prog : Declares(prog, j, s, u.name)
    BY <1>1, <1>2, <1>4, SymbolFacts
  <2>2. ~ MentionedBefore(prog, s, u.name, at)
    <3>1. ~ LateLocal(prog)  BY <1>1 DEF AllPlain, Plain
    <3> QED  BY <1>1, <3>1 DEF LateLocal, Last
  <2>3. CASE j \in at .. Len(prog)  BY <2>1, <2>2, <2>3 DEF MentionedBefore, DeclaredBefore
  <2>4. CASE j \notin at .. Len(prog)
    <3>1. j \in 1 .. at - 1  BY <1>1, <2>4 DEF Last
    <3> QED  BY <2>1, <3>1 DEF DeclaredBefore
  <2> QED  BY <2>3, <2>4
<1>5. ASSUME DeclaredBefore(prog, s, at, u.name), ~ Has(s, u.name)
      PROVE  \A r \in Int : FindIn(r, u) = {}
  <2>1. PICK j \in 1 .. at - 1 : Declares(prog, j, s, u.name)  BY <1>5 DEF DeclaredBefore
  <2>2. j \in DOMAIN prog /\ j < at  BY <1>1
  <2>3. Passed(j)  BY <1>1, <2>2, PassedFacts
  <2>4. \A r : ~ Has(r, u.name)  BY <1>5, <2>1, <2>2, <2>3, NotHad
  <2> QED  BY <1>1, <2>4, NowhereFound
<1> QED  BY <1>2, <1>3, <1>4, <1>5 DEF Answers

LEMMA BuiltinAnswers ==
  ASSUME PlaceInv, SymbolsInv, NEW u  PROVE Answers(0, u)
<1>1. 0 \in Int /\ 0 >= 0 /\ ~ (0 > 0)  OBVIOUS
<1>2. /\ FindIn(0, u) = IF u.of = Bare /\ Has(0, u.name) THEN {0} ELSE {}
      /\ MeaningIn(prog, 0, at, u) = IF u.of = Bare /\ u.name \in Builtins THEN {0} ELSE {}
  BY <1>1, FindInCases, MeaningInCases
<1>3. Has(0, u.name) => u.name \in Builtins  BY SymbolFacts
<1>4. FindIn(0, u) # {} => FindIn(0, u) = MeaningIn(prog, 0, at, u)  BY <1>2, <1>3
<1> QED  BY <1>1, <1>4 DEF Answers

LEMMA ModuleAnswers ==
  ASSUME AllPlain, TextInv, NEW u \in Members(prog[at].uses)
  PROVE  Answers(Module(prog[at].module), u)
<1> DEFINE m == prog[at].module
           s == Module(prog[at].module)
           n == u.name
<1>1. /\ prog \in Programs /\ DOMAIN prog = 1 .. Last /\ Last \in Nat /\ at \in 1 .. Last
      /\ at \in DOMAIN prog /\ m \in Nat \ {0}
      /\ PlaceInv /\ SymbolsInv /\ ImportsInv /\ m \in DOMAIN imports
  BY PlaceFacts DEF TextInv, ImportsInv
<1>2. /\ s \in Int /\ s < 0 /\ ~ (s > 0) /\ -s = m /\ s # 0  BY <1>1 DEF Module
<1>3. MeaningIn(prog, s, at, u) = ModuleMeaning(prog, m, u)  BY <1>2, MeaningInCases
<1>4. FindIn(0, u) = IF u.of = Bare /\ Has(0, n) THEN {0} ELSE {}
  <2>1. 0 \in Int /\ 0 >= 0  OBVIOUS
  <2> QED  BY <2>1, FindInCases
<1>5. Has(0, n) => n \in Builtins  BY <1>1, SymbolFacts
<1>6. ~ LateGlobal(prog)  BY <1>1 DEF AllPlain, Plain
<1> DEFINE Own == InModule(prog, m, n)
           A == {k \in Having(prog, m, u) : prog[k].alias = Bare}
           Imported == \E k \in Imports(prog, m) :
                         prog[k].alias = Bare /\ InModule(prog, prog[k].from, n)
<1>7. /\ Own => ((Imported \/ n \in Builtins) => ~ MentionedBefore(prog, Module(m), n, at))
      /\ ~ Own => ~ (Imported /\ n \in Builtins)
  BY <1>1, <1>6 DEF LateGlobal
<1>8. ASSUME NEW r \in Nat, Has(Module(r), n), r # 0
      PROVE  InModule(prog, r, n)
  <2>1. Module(r) # 0  BY <1>8 DEF Module
  <2> QED  BY <1>1, <1>8, <2>1, SymbolFacts DEF InModule
<1>9. \A k \in Imports(prog, m) : prog[k].from \in Nat \ {0} /\ k \in DOMAIN prog
  BY <1>1, ItemFacts DEF Imports
<1>10. CASE u.of # Bare
  <2>1. FindIn(0, u) = {}  BY <1>4, <1>10
  <2>2. ASSUME FindIn(s, u) # {}  PROVE FindIn(s, u) = MeaningIn(prog, s, at, u)
    <3>1. FindIn(s, u) = {From(imports[m][k]) : k \in FirstOf(Quals(m, u))}
      BY <1>2, <1>10, FindInCases
    <3>2. PICK k \in Quals(m, u) : TRUE  BY <2>2, <3>1 DEF FirstOf
    <3>3. /\ k \in DOMAIN imports[m] /\ Key(prog[imports[m][k]]) = u.of
          /\ Has(From(imports[m][k]), n) /\ FirstOf(Quals(m, u)) = {k}
      BY <1>1, <3>2, QualsFacts
    <3> DEFINE i == imports[m][k]
               C == {j \in Imports(prog, m) : Key(prog[j]) = u.of}
    <3>4. FindIn(s, u) = {Module(prog[i].from)}  BY <3>1, <3>3 DEF From
    <3>5. i \in C  BY <1>1, <3>3, HitsFacts
    <3>6. C \in SUBSET (1 .. Last) /\ \A j \in C : j \in Imports(prog, m) /\ Key(prog[j]) = u.of
      BY <1>1 DEF Imports
    <3>7. ModuleMeaning(prog, m, u) = {Module(prog[j].from) : j \in LastOf(C) \cap Having(prog, m, u)}
      BY <1>10 DEF ModuleMeaning
    <3>8. Has(From(i), n)  BY <3>3
    <3> HIDE DEF C, i
    <3>9. PICK l \in C : LastOf(C) = {l}  BY <1>1, <3>5, <3>6, LastOfFacts
    <3>10. prog[l].from = prog[i].from  BY <1>1, <3>5, <3>6, <3>9, QualsFacts
    <3>11. InModule(prog, prog[i].from, n)  BY <1>8, <1>9, <3>5, <3>6, <3>8 DEF From
    <3>12. l \in Having(prog, m, u)  BY <3>6, <3>9, <3>10, <3>11 DEF Having
    <3>13. ModuleMeaning(prog, m, u) = {Module(prog[l].from)}  BY <3>7, <3>9, <3>12
    <3> QED  BY <1>3, <3>4, <3>10, <3>13
  <2> QED  BY <1>2, <2>1, <2>2 DEF Answers
<1>11. CASE u.of = Bare /\ Has(s, n)
  <2>1. FindIn(s, u) = {s}  BY <1>2, <1>11, FindInCases
  <2>2. Own  BY <1>1, <1>2, <1>8, <1>11
  <2>3. ModuleMeaning(prog, m, u) = {s}  BY <1>11, <2>2 DEF ModuleMeaning
  <2> QED  BY <1>3, <2>1, <2>3 DEF Answers
<1>12. CASE u.of = Bare /\ ~ Has(s, n) /\ Own
  <2>1. PICK j \in DOMAIN prog : Declares(prog, j, s, n)  BY <1>12 DEF InModule
  <2>3. ASSUME \A i \in 1 .. at - 1 : ~ Declares(prog, i, s, n)  PROVE Answers(s, u)
    <3>1. j \in at .. Len(prog)
      <4>1. j \notin 1 .. at - 1  BY <2>1, <2>3
      <4> QED  BY <1>1, <4>1 DEF Last
    <3>2. MentionedBefore(prog, Module(m), n, at)  BY <2>1, <2>3, <3>1 DEF MentionedBefore
    <3>3. ~ Imported /\ n \notin Builtins  BY <1>7, <1>12, <3>2
    <3>4. FindIn(0, u) = {}  BY <1>4, <1>5, <3>3
    <3>5. Hits(m, u) = {}
      <4> SUFFICES ASSUME NEW k \in Hits(m, u)  PROVE FALSE  OBVIOUS
      <4>1. /\ k \in DOMAIN imports[m] /\ prog[imports[m][k]].alias = Bare
            /\ Has(From(imports[m][k]), n)
        BY DEF Hits, Searched, Open
      <4>2. imports[m][k] \in Imports(prog, m)  BY <1>1, <4>1, HitsFacts
      <4>3. InModule(prog, prog[imports[m][k]].from, n)  BY <1>8, <1>9, <4>1, <4>2 DEF From
      <4> QED  BY <3>3, <4>1, <4>2, <4>3
    <3>6. FindIn(s, u) = {}
      <4>1. FindIn(s, u) = {From(imports[m][k]) : k \in FirstOf(Hits(m, u))}
        BY <1>2, <1>12, FindInCases
      <4>2. FirstOf({}) = {}  BY DEF FirstOf
      <4> QED  BY <3>5, <4>1, <4>2
    <3> QED  BY <1>2, <3>4, <3>6 DEF Answers
  <2>4. CASE \E i \in 1 .. at - 1 : Declares(prog, i, s, n)
    <3>1. PICK i \in 1 .. at - 1 : Declares(prog, i, s, n)  BY <2>4
    <3>2. i \in DOMAIN prog /\ i < at  BY <1>1
    <3>3. Passed(i)  BY <1>1, <3>2, PassedFacts
    <3>4. \A r : ~ Has(r, n)  BY <1>12, <3>1, <3>2, <3>3, NotHad
    <3>5. \A r \in Int : FindIn(r, u) = {}  BY <1>1, <3>4, NowhereFound
    <3> QED  BY <1>2, <3>5 DEF Answers
  <2> QED  BY <2>3, <2>4
<1>13. CASE u.of = Bare /\ ~ Has(s, n) /\ ~ Own
  <2>1. FindIn(s, u) = {From(imports[m][k]) : k \in FirstOf(Hits(m, u))}
    BY <1>2, <1>13, FindInCases
  <2>2. ModuleMeaning(prog, m, u) = {Module(prog[k].from) : k \in FirstOf(A)}
    BY <1>13 DEF ModuleMeaning
  <2>3. /\ A \in SUBSET Nat
        /\ \A k \in A : /\ k \in Imports(prog, m) /\ k \in DOMAIN prog /\ k \in Nat
                        /\ prog[k].alias = Bare /\ InModule(prog, prog[k].from, n)
    BY <1>1 DEF Having, Imports
  <2>4. \A k \in Imports(prog, m) :
          prog[k].alias = Bare /\ InModule(prog, prog[k].from, n) => k \in A
    BY DEF Having
  <2> HIDE DEF A
  <2>5. ModuleMeaning(prog, m, u) # {} => FindIn(0, u) = {}
    <3>1. A # {} => Imported  BY <2>3
    <3>2. ModuleMeaning(prog, m, u) # {} => A # {}  BY <2>2 DEF FirstOf
    <3> QED  BY <1>4, <1>5, <1>7, <1>13, <3>1, <3>2
  <2>6. ASSUME FindIn(s, u) # {}  PROVE FindIn(s, u) = ModuleMeaning(prog, m, u)
    <3>1. Hits(m, u) # {}
      <4>1. FirstOf({}) = {}  BY DEF FirstOf
      <4> QED  BY <2>1, <2>6, <4>1
    <3>2. PICK k \in Hits(m, u) : FirstOf(Hits(m, u)) = {k} /\ \A j \in Hits(m, u) : k <= j
      BY <1>1, <3>1, HitsFacts, FirstOfFacts
    <3> DEFINE i == imports[m][k]
    <3>3. /\ k \in DOMAIN imports[m] /\ prog[i].alias = Bare /\ Has(From(i), n)
          /\ k \in Searched(m)
      BY DEF Hits, Searched, Open
    <3>4. i \in Imports(prog, m) /\ Passed(i)  BY <1>1, <3>3, HitsFacts
    <3>5. InModule(prog, prog[i].from, n)  BY <1>8, <1>9, <3>3, <3>4 DEF From
    <3>6. i \in A  BY <2>4, <3>3, <3>4, <3>5
    <3>7. FindIn(s, u) = {Module(prog[i].from)}  BY <2>1, <3>2 DEF From
    <3>8. PICK a \in A : FirstOf(A) = {a} /\ \A j \in A : a <= j  BY <2>3, <3>6, FirstOfFacts
    <3>9. ModuleMeaning(prog, m, u) = {Module(prog[a].from)}  BY <2>2, <3>8
    <3> HIDE DEF i
    <3>10. ASSUME a # i  PROVE FALSE
      <4>1. a \in Imports(prog, m) /\ a \in DOMAIN prog /\ a \in Nat /\ prog[a].alias = Bare
            /\ InModule(prog, prog[a].from, n) /\ a <= i
            /\ i \in DOMAIN prog /\ i \in Nat
        BY <2>3, <3>6, <3>8
      <4>2. Passed(a)  BY <1>1, <3>4, <4>1, PassedFacts
      <4>3. PICK l \in DOMAIN imports[m] : imports[m][l] = a  BY <1>1, <4>1, <4>2, HitsFacts
      <4>4. l < k
        <5>1. imports[m] \in Seq(Nat)
              /\ \A x, y \in DOMAIN imports[m] : x < y => imports[m][x] < imports[m][y]
          BY <1>1 DEF ImportsInv
        <5>2. l \in Nat /\ k \in Nat  BY <3>3, <4>3, <5>1
        <5>3. k < l => i < a  BY <3>3, <4>3, <5>1 DEF i
        <5>4. k = l => i = a  BY <4>3 DEF i
        <5> QED  BY <3>10, <4>1, <5>2, <5>3, <5>4
      <4>5. l \in Nat /\ k \in Nat /\ l <= k
        <5>1. imports[m] \in Seq(Nat)  BY <1>1 DEF ImportsInv
        <5> QED  BY <3>3, <4>3, <4>4, <5>1
      <4>6. l \in Searched(m)
        <5>1. l \in Open(m)  BY <4>1, <4>3 DEF Open
        <5>2. Open(m) \in SUBSET Nat
          <6>1. imports[m] \in Seq(Nat)  BY <1>1 DEF ImportsInv
          <6> QED  BY <6>1 DEF Open
        <5>3. \A j \in Open(m) : j <= k => There(m, j)  BY <3>3 DEF Searched
        <5>4. \A j \in Open(m) : j <= l => j <= k  BY <4>5, <5>2
        <5> QED  BY <5>1, <5>3, <5>4 DEF Searched
      <4>7. ~ Has(Module(prog[a].from), n)
        <5>1. l \notin Hits(m, u)  BY <3>2, <4>4, <4>5
        <5> QED  BY <4>3, <4>6, <5>1 DEF Hits, From
      <4>8. Exists(prog[a].from)
        <5>1. There(m, l)
          <6>1. l \in Open(m) /\ l <= l  BY <4>5, <4>6 DEF Searched
          <6> QED  BY <4>6, <6>1 DEF Searched
        <5> QED  BY <4>3, <5>1 DEF There
      <4>9. prog[a].from # m  BY <1>13, <4>1
      <4>10. PICK j \in DOMAIN prog : Declares(prog, j, Module(prog[a].from), n)
        BY <4>1 DEF InModule
      <4>11. prog[j].module = prog[a].from
        <5>1. prog[a].from \in Nat /\ DeclaresIn(prog, j) = Module(prog[a].from)
          BY <1>9, <4>1, <4>10 DEF Declares
        <5> QED  BY <1>1, <5>1, ScopeFacts
      <4>12. Passed(j)  BY <1>1, <4>8, <4>9, <4>11, ThereFacts
      <4>13. \A r : ~ Has(r, n)  BY <4>7, <4>10, <4>12, NotHad
      <4> QED  BY <3>3, <4>13 DEF i
    <3> QED  BY <3>7, <3>9, <3>10
  <2> QED  BY <1>2, <1>3, <2>5, <2>6 DEF Answers
<1> QED  BY <1>10, <1>11, <1>12, <1>13

(* A use of the item being visited is found where the text says, or not.   *)
LEMMA FindMeans ==
  ASSUME AllPlain, TextInv, NEW u \in Members(prog[at].uses)
  PROVE  /\ FindAt(at, u) = Find(u)
         /\ Find(u) \in {{}, Meaning(prog, at, u)}
<1> DEFINE path == Path(prog, at)
           f == [k \in DOMAIN path |-> FindIn(path[k], u)]
           g == [k \in DOMAIN path |-> MeaningIn(prog, path[k], at, u)]
<1>1. FindAt(at, u) = Find(u)  BY DEF FindAt, Find
<1>2. prog \in Programs /\ at \in DOMAIN prog /\ PlaceInv /\ SymbolsInv
  BY PlaceFacts DEF TextInv
<1>3. /\ path \in Seq(Int)
      /\ \A k \in DOMAIN path :
           path[k] \in DOMAIN prog \/ path[k] = Module(prog[at].module) \/ path[k] = 0
      /\ \A j, k \in DOMAIN path : j < k /\ path[j] <= 0 => path[k] = 0
      /\ \A k \in DOMAIN path : path[k] \in Members(path)
  BY <1>2, PathFacts DEF PathOK, Members
<1>4. \A k \in DOMAIN path : path[k] \in DOMAIN prog => Answers(path[k], u)
  BY <1>3, LocalAnswers
<1>5. \A k \in DOMAIN path : path[k] \notin DOMAIN prog => Answers(path[k], u)
  BY <1>2, <1>3, ModuleAnswers, BuiltinAnswers
<1>6. Find(u) = Hit(f)
  <2>1. DOMAIN f = DOMAIN path /\ \A k \in DOMAIN path : f[k] = FindIn(path[k], u)  OBVIOUS
  <2> HIDE DEF f
  <2> QED  BY <2>1 DEF Find, Hit, FirstOf
<1>7. Meaning(prog, at, u) = Hit(g)
  <2>1. DOMAIN g = DOMAIN path /\ \A k \in DOMAIN path : g[k] = MeaningIn(prog, path[k], at, u)
    OBVIOUS
  <2> HIDE DEF g
  <2> QED  BY <2>1 DEF Meaning, Hit, FirstOf
<1>8. /\ Len(path) \in Nat /\ DOMAIN path = 1 .. Len(path) /\ DOMAIN f = 1 .. Len(path)
      /\ DOMAIN g = 1 .. Len(path)
  BY <1>3
<1>9. \A k \in 1 .. Len(path) : f[k] = FindIn(path[k], u) /\ g[k] = MeaningIn(prog, path[k], at, u)
  BY <1>8
<1> HIDE DEF f, g, path
<1>10. \A k \in 1 .. Len(path) : f[k] # {} => f[k] = g[k]
  BY <1>4, <1>5, <1>8, <1>9 DEF Answers
<1>11. ASSUME NEW j \in 1 .. Len(path), NEW k \in 1 .. Len(path), j < k, g[j] # {}, f[j] = {}
       PROVE  f[k] = {}
  <2>1. Answers(path[j], u) /\ path[j] \in Int /\ path[k] \in Int
    BY <1>3, <1>4, <1>5, <1>8
  <2>2. IF path[j] > 0 THEN \A r \in Int : FindIn(r, u) = {} ELSE FindIn(0, u) = {}
    BY <1>9, <1>11, <2>1 DEF Answers
  <2>3. CASE path[j] > 0  BY <1>9, <2>1, <2>2, <2>3
  <2>4. CASE ~ (path[j] > 0)
    <3>1. path[j] <= 0  BY <2>1, <2>4
    <3>2. path[k] = 0  BY <1>3, <1>8, <1>11, <3>1
    <3> QED  BY <1>9, <2>2, <2>4, <3>2
  <2> QED  BY <2>3, <2>4
<1>12. Hit(f) \in {{}, Hit(g)}
  <2> DEFINE n == Len(path)
  <2>1. n \in Nat /\ DOMAIN f = 1 .. n /\ DOMAIN g = 1 .. n  BY <1>8
  <2>2. \A k \in 1 .. n : f[k] # {} => f[k] = g[k]  BY <1>10
  <2>3. \A j, k \in 1 .. n : j < k /\ g[j] # {} /\ f[j] = {} => f[k] = {}  BY <1>11
  <2> HIDE DEF n
  <2> QED  BY <2>1, <2>2, <2>3, SameHit
<1> QED  BY <1>1, <1>6, <1>7, <1>12

LEMMA FindAtFacts ==
  ASSUME NEW p \in Programs, p = prog, NEW i \in DOMAIN prog, NEW u
  PROVE  FindAt(i, u) # {} <=> \E k \in DOMAIN Path(prog, i) : FindIn(Path(prog, i)[k], u) # {}
<1> DEFINE path == Path(prog, i)
           f == [k \in DOMAIN path |-> FindIn(path[k], u)]
<1>1. path \in Seq(Int)  BY PathFacts DEF PathOK
<1>2. FindAt(i, u) = Hit(f)
  <2>1. DOMAIN f = DOMAIN path /\ \A k \in DOMAIN path : f[k] = FindIn(path[k], u)  OBVIOUS
  <2> HIDE DEF f
  <2> QED  BY <2>1 DEF FindAt, Hit, FirstOf
<1>3. Len(path) \in Nat /\ DOMAIN path = 1 .. Len(path) /\ DOMAIN f = 1 .. Len(path)  BY <1>1
<1>4. \A k \in 1 .. Len(path) : f[k] = FindIn(path[k], u)  BY <1>3
<1> HIDE DEF f, path
<1>5. Hit(f) # {} <=> \E k \in 1 .. Len(path) : f[k] # {}  BY <1>3, HitFacts
<1> QED  BY <1>2, <1>3, <1>4, <1>5 DEF path

(* What makes a search in a scope succeed.                                 *)
FoundIn(s, u) ==
  \/ u.of = Bare /\ Has(s, u.name)
  \/ s < 0 /\ u.of = Bare /\ Hits(-s, u) # {}
  \/ s < 0 /\ u.of # Bare /\ Quals(-s, u) # {}

LEMMA FoundInFacts ==
  ASSUME AllPlain, PlaceInv, ImportsInv, NEW s \in Int, NEW u,
         s < 0 => -s \in DOMAIN imports
  PROVE  FindIn(s, u) # {} <=> FoundIn(s, u)
<1>1. CASE s >= 0
  <2>1. ~ (s < 0)  BY <1>1
  <2> QED  BY <1>1, <2>1, FindInCases DEF FoundIn
<1>2. CASE ~ (s >= 0)
  <2>1. s < 0  BY <1>2
  <2>2. -s \in DOMAIN imports  BY <2>1
  <2>3. FirstOf({}) = {}  BY DEF FirstOf
  <2>4. CASE u.of = Bare /\ Has(s, u.name)  BY <2>4, FindInCases DEF FoundIn
  <2>5. CASE u.of = Bare /\ ~ Has(s, u.name)
    <3>1. FindIn(s, u) = {From(imports[-s][k]) : k \in FirstOf(Hits(-s, u))}
      BY <2>1, <2>5, FindInCases
    <3>2. Hits(-s, u) # {} => FirstOf(Hits(-s, u)) # {}
      <4>1. Hits(-s, u) \in SUBSET Nat  BY <2>2, HitsFacts
      <4> QED  BY <4>1, FirstOfFacts
    <3> QED  BY <2>1, <2>3, <2>5, <3>1, <3>2 DEF FoundIn
  <2>6. CASE u.of # Bare
    <3>1. FindIn(s, u) = {From(imports[-s][k]) : k \in FirstOf(Quals(-s, u))}
      BY <2>1, <2>6, FindInCases
    <3>2. Quals(-s, u) # {} => FirstOf(Quals(-s, u)) # {}  BY <2>2, QualsFacts
    <3> QED  BY <2>1, <2>3, <2>6, <3>1, <3>2 DEF FoundIn
  <2> QED  BY <2>4, <2>5, <2>6
<1> QED  BY <1>1, <1>2

(* What a step may do to the state that is searched.                       *)
Onwards ==
  /\ prog' = prog
  /\ DOMAIN symbols \subseteq DOMAIN symbols'
  /\ \A m : Exists(m) => Exists(m)'
  /\ DOMAIN imports' = DOMAIN imports
  /\ \A m \in DOMAIN imports : \A k \in DOMAIN imports[m] :
       k \in DOMAIN imports'[m] /\ imports'[m][k] = imports[m][k]

HasThen(s, n) == <<s, n>> \in DOMAIN symbols'

LEMMA FoundInStays ==
  ASSUME AllPlain, PlaceInv, ImportsInv, ImportsInv', Onwards, NEW s \in Int, NEW u,
         s < 0 => -s \in DOMAIN imports, FoundIn(s, u)
  PROVE  FindIn(s, u)' # {}
<1> DEFINE m == -s
           To(k) == prog[imports'[m][k]].from
<1>1. \A r, n : Has(r, n) => HasThen(r, n)  BY DEF Has, HasThen, Onwards
<1>2. \A k : k \in DOMAIN imports[m] /\ m \in DOMAIN imports =>
        k \in DOMAIN imports'[m] /\ imports'[m][k] = imports[m][k]
  BY DEF Onwards
<1>3. prog' = prog  BY DEF Onwards
<1>4. m \in DOMAIN imports =>
        /\ imports[m] \in Seq(Nat) /\ imports'[m] \in Seq(Nat)
        /\ Members(imports'[m]) \subseteq Imports(prog, m)
  BY <1>3 DEF ImportsInv, Onwards
<1>5. CASE u.of = Bare /\ Has(s, u.name)
  <2>1. HasThen(s, u.name)  BY <1>1, <1>5
  <2> QED  BY <1>5, <2>1 DEF FindIn, Has, HasThen
<1>6. CASE s < 0 /\ u.of = Bare /\ ~ HasThen(s, u.name) /\ Hits(m, u) # {}
  <2>1. PICK k \in Hits(m, u) : TRUE  BY <1>6
  <2>2. k \in Searched(m) /\ k \in DOMAIN imports[m] /\ Has(From(imports[m][k]), u.name)
        /\ prog[imports[m][k]].alias = Bare
    BY DEF Hits, Searched, Open
  <2> DEFINE dom == DOMAIN imports[m]
             dom1 == DOMAIN imports'[m]
  <2>3. PICK a \in Nat : dom = 1 .. a  BY <1>4, <1>6
  <2>4. PICK b \in Nat : dom1 = 1 .. b  BY <1>4, <1>6
  <2>5. k \in dom /\ k \in dom1 /\ k \in Nat  BY <1>2, <1>6, <2>2, <2>3
  <2> DEFINE H == {l \in (Searched(m))' : HasThen(Module(To(l)), u.name)}
  <2>6. H \in SUBSET Nat
    <3>1. (Searched(m))' \subseteq dom1  BY DEF Searched, Open
    <3> QED  BY <2>4, <3>1
  <2>7. k \in (Searched(m))'
    <3>1. k \in (Open(m))'  BY <1>2, <1>3, <1>6, <2>2 DEF Open
    <3>2. ASSUME NEW j \in (Open(m))', j <= k  PROVE There(m, j)'
      <4>1. j \in dom1 /\ prog'[imports'[m][j]].alias = Bare  BY DEF Open
      <4>2. j \in dom  BY <2>3, <2>4, <2>5, <3>2, <4>1
      <4>3. imports'[m][j] = imports[m][j]  BY <1>2, <1>6, <4>2
      <4>4. j \in Open(m)  BY <1>3, <4>1, <4>2, <4>3 DEF Open
      <4>5. There(m, j)  BY <2>2, <3>2, <4>4 DEF Searched
      <4> QED  BY <1>3, <4>3, <4>5 DEF There, Onwards
    <3> QED  BY <3>1, <3>2 DEF Searched
  <2>8. k \in H
    <3>1. HasThen(Module(prog[imports[m][k]].from), u.name)  BY <1>1, <2>2 DEF From
    <3> QED  BY <1>2, <1>6, <2>2, <2>7, <3>1
  <2>9. FindIn(s, u)' = {Module(To(l)) : l \in FirstOf(H)}
    <3>1. IsModule(s)  BY <1>6 DEF IsModule
    <3> QED  BY <1>3, <1>6, <3>1 DEF FindIn, From, Has, HasThen
  <2> HIDE DEF H
  <2>10. FirstOf(H) # {}  BY <2>6, <2>8, FirstOfFacts
  <2> QED  BY <2>9, <2>10
<1>7. CASE s < 0 /\ u.of # Bare /\ Quals(m, u) # {}
  <2>1. m \in DOMAIN imports  BY <1>7
  <2>2. PICK k \in Quals(m, u) : TRUE  BY <1>7
  <2>3. /\ k \in DOMAIN imports[m] /\ Key(prog[imports[m][k]]) = u.of
        /\ Has(From(imports[m][k]), u.name)
    BY <2>1, QualsFacts
  <2> DEFINE C == {l \in DOMAIN imports'[m] : Key(prog[imports'[m][l]]) = u.of}
             H == {l \in LastOf(C) : HasThen(Module(To(l)), u.name)}
  <2>4. k \in C  BY <1>2, <2>1, <2>3
  <2>5. PICK b \in Nat : DOMAIN imports'[m] = 1 .. b  BY <1>4, <2>1
  <2>6. C \in SUBSET (1 .. b)  BY <2>5
  <2>7. \A l \in C : l \in DOMAIN imports'[m] /\ Key(prog[imports'[m][l]]) = u.of  OBVIOUS
  <2>8. FindIn(s, u)' = {Module(To(l)) : l \in FirstOf(H)}
    <3>1. IsModule(s)  BY <1>7 DEF IsModule
    <3>2. Called(m, u.of)' = LastOf(C)  BY <1>3 DEF Called
    <3> QED  BY <1>3, <1>7, <3>1, <3>2 DEF FindIn, From, Has, HasThen
  <2> HIDE DEF C
  <2>9. PICK l \in C : LastOf(C) = {l}  BY <2>4, <2>6, LastOfFacts
  <2>10. prog[imports'[m][l]].from = prog[imports[m][k]].from
    <3>1. imports'[m][l] \in Imports(prog, m)  BY <1>4, <2>1, <2>7 DEF Members
    <3>2. imports[m][k] \in Imports(prog, m)  BY <2>1, <2>3, HitsFacts
    <3> QED  BY <2>1, <2>3, <2>7, <3>1, <3>2, QualsFacts
  <2>11. HasThen(Module(To(l)), u.name)
    <3>1. HasThen(Module(prog[imports[m][k]].from), u.name)  BY <1>1, <2>3 DEF From
    <3> QED  BY <2>10, <3>1
  <2>12. H = {l}  BY <2>9, <2>11
  <2>13. l \in Nat  BY <2>6
  <2> HIDE DEF H
  <2>14. l \in FirstOf(H)
    <3>1. {l} \in SUBSET Nat /\ l <= l  BY <2>13
    <3> QED  BY <2>12, <3>1 DEF FirstOf
  <2> QED  BY <2>8, <2>14
<1>8. CASE s < 0 /\ u.of = Bare /\ HasThen(s, u.name)  BY <1>8 DEF FindIn, Has, HasThen
<1> QED  BY <1>5, <1>6, <1>7, <1>8 DEF FoundIn

(* A use that is found is found again.                                     *)
LEMMA FoundStays ==
  ASSUME AllPlain, PlaceInv, ImportsInv, ImportsInv', Onwards, NEW i \in DOMAIN prog, NEW u,
         FindAt(i, u) # {}
  PROVE  FindAt(i, u)' # {}
<1>1. prog \in Programs  BY DEF PlaceInv
<1>2. PICK k \in DOMAIN Path(prog, i) : FindIn(Path(prog, i)[k], u) # {}  BY <1>1, FindAtFacts
<1>3. PICK path : path = Path(prog, i)  OBVIOUS
<1>4. PICK s : s = path[k]  OBVIOUS
<1>5. /\ path \in Seq(Int) /\ k \in DOMAIN path /\ s \in Int
      /\ s \in DOMAIN prog \/ s = Module(prog[i].module) \/ s = 0
  BY <1>1, <1>2, <1>3, <1>4, PathFacts DEF PathOK
<1>6. s < 0 => -s \in DOMAIN imports
  <2> SUFFICES ASSUME s < 0  PROVE -s \in DOMAIN imports  OBVIOUS
  <2>1. DOMAIN prog = 1 .. Last  BY PlaceFacts
  <2>2. s = Module(prog[i].module) /\ prog[i].module \in Nat  BY <1>5, <2>1, PlaceFacts
  <2>3. -s = prog[i].module  BY <2>2 DEF Module
  <2> QED  BY <2>3 DEF ImportsInv
<1>7. FindIn(s, u) # {}  BY <1>2, <1>3, <1>4
<1>8. FoundIn(s, u)  BY <1>5, <1>6, <1>7, FoundInFacts
<1>9. FindIn(s, u)' # {}  BY <1>5, <1>6, <1>8, FoundInStays
<1> DEFINE g == [l \in DOMAIN path |-> FindIn(path[l], u)']
<1>10. DOMAIN g = DOMAIN path /\ \A l \in DOMAIN path : g[l] = FindIn(path[l], u)'  OBVIOUS
<1> HIDE DEF g
<1>11. FindAt(i, u)' = Hit(g)
  <2>1. Path(prog', i) = path  BY <1>3 DEF Onwards
  <2>2. FindAt(i, u)' = UNION {FindIn(path[l], u)' :
                                 l \in FirstOf({l \in DOMAIN path : FindIn(path[l], u)' # {}})}
    BY <2>1 DEF FindAt
  <2> QED  BY <1>10, <2>2 DEF Hit, FirstOf
<1>12. Len(path) \in Nat /\ DOMAIN path = 1 .. Len(path) /\ DOMAIN g = 1 .. Len(path)
  BY <1>5, <1>10
<1>13. k \in 1 .. Len(path) /\ g[k] # {}  BY <1>4, <1>5, <1>9, <1>10, <1>12
<1>14. Hit(g) # {}  BY <1>12, <1>13, HitFacts
<1> QED  BY <1>11, <1>14

(* What is mentioned by an item that is ready is found, and has a type.    *)
LEMMA ReadyHasTypes ==
  ASSUME AllPlain, TextInv, at \in Ready(prog)  PROVE HaveTypes
<1>1. /\ prog \in Programs /\ DOMAIN prog = 1 .. Last /\ Last \in Nat /\ at \in 1 .. Last
      /\ at \in DOMAIN prog
      /\ PlaceInv /\ SymbolsInv /\ ImportsInv /\ DeclaredInv /\ TypedInv /\ FirstDeclares
  BY PlaceFacts DEF TextInv
<1> SUFFICES ASSUME NEW l \in DOMAIN d.uses
             PROVE  \E s \in Find(d.uses[l]) : symbols[s, d.uses[l].name].item \in typed
  BY DEF HaveTypes
<1> DEFINE u == d.uses[l]
           n == u.name
           m == prog[at].module
<1>2. u \in Members(prog[at].uses)  BY DEF Members, d
<1>3. PICK s \in Meaning(prog, at, u) :
        /\ s # 0
        /\ Owner(prog, s, n) \in 1 .. at - 1
        /\ prog[Owner(prog, s, n)].kind \in {"func", "for", "let"}
        /\ Owner(prog, s, n) \in Ready(prog)
  BY <1>1, <1>2, ReadyFacts
<1> DEFINE o == Owner(prog, s, n)
<1>4. /\ o \in DOMAIN prog /\ Declares(prog, o, s, n)
      /\ \A k \in 1 .. o - 1 : ~ Declares(prog, k, s, n)
  <2>1. PICK j \in DOMAIN prog : Declares(prog, j, s, n)  BY <1>1, <1>3, MeaningDeclared
  <2> QED  BY <1>1, <2>1, OwnerFacts
<1>5. o \in DOMAIN prog /\ o < at  BY <1>1, <1>3
<1>6. Passed(o)  BY <1>1, <1>5, PassedFacts
<1>7. Has(s, n)
  <2>1. ~ Waits(o)  BY <1>3 DEF Waits
  <2>2. s = DeclaresIn(prog, o) /\ n \in Members(prog[o].names)  BY <1>4 DEF Declares
  <2> QED  BY <1>1, <1>5, <1>6, <2>1, <2>2 DEF DeclaredInv
<1>8. symbols[s, n].item = o
  <2> DEFINE k == <<s, n>>
  <2>1. k \in DOMAIN symbols /\ k[1] = s /\ k[2] = n /\ symbols[s, n] = symbols[k]
    BY <1>7 DEF Has
  <2> HIDE DEF k
  <2> QED  BY <1>1, <1>3, <2>1 DEF FirstDeclares
<1>9. o \in typed
  <2>1. ~ Redeclares(prog, o)
    <3> SUFFICES ASSUME Redeclares(prog, o)  PROVE FALSE  OBVIOUS
    <3>1. prog[o].kind \in {"let", "type"}  BY DEF Redeclares
    <3>2. DeclaresIn(prog, o) = prog[o].scope  BY <3>1 DEF DeclaresIn
    <3>3. s = prog[o].scope /\ n \in Members(prog[o].names)  BY <1>4, <3>2 DEF Declares
    <3>4. \E j \in 1 .. o - 1 : Declares(prog, j, s, n)  BY <3>3 DEF Redeclares
    <3> QED  BY <1>4, <3>4
  <2> QED  BY <1>1, <1>3, <1>6, <2>1 DEF TypedInv
<1> HIDE DEF o
<1>10. ASSUME Find(u) # {}
       PROVE  \E r \in Find(u) : symbols[r, n].item \in typed
  <2>1. Find(u) = Meaning(prog, at, u)  BY <1>2, <1>10, FindMeans
  <2>2. s \in Find(u)  BY <2>1
  <2> QED  BY <1>8, <1>9, <2>2
<1>11. Find(u) # {}
  <2>1. FindAt(at, u) = Find(u)  BY <1>2, FindMeans
  <2>2. PICK k \in DOMAIN Path(prog, at) : s \in MeaningIn(prog, Path(prog, at)[k], at, u)
    BY <1>3 DEF Meaning, FirstOf
  <2>3. PICK r : r = Path(prog, at)[k]  OBVIOUS
  <2>4. /\ r \in Int /\ s \in MeaningIn(prog, r, at, u)
        /\ r \in DOMAIN prog \/ r = Module(m) \/ r = 0
    BY <1>1, <2>2, <2>3, PathFacts DEF PathOK
  <2>5. m \in Nat \ {0} /\ m \in DOMAIN imports  BY <1>1, PlaceFacts DEF ImportsInv
  <2>6. r < 0 => r = Module(m) /\ -r = m
    <3>1. r < 0 => r \notin DOMAIN prog  BY <1>1
    <3> QED  BY <2>4, <2>5, <3>1 DEF Module
  <2>7. SUFFICES FindIn(r, u) # {}  BY <1>1, <2>1, <2>3, FindAtFacts
  <2>8. SUFFICES FoundIn(r, u)  BY <1>1, <2>4, <2>5, <2>6, FoundInFacts
  <2>9. CASE r > 0
    <3>1. u.of = Bare /\ s = r  BY <2>4, <2>9, MeaningInCases
    <3> QED  BY <1>7, <3>1 DEF FoundIn
  <2>10. CASE r = 0
    <3>1. s = r  BY <2>4, <2>10, MeaningInCases
    <3> QED  BY <1>3, <2>10, <3>1
  <2>11. CASE r < 0
    <3>1. s \in ModuleMeaning(prog, m, u)  BY <2>4, <2>6, <2>11, MeaningInCases
    <3>2. /\ \A i \in Imports(prog, m) : Passed(i) /\ Exists(prog[i].from)
          /\ \A i \in Imports(prog, m) : \E j \in DOMAIN imports[m] : imports[m][j] = i
      <4> SUFFICES ASSUME NEW i \in Imports(prog, m)
                   PROVE  /\ Passed(i) /\ Exists(prog[i].from)
                          /\ \E j \in DOMAIN imports[m] : imports[m][j] = i
        OBVIOUS
      <4>1. i < at /\ \E j \in 1 .. at - 1 : prog[j].module = prog[i].from
        BY <1>1, ReadyFacts DEF ReadyImports
      <4>2. i \in DOMAIN prog  BY DEF Imports
      <4>3. Passed(i)  BY <1>1, <4>1, <4>2, PassedFacts
      <4>4. Exists(prog[i].from)
        <5>1. PICK j \in 1 .. at - 1 : prog[j].module = prog[i].from  BY <4>1
        <5>2. j \in DOMAIN prog /\ j <= at  BY <1>1
        <5> QED  BY <5>1, <5>2 DEF Exists
      <4> QED  BY <1>1, <2>5, <4>3, <4>4, HitsFacts
    <3>3. CASE u.of = Bare /\ s = Module(m)  BY <1>7, <2>6, <2>11, <3>3 DEF FoundIn
    <3>4. CASE u.of = Bare /\ s # Module(m)
      <4>1. PICK a \in Having(prog, m, u) : prog[a].alias = Bare /\ s = Module(prog[a].from)
        BY <3>1, <3>4 DEF ModuleMeaning, FirstOf
      <4>2. a \in Imports(prog, m)  BY <4>1 DEF Having
      <4>3. PICK j \in DOMAIN imports[m] : imports[m][j] = a  BY <3>2, <4>2
      <4>4. \A k1 \in DOMAIN imports[m] : There(m, k1)
        BY <1>1, <2>5, <3>2, HitsFacts DEF There
      <4>5. j \in Searched(m)  BY <4>1, <4>3, <4>4 DEF Searched, Open
      <4>6. j \in Hits(m, u)  BY <1>7, <4>1, <4>3, <4>5 DEF Hits, From
      <4> QED  BY <2>6, <2>11, <3>4, <4>6 DEF FoundIn
    <3>5. CASE u.of # Bare
      <4>1. PICK a \in Imports(prog, m) : Key(prog[a]) = u.of /\ s = Module(prog[a].from)
        BY <3>1, <3>5 DEF ModuleMeaning, LastOf
      <4>2. PICK j \in DOMAIN imports[m] : imports[m][j] = a  BY <3>2
      <4>3. Quals(m, u) # {}  BY <1>1, <1>7, <2>5, <4>1, <4>2, QualsFacts DEF From
      <4> QED  BY <2>6, <2>11, <3>5, <4>3 DEF FoundIn
    <3> QED  BY <3>3, <3>4, <3>5
  <2> QED  BY <2>4, <2>9, <2>10, <2>11
<1> QED  BY <1>10, <1>11

-----------------------------------------------------------------------------
(* A visit.  The scope the item declares its names in may get them.        *)
Grows ==
  /\ prog' = prog
  /\ DOMAIN symbols \subseteq DOMAIN symbols'
  /\ \A k \in DOMAIN symbols : symbols'[k].item = symbols[k].item
  /\ \A k \in DOMAIN symbols' : DOMAIN symbols'[k] = {"item", "token"}
  /\ \A k \in DOMAIN symbols' \ DOMAIN symbols :
       /\ symbols'[k].item = at
       /\ \E n \in Members(d.names) : k = <<DeclaresIn(prog, at), n>>

(* What is there when it ends.                                             *)
Visited ==
  /\ typed \subseteq typed' \cup {at} /\ typed' \subseteq typed \cup {at}
  /\ DOMAIN unpacked' \subseteq DOMAIN unpacked \cup {at}
  /\ ~ Waits(at) => \A n \in Members(d.names) : HasThen(DeclaresIn(prog, at), n)
  /\ at \in Ready(prog) /\ d.kind \in {"func", "for", "let"} /\ ~ Redeclares(prog, at) => at \in typed'

Imported ==
  \/ imports' = imports /\ (d.kind # "import" \/ Passed(at))
  \/ imports' = [imports EXCEPT ![d.module] = Append(@, at)] /\ d.kind = "import" /\ ~ Passed(at)

LEMMA ImportedFacts ==
  ASSUME PlaceInv, ImportsInv, prog' = prog, NEW un, Leave(un), Imported
  PROVE  /\ ImportsInv' /\ DOMAIN imports' = DOMAIN imports
         /\ \A m \in DOMAIN imports : \A k \in DOMAIN imports[m] :
              k \in DOMAIN imports'[m] /\ imports'[m][k] = imports[m][k]
<1>1. /\ DOMAIN prog = 1 .. Last /\ at \in DOMAIN prog /\ at \in Nat
      /\ \A i : Passed(i)' <=> Passed(i) \/ i = at
  BY PlaceFacts, LeaveFacts
<1>2. CASE imports' = imports /\ (d.kind # "import" \/ Passed(at))
  <2>1. \A m : \A i \in Imports(prog, m) : Passed(i)' <=> Passed(i)
    BY <1>1, <1>2 DEF Imports, d
  <2>2. ImportsInv'
    <3>1. \A m : {i \in Imports(prog, m) : Passed(i)'} = {i \in Imports(prog, m) : Passed(i)}
      BY <2>1
    <3> QED  BY <1>2, <3>1 DEF ImportsInv
  <2> QED  BY <1>2, <2>2
<1>3. CASE /\ imports' = [imports EXCEPT ![d.module] = Append(@, at)]
           /\ d.kind = "import" /\ ~ Passed(at)
  <2>1. /\ DOMAIN imports' = DOMAIN imports
        /\ DOMAIN imports = {prog[i].module : i \in DOMAIN prog}
        /\ d.module \in DOMAIN imports
    BY <1>1, <1>3 DEF ImportsInv, d
  <2>2. ASSUME NEW m \in DOMAIN imports
        PROVE  /\ imports'[m] \in Seq(Nat)
               /\ Members(imports'[m]) = {i \in Imports(prog, m) : Passed(i)'}
               /\ \A j, k \in DOMAIN imports'[m] : j < k => imports'[m][j] < imports'[m][k]
               /\ \A k \in DOMAIN imports[m] : k \in DOMAIN imports'[m] /\ imports'[m][k] = imports[m][k]
    <3>1. PICK q \in Seq(Nat) : q = imports[m]  BY DEF ImportsInv
    <3>2. /\ Members(q) = {i \in Imports(prog, m) : Passed(i)}
          /\ \A j, k \in DOMAIN q : j < k => q[j] < q[k]
      BY <3>1 DEF ImportsInv
    <3>3. CASE m # d.module
      <4>1. imports'[m] = q  BY <1>3, <2>1, <3>1, <3>3
      <4>2. at \notin Imports(prog, m)  BY <3>3 DEF Imports, d
      <4>3. {i \in Imports(prog, m) : Passed(i)'} = {i \in Imports(prog, m) : Passed(i)}
        BY <1>1, <4>2
      <4> QED  BY <3>1, <3>2, <4>1, <4>3
    <3>4. CASE m = d.module
      <4>1. imports'[m] = Append(q, at)  BY <1>3, <2>1, <3>1, <3>4
      <4>2. PICK t : t = Append(q, at)  OBVIOUS
      <4>3. /\ t \in Seq(Nat) /\ Len(q) \in Nat /\ DOMAIN q = 1 .. Len(q)
            /\ DOMAIN t = 1 .. Len(q) + 1
            /\ t[Len(q) + 1] = at /\ \A k \in 1 .. Len(q) : t[k] = q[k]
        BY <1>1, <4>2
      <4>4. \A k \in DOMAIN q : k \in DOMAIN t /\ t[k] = q[k]  BY <4>3
      <4>5. at \in Imports(prog, m)  BY <1>1, <1>3, <3>4 DEF Imports, d
      <4>6. Members(t) = Members(q) \cup {at}
        <5>1. ASSUME NEW k \in DOMAIN t  PROVE t[k] \in Members(q) \cup {at}
          <6>1. k \in DOMAIN q \/ k = Len(q) + 1  BY <4>3
          <6> QED  BY <4>3, <6>1 DEF Members
        <5>2. Len(q) + 1 \in DOMAIN t  BY <4>3
        <5> QED  BY <4>3, <4>4, <5>1, <5>2 DEF Members
      <4>7. Members(t) = {i \in Imports(prog, m) : Passed(i)'}  BY <1>1, <3>2, <4>5, <4>6
      <4>8. ASSUME NEW j \in DOMAIN t, NEW k \in DOMAIN t, j < k  PROVE t[j] < t[k]
        <5>1. CASE k \in DOMAIN q
          <6>1. j \in DOMAIN q  BY <4>3, <4>8, <5>1
          <6> QED  BY <3>2, <4>4, <4>8, <5>1, <6>1
        <5>2. CASE k \notin DOMAIN q
          <6>1. k = Len(q) + 1 /\ j \in DOMAIN q  BY <4>3, <4>8, <5>2
          <6>2. q[j] \in Members(q)  BY <6>1 DEF Members
          <6>3. q[j] \in DOMAIN prog /\ Passed(q[j])  BY <3>2, <6>2 DEF Imports
          <6>4. q[j] < at  BY <1>3, <6>3, PassedFacts
          <6> QED  BY <4>3, <4>4, <6>1, <6>4
        <5> QED  BY <5>1, <5>2
      <4> QED  BY <3>1, <4>1, <4>2, <4>3, <4>4, <4>7, <4>8
    <3> QED  BY <3>3, <3>4
  <2> QED  BY <2>1, <2>2 DEF ImportsInv
<1> QED  BY <1>2, <1>3 DEF Imported

LEMMA VisitKeeps ==
  ASSUME AllPlain, TextInv, NEW un, Leave(un), Grows, Visited, Imported
  PROVE  TextInv' /\ Onwards
<1>1. /\ PlaceInv /\ SymbolsInv /\ ImportsInv /\ OnceInv /\ DeclaredInv /\ TypedInv /\ FirstDeclares
      /\ prog \in Programs /\ DOMAIN prog = 1 .. Last /\ Last \in Nat /\ at \in 1 .. Last
      /\ at \in DOMAIN prog
  BY PlaceFacts DEF TextInv
<1>2. /\ prog' = prog /\ DOMAIN symbols \subseteq DOMAIN symbols'
      /\ \A k \in DOMAIN symbols : symbols'[k].item = symbols[k].item
      /\ \A k \in DOMAIN symbols' : DOMAIN symbols'[k] = {"item", "token"}
  BY DEF Grows
<1>3. /\ PlaceInv' /\ \A i : Passed(i)' <=> Passed(i) \/ i = at
      /\ \A m : Exists(m) => Exists(m)'
  BY <1>1, <1>2, LeaveFacts
<1>4. /\ ImportsInv' /\ DOMAIN imports' = DOMAIN imports
      /\ \A m \in DOMAIN imports : \A k \in DOMAIN imports[m] :
           k \in DOMAIN imports'[m] /\ imports'[m][k] = imports[m][k]
  BY <1>1, <1>2, ImportedFacts
<1>5. \A r, n : Has(r, n) => HasThen(r, n)  BY <1>2 DEF Has, HasThen
<1> DEFINE s == DeclaresIn(prog, at)
<1>6. ASSUME NEW k \in DOMAIN symbols', k \notin DOMAIN symbols
      PROVE  /\ symbols'[k].item = at /\ k = <<k[1], k[2]>> /\ k[1] = s /\ k[1] # 0
             /\ Declares(prog, at, k[1], k[2]) /\ ~ Has(k[1], k[2])
  <2>1. PICK n \in Members(d.names) : k = <<s, n>>  BY <1>6 DEF Grows
  <2>2. symbols'[k].item = at  BY <1>6 DEF Grows
  <2>3. k[1] = s /\ k[2] = n /\ k = <<k[1], k[2]>>  BY <2>1
  <2>4. s # 0  BY <1>1, ScopeFacts
  <2>5. Declares(prog, at, k[1], k[2])  BY <2>3 DEF Declares, d
  <2>6. ~ Has(k[1], k[2])  BY <1>6, <2>3 DEF Has
  <2> QED  BY <2>2, <2>3, <2>4, <2>5, <2>6
<1> HIDE DEF s
<1>7. SymbolsInv'
  <2> SUFFICES ASSUME NEW k \in DOMAIN symbols'
               PROVE  /\ k = <<k[1], k[2]>> /\ DOMAIN symbols'[k] = {"item", "token"}
                      /\ k[1] = 0 => k[2] \in Builtins
                      /\ k[1] # 0 => /\ Passed(symbols'[k].item) \/ symbols'[k].item = at
                                     /\ Declares(prog, symbols'[k].item, k[1], k[2])
    <3>1. \A i : Passed(i) \/ i = at => Passed(i)'  BY <1>3
    <3> QED  BY <1>2, <3>1 DEF SymbolsInv, Passed
  <2>1. CASE k \in DOMAIN symbols  BY <1>1, <1>2, <2>1 DEF SymbolsInv
  <2>2. CASE k \notin DOMAIN symbols  BY <1>2, <1>6, <2>2
  <2> QED  BY <2>1, <2>2
<1>8. OnceInv'
  <2>1. \A i \in typed' : Passed(i) \/ i = at  BY <1>1 DEF OnceInv, Visited
  <2>2. \A i \in DOMAIN unpacked' : Passed(i) \/ i = at  BY <1>1 DEF OnceInv, Visited
  <2>3. /\ \A i \in typed' : Passed(i)'
        /\ \A i \in DOMAIN unpacked' : Passed(i)'
    BY <1>3, <2>1, <2>2
  <2> QED  BY <2>3 DEF OnceInv
<1>9. DeclaredInv'
  <2>1. ASSUME NEW i \in DOMAIN prog, Passed(i)', ~ Waits(i), NEW n \in Members(prog[i].names)
        PROVE  HasThen(DeclaresIn(prog, i), n)
    <3>1. CASE i = at  BY <2>1, <3>1 DEF Visited, d
    <3>2. CASE i # at
      <4>1. Passed(i)  BY <1>3, <2>1, <3>2
      <4> QED  BY <1>1, <1>5, <2>1, <4>1 DEF DeclaredInv
    <3> QED  BY <3>1, <3>2
  <2>2. \A i : Waits(i)' <=> Waits(i)  BY <1>2 DEF Waits
  <2>3. \A r, n : HasThen(r, n) => Has(r, n)'  BY DEF Has, HasThen
  <2> QED  BY <1>2, <2>1, <2>2, <2>3 DEF DeclaredInv
<1>10. TypedInv'
  <2>1. ASSUME NEW i \in Ready(prog), Passed(i)', prog[i].kind \in {"func", "for", "let"},
               ~ Redeclares(prog, i)
        PROVE  i \in typed'
    <3>1. CASE i = at  BY <2>1, <3>1 DEF Visited, d
    <3>2. CASE i # at
      <4>1. i \in typed  BY <1>1, <1>3, <2>1, <3>2 DEF TypedInv
      <4> QED  BY <3>2, <4>1 DEF Visited
    <3> QED  BY <3>1, <3>2
  <2> QED  BY <1>2, <2>1 DEF TypedInv
<1>11. FirstDeclares'
  <2> SUFFICES ASSUME NEW k \in DOMAIN symbols', k[1] # 0
               PROVE  symbols'[k].item = Owner(prog, k[1], k[2])
    BY <1>2 DEF FirstDeclares
  <2>1. CASE k \in DOMAIN symbols  BY <1>1, <1>2, <2>1 DEF FirstDeclares
  <2>2. CASE k \notin DOMAIN symbols
    <3>1. /\ symbols'[k].item = at /\ Declares(prog, at, k[1], k[2]) /\ ~ Has(k[1], k[2])
      BY <1>6, <2>2
    <3>2. ASSUME NEW j \in 1 .. at - 1, Declares(prog, j, k[1], k[2])  PROVE FALSE
      <4>1. j \in DOMAIN prog /\ j < at /\ at \in DOMAIN prog \ {j}  BY <1>1
      <4>2. Passed(j)  BY <1>1, <4>1, PassedFacts
      <4>3. k[2] \notin Members(prog[at].names)  BY <3>1, <3>2, <4>1, <4>2, NotHad
      <4> QED  BY <3>1, <4>3 DEF Declares
    <3>3. Owner(prog, k[1], k[2]) = at  BY <1>1, <3>1, <3>2, OwnerUnique
    <3> QED  BY <3>1, <3>3
  <2> QED  BY <2>1, <2>2
<1>12. Onwards  BY <1>2, <1>3, <1>4 DEF Onwards
<1> QED  BY <1>3, <1>4, <1>7, <1>8, <1>9, <1>10, <1>11, <1>12 DEF TextInv

-----------------------------------------------------------------------------
(* The text means the same to both specifications.                         *)
LEMMA SameMeaning ==
  ASSUME NEW p, NEW i, NEW u
  PROVE  Lexical!Meaning(p, i, u) = Meaning(p, i, u)
<1>1. Lexical!Bare = Bare  BY Zenon DEF Lexical!Bare, Bare
<1>2. \A imp : Lexical!Key(imp) = Key(imp)
  BY <1>1 DEF Lexical!Key, Key, Lexical!ModuleName, ModuleName
<1>3. \A S : Lexical!FirstOf(S) = FirstOf(S)  BY DEF Lexical!FirstOf, FirstOf
<1>4. \A S : Lexical!LastOf(S) = LastOf(S)  BY DEF Lexical!LastOf, LastOf
<1>5. \A j, s, n : Lexical!Declares(p, j, s, n) <=> Declares(p, j, s, n)
  <2>1. \A j : Lexical!DeclaresIn(p, j) = DeclaresIn(p, j)
    BY DEF Lexical!DeclaresIn, DeclaresIn
  <2>2. \A q : Lexical!Members(q) = Members(q)  BY DEF Lexical!Members, Members
  <2> QED  BY <2>1, <2>2 DEF Lexical!Declares, Declares
<1>6. \A m : Lexical!Module(m) = Module(m)  BY DEF Lexical!Module, Module
<1>7. \A m, n : Lexical!InModule(p, m, n) <=> InModule(p, m, n)
  BY <1>5, <1>6 DEF Lexical!InModule, InModule
<1>8. \A m : Lexical!Imports(p, m) = Imports(p, m)  BY DEF Lexical!Imports, Imports
<1>9. \A m : Lexical!Having(p, m, u) = Having(p, m, u)
  BY <1>7, <1>8 DEF Lexical!Having, Having
<1>10. \A m : Lexical!ModuleMeaning(p, m, u) = ModuleMeaning(p, m, u)
  <2> TAKE m
  <2> DEFINE A == {k \in Having(p, m, u) : p[k].alias = Bare}
             C == {k \in Imports(p, m) : Key(p[k]) = u.of}
             Q == IF u.of = Bare THEN FirstOf(A) ELSE LastOf(C) \cap Having(p, m, u)
  <2>1. {k \in Lexical!Having(p, m, u) : p[k].alias = Lexical!Bare} = A  BY <1>1, <1>9
  <2>2. {k \in Lexical!Imports(p, m) : Lexical!Key(p[k]) = u.of} = C  BY <1>2, <1>8
  <2>3. (IF u.of = Lexical!Bare
         THEN Lexical!FirstOf({k \in Lexical!Having(p, m, u) : p[k].alias = Lexical!Bare})
         ELSE Lexical!LastOf({k \in Lexical!Imports(p, m) : Lexical!Key(p[k]) = u.of})
              \cap Lexical!Having(p, m, u)) = Q
    <3> HIDE DEF A, C
    <3> QED  BY <1>1, <1>3, <1>4, <1>9, <2>1, <2>2
  <2> HIDE DEF Q
  <2>4. Lexical!ModuleMeaning(p, m, u) =
          IF u.of = Lexical!Bare /\ Lexical!InModule(p, m, u.name) THEN {Lexical!Module(m)}
          ELSE {Lexical!Module(p[k].from) : k \in Q}
    BY <2>3 DEF Lexical!ModuleMeaning
  <2>5. ModuleMeaning(p, m, u) =
          IF u.of = Bare /\ InModule(p, m, u.name) THEN {Module(m)}
          ELSE {Module(p[k].from) : k \in Q}
    BY DEF ModuleMeaning, Q
  <2>6. {Lexical!Module(p[k].from) : k \in Q} = {Module(p[k].from) : k \in Q}  BY <1>6
  <2> QED  BY <1>1, <1>6, <1>7, <2>4, <2>5, <2>6
<1>11. \A s : Lexical!DeclaredBefore(p, s, i, u.name) <=> DeclaredBefore(p, s, i, u.name)
  BY <1>5 DEF Lexical!DeclaredBefore, DeclaredBefore
<1>12. \A s : Lexical!MeaningIn(p, s, i, u) = MeaningIn(p, s, i, u)
  BY <1>1, <1>10, <1>11 DEF Lexical!MeaningIn, MeaningIn, Lexical!IsModule, IsModule
<1>13. Lexical!Path(p, i) = Path(p, i)  BY Zenon DEF Lexical!Path, Path
<1> DEFINE path == Path(p, i)
           hits == {k \in DOMAIN path : MeaningIn(p, path[k], i, u) # {}}
<1>14. {k \in DOMAIN Lexical!Path(p, i) :
          Lexical!MeaningIn(p, Lexical!Path(p, i)[k], i, u) # {}} = hits
  BY <1>12, <1>13
<1>15. Meaning(p, i, u) = UNION {MeaningIn(p, path[k], i, u) : k \in FirstOf(hits)}
  BY DEF Meaning
<1> HIDE DEF hits
<1>16. Lexical!Meaning(p, i, u) =
         UNION {Lexical!MeaningIn(p, Lexical!Path(p, i)[k], i, u) : k \in FirstOf(hits)}
  BY <1>3, <1>14 DEF Lexical!Meaning
<1>17. {Lexical!MeaningIn(p, Lexical!Path(p, i)[k], i, u) : k \in FirstOf(hits)}
         = {MeaningIn(p, path[k], i, u) : k \in FirstOf(hits)}
  BY <1>12, <1>13
<1> QED  BY <1>15, <1>16, <1>17

-----------------------------------------------------------------------------
(* Uses get their meaning.                                                 *)
Looked ==
  \/ bound' = bound
  \/ \E f : /\ bound' = [bound EXCEPT ![at] = f] /\ DOMAIN f = DOMAIN d.uses
            /\ \A k \in DOMAIN d.uses :
                 f[k] = Find(d.uses[k]) \/ (f[k] # {} /\ f[k] = bound[at][k])

LEMMA LookedBinds ==
  ASSUME AllPlain, TextInv, BoundInv, ImportsInv', Onwards, Looked
  PROVE  BoundInv' /\ [Lexical!Bind]_<<prog, bound>>
<1>1. /\ PlaceInv /\ ImportsInv /\ prog \in Programs /\ at \in DOMAIN prog /\ prog' = prog
  BY PlaceFacts DEF TextInv, Onwards
<1>2. /\ DOMAIN bound = DOMAIN prog
      /\ \A i \in DOMAIN prog : DOMAIN bound[i] = DOMAIN prog[i].uses
      /\ \A i \in DOMAIN prog : \A k \in DOMAIN prog[i].uses : bound[i][k] # {} =>
           /\ bound[i][k] = Meaning(prog, i, prog[i].uses[k])
           /\ FindAt(i, prog[i].uses[k]) # {}
  BY DEF BoundInv
<1>3. /\ DOMAIN bound' = DOMAIN prog
      /\ \A i \in DOMAIN prog : DOMAIN bound'[i] = DOMAIN prog[i].uses
      /\ \A i \in DOMAIN prog : \A k \in DOMAIN prog[i].uses :
           \/ bound'[i][k] = bound[i][k]
           \/ i = at /\ bound'[i][k] = Find(prog[at].uses[k])
  <2>1. CASE bound' = bound  BY <1>2, <2>1
  <2>2. ASSUME NEW f, bound' = [bound EXCEPT ![at] = f], DOMAIN f = DOMAIN d.uses,
               \A k \in DOMAIN d.uses :
                 f[k] = Find(d.uses[k]) \/ (f[k] # {} /\ f[k] = bound[at][k])
        PROVE  /\ DOMAIN bound' = DOMAIN prog
               /\ \A i \in DOMAIN prog : DOMAIN bound'[i] = DOMAIN prog[i].uses
               /\ \A i \in DOMAIN prog : \A k \in DOMAIN prog[i].uses :
                    \/ bound'[i][k] = bound[i][k]
                    \/ i = at /\ bound'[i][k] = Find(prog[at].uses[k])
    <3>1. DOMAIN bound' = DOMAIN prog /\ bound'[at] = f
          /\ \A i \in DOMAIN prog \ {at} : bound'[i] = bound[i]
      BY <1>1, <1>2, <2>2
    <3>2. DOMAIN f = DOMAIN prog[at].uses
          /\ \A k \in DOMAIN prog[at].uses : f[k] = Find(prog[at].uses[k]) \/ f[k] = bound[at][k]
      BY <2>2 DEF d
    <3> QED  BY <1>2, <3>1, <3>2
  <2> QED  BY <2>1, <2>2 DEF Looked
<1>4. ASSUME NEW i \in DOMAIN prog, NEW k \in DOMAIN prog[i].uses
      PROVE  /\ bound[i][k] # {} => bound'[i][k] = bound[i][k]
             /\ bound'[i][k] # {} => bound'[i][k] = Meaning(prog, i, prog[i].uses[k])
             /\ bound'[i][k] # {} => FindAt(i, prog[i].uses[k])' # {}
  <2>1. PICK u : u = prog[i].uses[k]  OBVIOUS
  <2>2. FindAt(i, u) # {} => FindAt(i, u)' # {}  BY <1>1, FoundStays
  <2>3. FindAt(i, prog[i].uses[k])' = FindAt(i, u)'
    <3>1. prog'[i].uses[k] = u  BY <1>1, <2>1
    <3> QED  BY <3>1 DEF FindAt
  <2>4. CASE bound'[i][k] = bound[i][k]  BY <1>2, <2>1, <2>2, <2>3, <2>4
  <2>5. CASE i = at /\ bound'[i][k] = Find(prog[at].uses[k])
    <3>1. u \in Members(prog[at].uses)  BY <2>1, <2>5 DEF Members
    <3>2. FindAt(at, u) = Find(u) /\ Find(u) \in {{}, Meaning(prog, at, u)}  BY <3>1, FindMeans
    <3>3. bound'[i][k] = Find(u)  BY <2>1, <2>5
    <3>4. bound[i][k] # {} => bound[i][k] = Meaning(prog, at, u) /\ Find(u) # {}
      BY <1>2, <2>1, <2>5, <3>2
    <3> QED  BY <2>1, <2>2, <2>3, <2>5, <3>2, <3>3, <3>4
  <2> QED  BY <1>3, <2>4, <2>5
<1>5. BoundInv'
  <2>1. \A i \in DOMAIN prog' : \A k \in DOMAIN prog'[i].uses : bound'[i][k] # {} =>
          /\ bound'[i][k] = Meaning(prog', i, prog'[i].uses[k])
          /\ FindAt(i, prog[i].uses[k])' # {}
    BY <1>1, <1>4
  <2> QED  BY <1>1, <1>3, <2>1 DEF BoundInv
<1>6. Lexical!Bind
  <2>1. ASSUME NEW i \in DOMAIN prog, NEW k \in DOMAIN prog[i].uses
        PROVE  bound'[i][k] \in IF bound[i][k] # {} THEN {bound[i][k]}
                                ELSE {{}, Lexical!Meaning(prog, i, prog[i].uses[k])}
    <3>1. Lexical!Meaning(prog, i, prog[i].uses[k]) = Meaning(prog, i, prog[i].uses[k])
      BY SameMeaning
    <3> QED  BY <1>4, <3>1
  <2> QED  BY <1>1, <1>3, <2>1 DEF Lexical!Bind
<1> QED  BY <1>5, <1>6

-----------------------------------------------------------------------------
(* What the operations on the symbols do.                                  *)
LEMMA MarkedFacts ==
  ASSUME SymbolsInv, NEW names
  PROVE  /\ DOMAIN Marked(names) = DOMAIN symbols
         /\ \A k \in DOMAIN symbols : /\ DOMAIN Marked(names)[k] = {"item", "token"}
                                      /\ Marked(names)[k].item = symbols[k].item
<1>1. DOMAIN Marked(names) = DOMAIN symbols  BY DEF Marked
<1>2. ASSUME NEW k \in DOMAIN symbols
      PROVE  /\ DOMAIN Marked(names)[k] = {"item", "token"}
             /\ Marked(names)[k].item = symbols[k].item
  <2>1. DOMAIN symbols[k] = {"item", "token"}  BY DEF SymbolsInv
  <2>2. CASE k \in {d.scope} \X names
    <3>1. Marked(names)[k] = [symbols[k] EXCEPT !.token = token]  BY <2>2 DEF Marked
    <3> QED  BY <2>1, <3>1
  <2>3. CASE k \notin {d.scope} \X names
    <3>1. Marked(names)[k] = symbols[k]  BY <2>3 DEF Marked
    <3> QED  BY <2>1, <3>1
  <2> QED  BY <2>2, <2>3
<1> QED  BY <1>1, <1>2

(* Symbols that are marked or left as they are, and new ones.              *)
LEMMA DeclaredGrows ==
  ASSUME SymbolsInv, prog' = prog, NEW syms, NEW s, NEW names,
         DOMAIN syms = DOMAIN symbols,
         \A k \in DOMAIN symbols : /\ DOMAIN syms[k] = {"item", "token"}
                                   /\ syms[k].item = symbols[k].item,
         s = DeclaresIn(prog, at), names \subseteq Members(d.names),
         symbols' = Declared(syms, s, names)
  PROVE  Grows /\ \A n : HasThen(s, n) <=> Has(s, n) \/ n \in names
<1>1. DOMAIN symbols' = DOMAIN symbols \cup ({s} \X names)  BY DEF Declared
<1>2. \A k \in DOMAIN symbols : symbols'[k] = syms[k]  BY DEF Declared
<1>3. ASSUME NEW k \in DOMAIN symbols', k \notin DOMAIN symbols
      PROVE  /\ symbols'[k] = [item |-> at, token |-> token]
             /\ \E n \in Members(d.names) : k = <<s, n>>
  <2>1. k \in {s} \X names  BY <1>1, <1>3
  <2>2. \E n \in names : k = <<s, n>>  BY <2>1
  <2>3. symbols'[k] = [item |-> at, token |-> token]  BY <1>1, <1>3 DEF Declared
  <2> QED  BY <2>2, <2>3
<1>4. \A k \in DOMAIN symbols' : DOMAIN symbols'[k] = {"item", "token"}
  <2> TAKE k \in DOMAIN symbols'
  <2>1. CASE k \in DOMAIN symbols  BY <1>2, <2>1
  <2>2. CASE k \notin DOMAIN symbols
    <3>1. symbols'[k] = [item |-> at, token |-> token]  BY <1>3, <2>2
    <3> QED  BY <3>1
  <2> QED  BY <2>1, <2>2
<1>5. \A k \in DOMAIN symbols' \ DOMAIN symbols : symbols'[k].item = at
  <2> TAKE k \in DOMAIN symbols' \ DOMAIN symbols
  <2>1. symbols'[k] = [item |-> at, token |-> token]  BY <1>3
  <2> QED  BY <2>1
<1>6. Grows  BY <1>1, <1>2, <1>3, <1>4, <1>5 DEF Grows
<1>7. \A n : HasThen(s, n) <=> Has(s, n) \/ n \in names  BY <1>1 DEF HasThen, Has
<1> QED  BY <1>6, <1>7

LEMMA SameGrows ==
  ASSUME prog' = prog, DOMAIN symbols' = DOMAIN symbols,
         \A k \in DOMAIN symbols : /\ DOMAIN symbols'[k] = {"item", "token"}
                                   /\ symbols'[k].item = symbols[k].item
  PROVE  Grows /\ \A s, n : HasThen(s, n) <=> Has(s, n)
BY DEF Grows, HasThen, Has

LEMMA UnchangedGrows ==
  ASSUME SymbolsInv, prog' = prog, symbols' = symbols
  PROVE  Grows /\ \A s, n : HasThen(s, n) <=> Has(s, n)
<1>1. \A k \in DOMAIN symbols : DOMAIN symbols'[k] = {"item", "token"}  BY DEF SymbolsInv
<1> QED  BY <1>1, SameGrows

(* An item that was passed before has nothing more to bring.               *)
LEMMA AgainVisited ==
  ASSUME TextInv, Passed(at), \A s, n : Has(s, n) => HasThen(s, n), typed' = typed,
         unpacked' = unpacked
  PROVE  Visited
<1>1. at \in DOMAIN prog /\ DeclaredInv /\ TypedInv  BY DEF TextInv, Passed
<1>2. ~ Waits(at) => \A n \in Members(d.names) : HasThen(DeclaresIn(prog, at), n)
  BY <1>1 DEF DeclaredInv, d
<1>3. at \in Ready(prog) /\ d.kind \in {"func", "for", "let"} /\ ~ Redeclares(prog, at) => at \in typed'
  BY <1>1 DEF TypedInv, d
<1> QED  BY <1>2, <1>3 DEF Visited

(* A declaration refused at its first visit was made by items before it.   *)
LEMMA RefusedDeclared ==
  ASSUME AllPlain, TextInv, d.kind = "let", Old(d.names[1]), ~ Passed(at)
  PROVE  /\ Redeclares(prog, at)
         /\ \A n \in Members(d.names) : Has(d.scope, n)
<1>1. /\ prog \in Programs /\ DOMAIN prog = 1 .. Last /\ Last \in Nat /\ at \in 1 .. Last
      /\ at \in DOMAIN prog /\ PlaceInv /\ SymbolsInv
  BY PlaceFacts DEF TextInv
<1>2. /\ d.names \in Seq(Names) /\ Len(d.names) > 0 /\ d.scope # 0
  BY <1>1, ItemFacts, ScopeFacts DEF WellFormed, d
<1>3. /\ Len(d.names) \in Nat /\ DOMAIN d.names = 1 .. Len(d.names) /\ 1 \in DOMAIN d.names
  BY <1>2
<1> DEFINE Before(n) == \E j \in 1 .. at - 1 : Declares(prog, j, d.scope, n)
<1>4. Before(d.names[1])
  <2>1. Has(d.scope, d.names[1])  BY DEF Old
  <2>2. PICK j \in DOMAIN prog : Passed(j) /\ Declares(prog, j, d.scope, d.names[1])
    BY <1>1, <1>2, <2>1, SymbolFacts
  <2>3. j < at  BY <1>1, <2>2, PassedFacts
  <2>4. j \in 1 .. at - 1  BY <1>1, <2>3
  <2> QED  BY <2>2, <2>4
<1>5. \A k \in DOMAIN d.names : Before(d.names[k])
  <2>1. ~ OldFirst(prog)  BY <1>1 DEF AllPlain, Plain
  <2> DEFINE new == {k \in DOMAIN d.names : \A j \in 1 .. at - 1 : ~ Declares(prog, j, d.scope, d.names[k])}
  <2>2. new # {} => 1 \in new  BY <1>1, <2>1 DEF OldFirst, d
  <2>3. 1 \notin new  BY <1>4
  <2> QED  BY <2>2, <2>3
<1>6. \A n \in Members(d.names) : Before(n)  BY <1>5 DEF Members
<1>7. Redeclares(prog, at)  BY <1>6 DEF Redeclares, d
<1>8. ASSUME NEW n \in Members(d.names), ~ Has(d.scope, n)  PROVE FALSE
  <2>1. PICK j \in 1 .. at - 1 : Declares(prog, j, d.scope, n)  BY <1>6
  <2>2. j \in DOMAIN prog /\ j < at /\ at \in DOMAIN prog \ {j}  BY <1>1
  <2>3. Passed(j)  BY <1>1, <2>2, PassedFacts
  <2>4. n \notin Members(prog[at].names)  BY <1>8, <2>1, <2>2, <2>3, NotHad
  <2> QED  BY <2>4 DEF d
<1> QED  BY <1>7, <1>8

-----------------------------------------------------------------------------
(* The visits.                                                             *)
VisitNext ==
  \/ VisitImport \/ VisitFunc \/ VisitBlock \/ VisitFor \/ VisitMadeFor
  \/ VisitRedeclared \/ VisitLet \/ VisitPacked \/ Unpack \/ VisitUnpacked
  \/ VisitType \/ VisitUse \/ VisitTypeName

Visit == (\E un : Leave(un)) /\ Grows /\ Visited /\ Imported /\ Looked

(* An item that declares nothing.                                          *)
LEMMA PlainVisit ==
  ASSUME TextInv, d.kind \in {"import", "block", "use", "typename"},
         prog' = prog, symbols' = symbols, typed' = typed, unpacked' = unpacked
  PROVE  Grows /\ Visited
<1>1. prog \in Programs /\ at \in DOMAIN prog /\ SymbolsInv  BY PlaceFacts DEF TextInv
<1>2. d.names = <<>>  BY <1>1, ItemFacts DEF WellFormed, d
<1>3. Members(d.names) = {}  BY <1>2 DEF Members
<1>4. Grows  BY <1>1, UnchangedGrows
<1>5. d.kind \notin {"func", "for", "let"}  OBVIOUS
<1> QED  BY <1>3, <1>4, <1>5 DEF Visited

LEMMA VisitFacts ==
  ASSUME AllPlain, TextInv, BoundInv, VisitNext
  PROVE  Visit
<1>1. /\ prog \in Programs /\ DOMAIN prog = 1 .. Last /\ Last \in Nat /\ at \in 1 .. Last
      /\ at \in DOMAIN prog /\ PlaceInv /\ SymbolsInv /\ OnceInv
  BY PlaceFacts DEF TextInv
<1>2. phase # "register" => Passed(at)  BY <1>1 DEF Passed
<1>3. DeclaresIn(prog, at) = IF d.kind \in {"func", "for"} THEN at ELSE d.scope
  BY DEF DeclaresIn, d
<1>4. ~ HaveTypes => at \notin Ready(prog)  BY ReadyHasTypes
<1>5. /\ DOMAIN symbols = DOMAIN symbols
      /\ \A k \in DOMAIN symbols : /\ DOMAIN symbols[k] = {"item", "token"}
                                   /\ symbols[k].item = symbols[k].item
  BY <1>1 DEF SymbolsInv
<1>6. bound' = [bound EXCEPT ![at] = Found] => Looked
  <2>1. DOMAIN Found = DOMAIN d.uses /\ \A k \in DOMAIN d.uses : Found[k] = Find(d.uses[k])
    BY DEF Found
  <2> QED  BY <2>1 DEF Looked
<1>7. CASE VisitImport
  <2>1. /\ d.kind = "import" /\ Leave(FALSE) /\ prog' = prog /\ symbols' = symbols
        /\ typed' = typed /\ unpacked' = unpacked /\ bound' = bound
        /\ imports' = IF token = <<"register", 0>>
                      THEN [imports EXCEPT ![d.module] = Append(@, at)] ELSE imports
    BY <1>7 DEF VisitImport, Visiting
  <2>2. token = <<"register", 0>> <=> ~ Passed(at)
    <3>1. token = <<"register", 0>> <=> phase = "register" /\ sub = 0  BY DEF token
    <3>2. phase = "register" /\ sub = 0 => ~ Passed(at)
      <4>1. ~ (at < at)  BY <1>1
      <4> QED  BY <4>1 DEF Passed
    <3>3. ~ Passed(at) => phase = "register" /\ sub = 0  BY <1>1, PassedFacts
    <3> QED  BY <3>1, <3>2, <3>3
  <2>3. Imported  BY <2>1, <2>2 DEF Imported
  <2>4. Grows /\ Visited  BY <2>1, PlainVisit
  <2> QED  BY <2>1, <2>3, <2>4 DEF Visit, Looked
<1>8. CASE VisitFunc
  <2>1. /\ d.kind = "func" /\ Leave(FALSE) /\ prog' = prog /\ unpacked' = unpacked
        /\ bound' = bound /\ imports' = imports
    BY <1>8 DEF VisitFunc, Visiting
  <2>2. Imported /\ Looked  BY <2>1 DEF Imported, Looked
  <2>3. DeclaresIn(prog, at) = at  BY <1>3, <2>1
  <2>4. CASE phase = "register"
    <3>1. symbols' = Declared(symbols, at, Members(d.names)) /\ typed' = typed \cup {at}
      BY <1>8, <2>4 DEF VisitFunc
    <3>2. Grows /\ \A n \in Members(d.names) : HasThen(at, n)
      BY <1>1, <1>5, <2>1, <2>3, <3>1, DeclaredGrows
    <3>3. Visited  BY <2>1, <2>3, <3>1, <3>2 DEF Visited
    <3> QED  BY <2>1, <2>2, <3>2, <3>3 DEF Visit
  <2>5. CASE phase # "register"
    <3>1. symbols' = symbols /\ typed' = typed  BY <1>8, <2>5 DEF VisitFunc
    <3>2. Grows /\ \A s, n : Has(s, n) => HasThen(s, n)  BY <1>1, <2>1, <3>1, UnchangedGrows
    <3>3. Visited  BY <1>2, <2>1, <2>5, <3>1, <3>2, AgainVisited
    <3> QED  BY <2>1, <2>2, <3>2, <3>3 DEF Visit
  <2> QED  BY <2>4, <2>5
<1>9. CASE VisitBlock
  <2>1. /\ d.kind = "block" /\ Leave(FALSE) /\ prog' = prog /\ symbols' = symbols
        /\ typed' = typed /\ unpacked' = unpacked /\ bound' = bound /\ imports' = imports
    BY <1>9 DEF VisitBlock, Visiting
  <2>2. Grows /\ Visited  BY <2>1, PlainVisit
  <2> QED  BY <2>1, <2>2 DEF Visit, Imported, Looked
<1>10. CASE VisitFor
  <2>1. /\ d.kind = "for" /\ at \notin typed /\ Leave(~ HaveTypes) /\ prog' = prog
        /\ unpacked' = unpacked /\ imports' = imports /\ bound' = [bound EXCEPT ![at] = Found]
    BY <1>10 DEF VisitFor, Visiting
  <2>2. Imported /\ Looked  BY <1>6, <2>1 DEF Imported
  <2>3. DeclaresIn(prog, at) = at  BY <1>3, <2>1
  <2>4. CASE HaveTypes
    <3>1. symbols' = Declared(symbols, at, Members(d.names)) /\ typed' = typed \cup {at}
      BY <1>10, <2>4 DEF VisitFor
    <3>2. Grows /\ \A n \in Members(d.names) : HasThen(at, n)
      BY <1>1, <1>5, <2>1, <2>3, <3>1, DeclaredGrows
    <3>3. Visited  BY <2>1, <2>3, <3>1, <3>2 DEF Visited
    <3> QED  BY <2>1, <2>2, <3>2, <3>3 DEF Visit
  <2>5. CASE ~ HaveTypes
    <3>1. symbols' = symbols /\ typed' = typed  BY <1>10, <2>5 DEF VisitFor
    <3>2. Grows  BY <1>1, <2>1, <3>1, UnchangedGrows
    <3>3. Waits(at) /\ at \notin Ready(prog)  BY <1>4, <2>1, <2>5 DEF Waits, Late, d
    <3>4. Visited  BY <2>1, <3>1, <3>3 DEF Visited
    <3> QED  BY <2>1, <2>2, <3>2, <3>4 DEF Visit
  <2> QED  BY <2>4, <2>5
<1>11. CASE VisitMadeFor
  <2>1. /\ d.kind = "for" /\ at \in typed /\ Leave(FALSE) /\ prog' = prog /\ typed' = typed
        /\ unpacked' = unpacked /\ imports' = imports /\ bound' = bound
        /\ symbols' = [k \in DOMAIN symbols |->
                         IF k[1] = at /\ k[2] \in Members(d.names)
                         THEN [symbols[k] EXCEPT !.token = token] ELSE symbols[k]]
    BY <1>11 DEF VisitMadeFor, Visiting
  <2>2. DOMAIN symbols' = DOMAIN symbols  BY <2>1
  <2>3. ASSUME NEW k \in DOMAIN symbols
        PROVE  DOMAIN symbols'[k] = {"item", "token"} /\ symbols'[k].item = symbols[k].item
    <3>1. \/ symbols'[k] = [symbols[k] EXCEPT !.token = token]
          \/ symbols'[k] = symbols[k]
      BY <2>1
    <3> QED  BY <1>5, <3>1
  <2>4. Grows /\ \A s, n : Has(s, n) => HasThen(s, n)  BY <2>1, <2>2, <2>3, SameGrows
  <2>5. Visited  BY <1>1, <2>1, <2>4, AgainVisited DEF OnceInv
  <2> QED  BY <2>1, <2>4, <2>5 DEF Visit, Imported, Looked
<1>12. CASE VisitRedeclared
  <2>1. /\ d.kind = "let" /\ Old(d.names[1]) /\ Leave(at \notin typed) /\ prog' = prog
        /\ typed' = typed /\ unpacked' = unpacked /\ imports' = imports /\ bound' = bound
        /\ symbols' = Marked(Members(d.names))
    BY <1>12 DEF VisitRedeclared, Visiting
  <2>2. Grows /\ \A s, n : Has(s, n) => HasThen(s, n)
    BY <1>1, <2>1, MarkedFacts, SameGrows
  <2>3. Visited
    <3>1. CASE Passed(at)  BY <2>1, <2>2, <3>1, AgainVisited
    <3>2. CASE ~ Passed(at)
      <4>1. Redeclares(prog, at) /\ \A n \in Members(d.names) : Has(d.scope, n)
        BY <2>1, <3>2, RefusedDeclared
      <4>2. DeclaresIn(prog, at) = d.scope  BY <1>3, <2>1
      <4> QED  BY <2>1, <2>2, <4>1, <4>2 DEF Visited
    <3> QED  BY <3>1, <3>2
  <2> QED  BY <2>1, <2>2, <2>3 DEF Visit, Imported, Looked
<1>13. CASE VisitLet
  <2>1. /\ d.kind = "let" /\ Leave(~ HaveTypes) /\ prog' = prog
        /\ typed' = (IF HaveTypes THEN typed \cup {at} ELSE typed \ {at})
        /\ unpacked' = unpacked /\ imports' = imports /\ bound' = [bound EXCEPT ![at] = Found]
        /\ symbols' = Declared(Marked(Members(d.names)), d.scope, Members(d.names))
    BY <1>13 DEF VisitLet, Visits, Visiting
  <2>2. DeclaresIn(prog, at) = d.scope  BY <1>3, <2>1
  <2>3. Grows /\ \A n \in Members(d.names) : HasThen(d.scope, n)
    <3> DEFINE syms == Marked(Members(d.names))
    <3>1. /\ DOMAIN syms = DOMAIN symbols
          /\ \A k \in DOMAIN symbols : /\ DOMAIN syms[k] = {"item", "token"}
                                       /\ syms[k].item = symbols[k].item
      BY <1>1, MarkedFacts
    <3>2. symbols' = Declared(syms, d.scope, Members(d.names))  BY <2>1
    <3> HIDE DEF syms
    <3> QED  BY <1>1, <2>1, <2>2, <3>1, <3>2, DeclaredGrows
  <2>4. typed' = typed \cup {at} \/ (typed' = typed \ {at} /\ at \notin Ready(prog))  BY <1>4, <2>1
  <2>5. Visited  BY <2>1, <2>2, <2>3, <2>4 DEF Visited
  <2> QED  BY <1>6, <2>1, <2>3, <2>5 DEF Visit, Imported
<1>14. CASE VisitPacked
  <2>1. /\ d.kind = "let" /\ Len(d.names) > 1 /\ ~ HaveTypes /\ Leave(TRUE) /\ prog' = prog
        /\ typed' = typed \ {at} /\ unpacked' = unpacked /\ imports' = imports
        /\ bound' = [bound EXCEPT ![at] = Found] /\ symbols' = Marked(Members(d.names))
    BY <1>14 DEF VisitPacked, Visits, Visiting
  <2>2. Grows  BY <1>1, <2>1, MarkedFacts, SameGrows
  <2>3. Waits(at) /\ at \notin Ready(prog)  BY <1>4, <2>1 DEF Waits, Late, d
  <2>4. Visited  BY <2>1, <2>3 DEF Visited
  <2> QED  BY <1>6, <2>1, <2>2, <2>4 DEF Visit, Imported
<1>15. CASE Unpack
  <2>1. /\ d.kind = "let" /\ prog' = prog
        /\ Leave(~ Assignable(Members(d.names) \ New))
        /\ typed' = typed \cup {at} /\ imports' = imports
        /\ bound' = [bound EXCEPT ![at] = Found]
        /\ symbols' = Declared(Marked(Members(d.names)), d.scope, New)
        /\ DOMAIN unpacked' = DOMAIN unpacked \cup {at}
    BY <1>15 DEF Unpack, Visits, Visiting
  <2>2. DeclaresIn(prog, at) = d.scope  BY <1>3, <2>1
  <2>3. Grows /\ \A n : HasThen(d.scope, n) <=> Has(d.scope, n) \/ n \in New
    <3> DEFINE syms == Marked(Members(d.names))
    <3>1. /\ DOMAIN syms = DOMAIN symbols
          /\ \A k \in DOMAIN symbols : /\ DOMAIN syms[k] = {"item", "token"}
                                       /\ syms[k].item = symbols[k].item
      BY <1>1, MarkedFacts
    <3>2. symbols' = Declared(syms, d.scope, New)  BY <2>1
    <3>3. New \subseteq Members(d.names)  BY DEF New
    <3> HIDE DEF syms
    <3> QED  BY <1>1, <2>1, <2>2, <3>1, <3>2, <3>3, DeclaredGrows
  <2>4. \A n \in Members(d.names) : HasThen(d.scope, n)  BY <2>3 DEF New
  <2>5. Visited  BY <2>1, <2>2, <2>4 DEF Visited
  <2> QED  BY <1>6, <2>1, <2>3, <2>5 DEF Visit, Imported
<1>16. CASE VisitUnpacked
  <2>1. /\ d.kind = "let" /\ at \in DOMAIN unpacked /\ prog' = prog
        /\ \E un : Leave(un)
        /\ typed' = typed /\ unpacked' = unpacked /\ imports' = imports
        /\ bound' = [bound EXCEPT ![at] = Found] /\ symbols' = Marked(unpacked[at])
    BY <1>16 DEF VisitUnpacked, Visiting
  <2>2. Grows /\ \A s, n : Has(s, n) => HasThen(s, n)
    BY <1>1, <2>1, MarkedFacts, SameGrows
  <2>3. Visited  BY <1>1, <2>1, <2>2, AgainVisited DEF OnceInv
  <2> QED  BY <1>6, <2>1, <2>2, <2>3 DEF Visit, Imported
<1>17. CASE VisitType
  <2>1. /\ d.kind = "type" /\ Leave(FALSE) /\ prog' = prog
        /\ typed' = typed /\ unpacked' = unpacked /\ imports' = imports /\ bound' = bound
        /\ symbols' = Declared(symbols, d.scope, Members(d.names))
    BY <1>17 DEF VisitType, Visiting
  <2>2. DeclaresIn(prog, at) = d.scope  BY <1>3, <2>1
  <2>3. Grows /\ \A n \in Members(d.names) : HasThen(d.scope, n)
    BY <1>1, <1>5, <2>1, <2>2, DeclaredGrows
  <2>4. Visited  BY <2>1, <2>2, <2>3 DEF Visited
  <2> QED  BY <2>1, <2>3, <2>4 DEF Visit, Imported, Looked
<1>18. CASE VisitUse
  <2>1. /\ d.kind = "use" /\ Leave(~ HaveTypes) /\ prog' = prog /\ symbols' = symbols
        /\ typed' = typed /\ unpacked' = unpacked /\ imports' = imports
        /\ bound' = [bound EXCEPT ![at] = Found]
    BY <1>18 DEF VisitUse, Visiting
  <2>2. Grows /\ Visited  BY <2>1, PlainVisit
  <2> QED  BY <1>6, <2>1, <2>2 DEF Visit, Imported
<1>19. CASE VisitTypeName
  <2> DEFINE f == [k \in DOMAIN d.uses |->
                     IF bound[at][k] # {} /\ ~ Checking THEN bound[at][k] ELSE Find(d.uses[k])]
  <2>1. /\ d.kind = "typename" /\ (\E un : Leave(un)) /\ prog' = prog /\ symbols' = symbols
        /\ typed' = typed /\ unpacked' = unpacked /\ imports' = imports
    BY <1>19 DEF VisitTypeName, Visiting
  <2>2. Looked
    <3>1. at \in DOMAIN bound  BY <1>1 DEF BoundInv
    <3>2. bound' = [bound EXCEPT ![at] = f]  BY <1>19, <3>1 DEF VisitTypeName
    <3>3. DOMAIN f = DOMAIN d.uses
          /\ \A k \in DOMAIN d.uses :
               f[k] = Find(d.uses[k]) \/ (f[k] # {} /\ f[k] = bound[at][k])
      OBVIOUS
    <3> HIDE DEF f
    <3> QED  BY <3>2, <3>3 DEF Looked
  <2>3. Grows /\ Visited  BY <2>1, PlainVisit
  <2> QED  BY <2>1, <2>2, <2>3 DEF Visit, Imported
<1> QED  BY <1>7, <1>8, <1>9, <1>10, <1>11, <1>12, <1>13, <1>14, <1>15, <1>16, <1>17, <1>18, <1>19
     DEF VisitNext

-----------------------------------------------------------------------------
(* The invariant.                                                          *)
IInv == TextInv /\ BoundInv

LEMMA InitIInv == ASSUME Init  PROVE IInv
<1>1. /\ prog \in Programs /\ phase = "register" /\ sub = 0 /\ start = 1 /\ at = 1
      /\ DOMAIN symbols = {0} \X Builtins
      /\ \A k \in DOMAIN symbols : symbols[k] = [item |-> 0, token |-> token]
      /\ imports = [m \in {prog[i].module : i \in DOMAIN prog} |-> <<>>]
      /\ bound = [i \in DOMAIN prog |-> [k \in DOMAIN prog[i].uses |-> {}]]
      /\ typed = {} /\ unpacked = [i \in {} |-> {}]
  BY DEF Init
<1>2. DOMAIN prog = 1 .. Len(prog) /\ Len(prog) \in Nat \ {0}  BY <1>1, ItemFacts
<1>3. PlaceInv
  <2>1. at \in DOMAIN prog /\ start \in 1 .. at  BY <1>1, <1>2
  <2> QED  BY <1>1, <2>1 DEF PlaceInv, Phases
<1>4. \A i : ~ Passed(i)
  <2>1. \A i \in DOMAIN prog : ~ (i < at)  BY <1>1, <1>2
  <2> QED  BY <1>1, <2>1 DEF Passed
<1>5. SymbolsInv
  <2> SUFFICES ASSUME NEW k \in DOMAIN symbols
               PROVE  /\ k = <<k[1], k[2]>> /\ DOMAIN symbols[k] = {"item", "token"}
                      /\ k[1] = 0 /\ k[2] \in Builtins
    BY DEF SymbolsInv
  <2>1. k \in {0} \X Builtins  BY <1>1
  <2>2. symbols[k] = [item |-> 0, token |-> token]  BY <1>1
  <2> QED  BY <2>1, <2>2
<1>6. ImportsInv
  <2>1. \A m \in DOMAIN imports : imports[m] = <<>>  BY <1>1
  <2>2. /\ <<>> \in Seq(Nat) /\ Members(<<>>) = {}
        /\ \A j, k \in DOMAIN <<>> : j < k => <<>>[j] < <<>>[k]
    BY DEF Members
  <2>3. \A m : {i \in Imports(prog, m) : Passed(i)} = {}  BY <1>4
  <2> QED  BY <1>1, <2>1, <2>2, <2>3 DEF ImportsInv
<1>7. OnceInv  BY <1>1 DEF OnceInv
<1>8. DeclaredInv /\ TypedInv  BY <1>4 DEF DeclaredInv, TypedInv
<1>9. FirstDeclares
  <2>1. \A k \in DOMAIN symbols : k[1] = 0  BY <1>1
  <2> QED  BY <2>1 DEF FirstDeclares
<1>10. BoundInv  BY <1>1 DEF BoundInv
<1> QED  BY <1>3, <1>5, <1>6, <1>7, <1>8, <1>9, <1>10 DEF IInv, TextInv

(* Between the files and the passes nothing is declared or looked up.      *)
LEMMA ImportsKeep ==
  ASSUME AllPlain, TextInv, ResolveImports
  PROVE  TextInv' /\ Onwards /\ Looked
<1>1. /\ phase = "imports" /\ phase' \in {"resolve", "done"} /\ sub' = 0 /\ start' = 1 /\ at' = 1
      /\ prog' = prog /\ symbols' = symbols /\ imports' = imports /\ bound' = bound
      /\ typed' = typed /\ unpacked' = unpacked
  BY DEF ResolveImports, Goto
<1>2. /\ PlaceInv /\ SymbolsInv /\ ImportsInv /\ OnceInv /\ DeclaredInv /\ TypedInv /\ FirstDeclares
      /\ prog \in Programs /\ DOMAIN prog = 1 .. Last /\ Last \in Nat \ {0}
  BY PlaceFacts DEF TextInv
<1>3. PlaceInv'
  <2>1. 1 \in DOMAIN prog /\ 1 \in 1 .. 1  BY <1>2
  <2> QED  BY <1>1, <1>2, <2>1 DEF PlaceInv, Phases
<1>4. \A i : Passed(i)' <=> Passed(i)  BY <1>1 DEF Passed
<1>5. SymbolsInv'  BY <1>1, <1>2, <1>4 DEF SymbolsInv
<1>6. ImportsInv'
  <2>1. \A m : {i \in Imports(prog, m) : Passed(i)'} = {i \in Imports(prog, m) : Passed(i)}
    BY <1>4
  <2> QED  BY <1>1, <1>2, <2>1 DEF ImportsInv
<1>7. OnceInv'  BY <1>1, <1>2, <1>4 DEF OnceInv
<1>8. DeclaredInv'  BY <1>1, <1>2, <1>4 DEF DeclaredInv, Waits, Has
<1>9. TypedInv'  BY <1>1, <1>2, <1>4 DEF TypedInv
<1>10. FirstDeclares'  BY <1>1, <1>2 DEF FirstDeclares
<1>11. \A m : Exists(m) => Exists(m)'  BY <1>1 DEF Exists
<1>12. Onwards  BY <1>1, <1>11 DEF Onwards
<1> QED  BY <1>1, <1>3, <1>5, <1>6, <1>7, <1>8, <1>9, <1>10, <1>12 DEF TextInv, Looked

LEMMA UnchangedIInv ==
  ASSUME IInv, UNCHANGED vars
  PROVE  IInv'
<1> USE DEF vars, position
<1>1. PlaceInv'  BY DEF IInv, TextInv, PlaceInv
<1>2. \A i : Passed(i)' <=> Passed(i)  BY DEF Passed
<1>3. SymbolsInv'  BY <1>2 DEF IInv, TextInv, SymbolsInv
<1>4. ImportsInv'
  <2>1. \A m : {i \in Imports(prog, m) : Passed(i)'} = {i \in Imports(prog, m) : Passed(i)}
    BY <1>2
  <2> QED  BY <2>1 DEF IInv, TextInv, ImportsInv
<1>5. OnceInv'  BY <1>2 DEF IInv, TextInv, OnceInv
<1>6. DeclaredInv'  BY <1>2 DEF IInv, TextInv, DeclaredInv, Waits, Has
<1>7. TypedInv'  BY <1>2 DEF IInv, TextInv, TypedInv
<1>8. FirstDeclares'  BY DEF IInv, TextInv, FirstDeclares
<1>9. TextInv'  BY <1>1, <1>3, <1>4, <1>5, <1>6, <1>7, <1>8 DEF TextInv
<1>10. Onwards
  <2>1. \A m : Exists(m) => Exists(m)'  BY DEF Exists
  <2> QED  BY <2>1 DEF Onwards
<1>11. /\ BoundInv /\ ImportsInv /\ PlaceInv  BY DEF IInv, TextInv
<1>12. \A i, u : FindAt(i, u)' = FindAt(i, u)
  <2>1. \A s, u : FindIn(s, u)' = FindIn(s, u)
    BY DEF FindIn, Has, From, Searched, Called, There, Open, Exists
  <2> QED  BY <2>1, ZenonT(60) DEF FindAt
<1>13. BoundInv'  BY <1>11, <1>12 DEF BoundInv
<1> QED  BY <1>9, <1>13 DEF IInv

LEMMA NextKeeps ==
  ASSUME AllPlain, IInv, [Next]_vars
  PROVE  IInv' /\ [Lexical!Bind]_<<prog, bound>>
<1>1. TextInv /\ BoundInv  BY DEF IInv
<1>2. CASE VisitNext
  <2>1. Visit  BY <1>1, <1>2, VisitFacts
  <2>2. PICK un : Leave(un)  BY <2>1 DEF Visit
  <2>3. TextInv' /\ Onwards  BY <1>1, <2>1, <2>2, VisitKeeps DEF Visit
  <2>4. ImportsInv'  BY <2>3 DEF TextInv
  <2>5. BoundInv' /\ [Lexical!Bind]_<<prog, bound>>
    BY <1>1, <2>1, <2>3, <2>4, LookedBinds DEF Visit
  <2> QED  BY <2>3, <2>5 DEF IInv
<1>3. CASE ResolveImports
  <2>1. TextInv' /\ Onwards /\ Looked  BY <1>1, <1>3, ImportsKeep
  <2>2. ImportsInv'  BY <2>1 DEF TextInv
  <2>3. BoundInv' /\ [Lexical!Bind]_<<prog, bound>>  BY <1>1, <2>1, <2>2, LookedBinds
  <2> QED  BY <2>1, <2>3 DEF IInv
<1>4. CASE UNCHANGED vars
  <2>1. UNCHANGED <<prog, bound>>  BY <1>4 DEF vars
  <2> QED  BY <1>4, <2>1, UnchangedIInv
<1> QED  BY <1>2, <1>3, <1>4 DEF Next, VisitNext

-----------------------------------------------------------------------------
(* Whatever the order of declarations and uses, and however often the      *)
(* walks come by: the symbol of a name in a scope is the one that its      *)
(* first declaration in the text has made (declare_var_symbol and the      *)
(* other declare functions of scope.cc, with the token of a symbol).       *)
THEOREM FirstItemDeclares ==
  ASSUME AllPlain
  PROVE  Spec => []FirstDeclares
<1>1. Init => IInv  BY InitIInv
<1>2. IInv /\ [Next]_vars => IInv'  BY NextKeeps
<1>3. IInv => FirstDeclares  BY DEF IInv, TextInv
<1> QED  BY <1>1, <1>2, <1>3, PTL DEF Spec

(* The walks implement lexical scoping: a use that find_symbol has an      *)
(* answer for gets the declaration the text gives it, no later walk finds  *)
(* another, although the scopes and the imports fill up between them.      *)
THEOREM ScopingIsLexical ==
  ASSUME AllPlain
  PROVE  Spec => ImplementsScoping
<1>1. Init => IInv  BY InitIInv
<1>2. IInv /\ [Next]_vars => IInv' /\ [Lexical!Bind]_<<prog, bound>>  BY NextKeeps
<1>3. Init => Lexical!Init
  <2> SUFFICES ASSUME Init  PROVE Lexical!Init  OBVIOUS
  <2>1. prog \in Programs /\ bound = [i \in DOMAIN prog |-> [k \in DOMAIN prog[i].uses |-> {}]]
    BY DEF Init
  <2>2. prog \in Seq(Item)  BY <2>1, ItemFacts
  <2>3. Lexical!Item = Item  BY DEF Lexical!Item, Item, Lexical!Use, Use
  <2> QED  BY <2>1, <2>2, <2>3 DEF Lexical!Init, Lexical!NotBound
<1> QED  BY <1>1, <1>2, <1>3, PTL DEF Spec, ImplementsScoping, Lexical!Spec
=============================================================================
