----------------------------- MODULE ScopesSpec -----------------------------
(***************************************************************************)
(* What Scopes guarantees, and for which programs: the code keeps the      *)
(* promise for those that are Plain.                                       *)
(***************************************************************************)
EXTENDS Scopes

(* A name of a local scope is mentioned before it is declared there: the   *)
(* second walk finds the later declaration.                                *)
MentionedBefore(p, s, n, i) ==
  /\ \E j \in i .. Len(p) : Declares(p, j, s, n)
  /\ \A j \in 1 .. i - 1 : ~Declares(p, j, s, n)

LateLocal(p) ==
  \E i \in DOMAIN p, s \in 1 .. Len(p) : \E u \in Members(p[i].uses) :
    /\ s \in Members(Path(p, i))
    /\ MentionedBefore(p, s, u.name, i)

(* A module has its own declaration, or one it imports, of a name that an  *)
(* import or the language answers before that one is there.                *)
LateGlobal(p) ==
  \E i \in DOMAIN p : \E u \in Members(p[i].uses) :
    LET m == p[i].module
        own == InModule(p, m, u.name)
        imported == \E k \in Imports(p, m) :
                      p[k].alias = Bare /\ InModule(p, p[k].from, u.name)
        builtin == u.name \in Builtins
    IN  IF own THEN (imported \/ builtin) /\ MentionedBefore(p, Module(m), u.name, i)
        ELSE imported /\ builtin

(* Two modules are imported by one name.                                   *)
SharedKey(p) ==
  \E i, j \in DOMAIN p :
    /\ p[i].kind = "import" /\ p[j].kind = "import"
    /\ p[i].module = p[j].module /\ Key(p[i]) = Key(p[j]) /\ p[i].from # p[j].from

(* A local has the name of an argument: the second walk does not refuse it.*)
ArgShadow(p) ==
  \E i, f \in DOMAIN p :
    p[f].kind = "func" /\ f # i /\ \E n \in Members(p[f].names) : Declares(p, i, f, n)

(* The declarations that have a type at the first visit: what they mention *)
(* are variables before them that have, and what is imported is there.     *)
Ready(p) ==
  LET ready[i \in DOMAIN p] ==
        /\ \A k \in Imports(p, p[i].module) :
             k < i /\ \E j \in 1 .. i - 1 : p[j].module = p[k].from
        /\ \A u \in Members(p[i].uses) : \E s \in Meaning(p, i, u) :
             /\ s # 0
             /\ Owner(p, s, u.name) \in 1 .. i - 1
             /\ p[Owner(p, s, u.name)].kind \in {"func", "for", "let"}
             /\ ready[Owner(p, s, u.name)]
  IN  {i \in DOMAIN p : ready[i]}

(* A loop or an unpacking declares its names when its value has a type.    *)
Late(p, i) == p[i].kind = "for" \/ (p[i].kind = "let" /\ Len(p[i].names) > 1)

(* Late declarations that are not ready have names of their own.           *)
Awaited(p) ==
  \E i \in DOMAIN p \ Ready(p) :
    /\ Late(p, i)
    /\ \E n \in Members(p[i].names) :
         n \in Builtins \/ \E j \in DOMAIN p \ {i} : n \in Members(p[j].names)

(* A let of several names, some new, must begin with a new one.            *)
OldFirst(p) ==
  \E i \in DOMAIN p :
    LET new == {k \in DOMAIN p[i].names :
                  \A j \in 1 .. i - 1 : ~Declares(p, j, p[i].scope, p[i].names[k])}
    IN  p[i].kind = "let" /\ new # {} /\ 1 \notin new

Plain(p) ==
  ~( \/ LateLocal(p) \/ LateGlobal(p) \/ SharedKey(p) \/ ArgShadow(p)
     \/ Awaited(p) \/ OldFirst(p) )

-----------------------------------------------------------------------------
(* A use is bound once, to what the text says, although it is looked up    *)
(* again in every walk and in scopes that fill up between the walks.       *)
Lexical == INSTANCE LexicalScope
ImplementsScoping == Lexical!Spec

(* A symbol belongs to the first item of the text that declares it, also   *)
(* where later items declare it again, or assign it in unpacking a value.  *)
FirstDeclares ==
  \A k \in DOMAIN symbols : k[1] # 0 => symbols[k].item = Owner(prog, k[1], k[2])

(* The errors of a compilation are those of its text: declarations without *)
(* a new name, names unknown or never typed, imports of modules that do    *)
(* not exist or of the module itself.                                      *)
ErrorsExact == phase = "done" => errors = Wrong(prog)
=============================================================================
