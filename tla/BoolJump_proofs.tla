-------------------------- MODULE BoolJump_proofs --------------------------
(***************************************************************************)
(* Every jump of a condition lands, for conditions of any shape and size   *)
(* whose labels are emitted.                                               *)
(***************************************************************************)
EXTENDS BoolJump, SequenceTheorems, TLAPS

\* generate_ir_unary_expr emits no label of its own.  A condition stands when
\* it never needs one there: no operator with a logic operator of the other
\* kind on its left has a "!" on its right.
Stands(c) ==
  \A n \in DOMAIN c :
    /\ c[n] \in {"&&", "||"} /\ c[Left(n)] \in {"&&", "||"} /\ c[Left(n)] # c[n]
    => c[Right(n)] # "!"

-----------------------------------------------------------------------------
(* The inductive invariant.                                                *)

Path == Seq({"l", "r"})
Labels == Path \cup {Body, Else}

\* x is n or a node below it.
Under(n, x) == Len(n) <= Len(x) /\ \A k \in 1 .. Len(n) : x[k] = n[k]

\* A label that a comparison at or below n may jump to: an arm, or the right
\* operand of an operator on whose left side n is.
WayOut(c, s, l, n) ==
  \/ l \in {Body, Else}
  \/ \E m \in DOMAIN c : l = Right(m) /\ l \in DOMAIN c /\ l \in s /\ Under(Left(m), n)

LabelsInv ==
  /\ cond \in Conditions
  /\ calls \in Seq([node : DOMAIN cond, true : Labels, false : Labels])
  /\ \A k \in DOMAIN calls : /\ WayOut(cond, self, calls[k].true, calls[k].node)
                             /\ WayOut(cond, self, calls[k].false, calls[k].node)
  /\ DOMAIN target = DOMAIN cond
  /\ \A n \in DOMAIN cond : target[n] = NoLabel \/ WayOut(cond, self, target[n], n)
  /\ \A x \in self : x \in DOMAIN cond /\ Op(x) # "!"

\* The nodes still to generate: none is at or below another, and what follows
\* a left operand still holds the right one.
StackInv(c, ns) ==
  /\ ns \in Seq(DOMAIN c)
  /\ \A p, q \in DOMAIN ns : Under(ns[p], ns[q]) => p = q
  /\ \A p \in DOMAIN ns : \A m \in DOMAIN c :
       Right(m) \in DOMAIN c /\ Under(Left(m), ns[p]) =>
         \E q \in DOMAIN ns : q > p /\ ns[q] = Right(m)

\* The first k instructions: labels and tests of nodes that are not to be
\* generated again, no label twice, none before a comparison that may jump to
\* it, and none missing once its node is generated.
CodeInv(c, s, ns, cs, k) ==
  /\ \A i \in 1 .. k : \E x \in DOMAIN c : (cs[i] = Label(x) /\ x \in s) \/ cs[i] = Test(x)
  /\ \A i \in 1 .. k : \A p \in DOMAIN ns : ~ Under(ns[p], cs[i].at)
  /\ \A i, j \in 1 .. k : cs[i] = cs[j] /\ cs[i].op = "label" => i = j
  /\ \A i, j \in 1 .. k : \A x, m \in DOMAIN c :
       cs[i] = Test(x) /\ cs[j] = Label(Right(m)) /\ Under(Left(m), x) => i < j
  /\ \A x \in s : (\E p \in DOMAIN ns : Under(ns[p], x)) \/ \E i \in 1 .. k : cs[i] = Label(x)

Instruction == [op : {"label", "test", "arm"}, at : {"body", "else"} \cup Labels]

\* Where the code of the condition ends.
Front == IF Generated THEN Len(code) - 4 ELSE Len(code)

ArmsInv ==
  Generated => /\ Len(code) >= 4
               /\ \A i \in 1 .. 4 : code[Front + i] = Arms[i]

JumpsInv ==
  /\ LabelsInv
  /\ StackInv(cond, nodes)
  /\ code \in Seq(Instruction)
  /\ calls # <<>> => nodes = <<<<>>>> /\ code = <<>>
  /\ CodeInv(cond, self, nodes, code, Front)
  /\ ArmsInv

-----------------------------------------------------------------------------
(* Paths.                                                                  *)

LEMMA AppendFacts ==
  ASSUME NEW n \in Path, NEW a \in {"l", "r"}
  PROVE  /\ Append(n, a) \in Path
         /\ Len(n) \in Nat /\ Len(Append(n, a)) = Len(n) + 1
         /\ \A k \in 1 .. Len(n) : Append(n, a)[k] = n[k]
         /\ Append(n, a)[Len(n) + 1] = a
<1> n \in Seq({"l", "r"})  BY DEF Path
<1>1. Append(n, a) \in Seq({"l", "r"}) /\ Len(n) \in Nat /\ Len(Append(n, a)) = Len(n) + 1
  OBVIOUS
<1>2. \A k \in 1 .. Len(n) : Append(n, a)[k] = n[k]  OBVIOUS
<1>3. Append(n, a)[Len(n) + 1] = a  OBVIOUS
<1> QED  BY <1>1, <1>2, <1>3 DEF Path

LEMMA PathsEqual ==
  ASSUME NEW m \in Path, NEW n \in Path, Len(m) = Len(n), \A k \in 1 .. Len(m) : m[k] = n[k]
  PROVE  m = n
  BY SeqEqual DEF Path

LEMMA SameAppend ==
  ASSUME NEW m \in Path, NEW n \in Path, NEW a \in {"l", "r"}, NEW b \in {"l", "r"},
         Append(m, a) = Append(n, b)
  PROVE  m = n /\ a = b
<1> DEFINE s == Append(m, a)
<1>0. /\ Len(m) \in Nat /\ Len(s) = Len(m) + 1 /\ s[Len(m) + 1] = a
      /\ \A k \in 1 .. Len(m) : s[k] = m[k]
  BY AppendFacts
<1>1. /\ Len(n) \in Nat /\ Len(s) = Len(n) + 1 /\ s[Len(n) + 1] = b
      /\ \A k \in 1 .. Len(n) : s[k] = n[k]
  BY AppendFacts
<1> HIDE DEF s
<1>2. Len(m) = Len(n) /\ a = b /\ \A k \in 1 .. Len(m) : m[k] = n[k]
  BY <1>0, <1>1
<1>3. m = n  BY ONLY <1>2, PathsEqual, m \in Path, n \in Path
<1> QED  BY <1>2, <1>3

LEMMA UnderItself ==
  ASSUME NEW n \in Path
  PROVE  Under(n, n)
  BY DEF Path, Under

LEMMA UnderTrans ==
  ASSUME NEW x \in Path, NEW y \in Path, NEW z \in Path, Under(x, y), Under(y, z)
  PROVE  Under(x, z)
  BY DEF Path, Under

LEMMA UnderBoth ==
  ASSUME NEW x \in Path, NEW y \in Path, Under(x, y), Under(y, x)
  PROVE  x = y
<1>1. Len(x) = Len(y) /\ \A k \in 1 .. Len(x) : x[k] = y[k]
  BY DEF Path, Under
<1> QED  BY <1>1, SeqEqual DEF Path

LEMMA UnderOperand ==
  ASSUME NEW n \in Path, NEW a \in {"l", "r"}
  PROVE  Under(n, Append(n, a)) /\ ~ Under(Append(n, a), n)
  BY AppendFacts DEF Under

\* What is above an operand is above its operator, or is the operand.
LEMMA AboveOperand ==
  ASSUME NEW n \in Path, NEW x \in Path, NEW a \in {"l", "r"}, Under(x, Append(n, a))
  PROVE  x = Append(n, a) \/ Under(x, n)
<1>1. CASE Len(x) <= Len(n)
  BY <1>1, AppendFacts DEF Under, Path
<1>2. CASE ~ (Len(x) <= Len(n))
  <2>1. Len(x) = Len(Append(n, a)) /\ \A k \in 1 .. Len(x) : x[k] = Append(n, a)[k]
    BY <1>2, AppendFacts DEF Under, Path
  <2> QED  BY <2>1, SeqEqual, AppendFacts DEF Path
<1> QED  BY <1>1, <1>2

\* A left operand is above the operand of n only if n is below it or has it
\* for its own left operand.
LEMMA LeftAboveOperand ==
  ASSUME NEW n \in Path, NEW m \in Path, NEW a \in {"l", "r"},
         Under(Left(m), Append(n, a))
  PROVE  Under(Left(m), n) \/ (m = n /\ a = "l")
<1>1. Left(m) = Append(n, a) \/ Under(Left(m), n)
  BY AboveOperand, AppendFacts DEF Left
<1>2. ASSUME Append(m, "l") = Append(n, a) PROVE m = n /\ "l" = a
  <2>1. "l" \in {"l", "r"}  OBVIOUS
  <2> QED  BY <1>2, <2>1, SameAppend, Zenon
<1> QED  BY <1>1, <1>2 DEF Left

-----------------------------------------------------------------------------
(* Conditions.                                                             *)

LEMMA NodePaths ==
  ASSUME NEW c \in Conditions, NEW n \in DOMAIN c
  PROVE  /\ n \in Path /\ c[n] \in {"cmp", "!", "&&", "||"}
         /\ Left(n) \in Path /\ Right(n) \in Path
         /\ Operands(c, n) \subseteq DOMAIN c
  BY ConditionsAssumption, AppendFacts DEF Path, Left, Right

\* Every node but the root is an operand of the node above it.
LEMMA OperandOf ==
  ASSUME NEW c \in Conditions, NEW x \in DOMAIN c, NEW k \in 1 .. Len(x)
  PROVE  /\ SubSeq(x, 1, k - 1) \in DOMAIN c
         /\ SubSeq(x, 1, k) \in Operands(c, SubSeq(x, 1, k - 1))
  BY ConditionsAssumption

\* Only the nodes above x are prefixes of x.
LEMMA PrefixIs ==
  ASSUME NEW x \in Path, NEW h \in Path, Under(h, x)
  PROVE  SubSeq(x, 1, Len(h)) = h
<1>1. Len(h) \in Nat /\ Len(h) <= Len(x) /\ \A i \in 1 .. Len(h) : x[i] \in {"l", "r"}
  BY DEF Path, Under
<1>2. /\ SubSeq(x, 1, Len(h)) \in Path /\ Len(SubSeq(x, 1, Len(h))) = Len(h)
      /\ \A i \in 1 .. Len(h) : SubSeq(x, 1, Len(h))[i] = x[i]
  BY <1>1, SubSeqProperties DEF Path
<1> QED  BY <1>2, SeqEqual DEF Path, Under

\* A node below h is h or below an operand of h.
LEMMA BelowOperand ==
  ASSUME NEW c \in Conditions, NEW h \in DOMAIN c, NEW x \in DOMAIN c, Under(h, x), x # h
  PROVE  \E o \in Operands(c, h) : Under(o, x)
<1>0. x \in Path /\ h \in Path  BY NodePaths
<1>1. Len(h) \in Nat /\ Len(x) \in Nat /\ Len(h) < Len(x)
  <2>1. Len(h) <= Len(x) /\ Len(h) \in Nat /\ Len(x) \in Nat  BY <1>0 DEF Under, Path
  <2>2. ASSUME Len(h) = Len(x) PROVE FALSE
    BY <1>0, <2>2, SeqEqual DEF Under, Path
  <2> QED  BY <2>1, <2>2
<1> DEFINE k == Len(h) + 1
<1>2. k \in 1 .. Len(x) /\ k - 1 = Len(h)  BY <1>1
<1>3. SubSeq(x, 1, k) \in Operands(c, SubSeq(x, 1, k - 1))  BY <1>2, OperandOf
<1>4. SubSeq(x, 1, k) \in Operands(c, h)  BY <1>0, <1>2, <1>3, PrefixIs
<1>5. /\ Len(SubSeq(x, 1, k)) = k
      /\ \A i \in 1 .. k : SubSeq(x, 1, k)[i] = x[i]
  <2>1. \A i \in 1 .. k : x[i] \in {"l", "r"}  BY <1>0, <1>2 DEF Path
  <2> QED  BY <1>1, <1>2, <2>1, SubSeqProperties
<1>6. Under(SubSeq(x, 1, k), x)  BY <1>1, <1>2, <1>5 DEF Under
<1> QED  BY <1>4, <1>6

\* Only an operator with two operands has a right one.
LEMMA RightOf ==
  ASSUME NEW c \in Conditions, NEW m \in DOMAIN c, Right(m) \in DOMAIN c
  PROVE  c[m] \in {"&&", "||"}
<1>0. m \in Path /\ Right(m) \in Path  BY NodePaths
<1>1. Under(m, Right(m)) /\ Right(m) # m
  BY <1>0, UnderOperand, UnderItself DEF Right
<1>2. PICK o \in Operands(c, m) : Under(o, Right(m))  BY <1>1, BelowOperand
<1>3. c[m] # "cmp"  BY <1>2 DEF Operands
<1>4. ASSUME c[m] = "!" PROVE FALSE
  <2>1. Under(Left(m), Right(m))  BY <1>2, <1>4 DEF Operands
  <2>2. Under(Left(m), m)  BY <1>0, <2>1, LeftAboveOperand DEF Right
  <2> QED  BY <1>0, <2>2, UnderOperand DEF Left
<1> QED  BY <1>3, <1>4, NodePaths

\* The operands of an operator with two operands, and of "!".
LEMMA OperandsIn ==
  ASSUME NEW c \in Conditions, NEW n \in DOMAIN c
  PROVE  /\ c[n] \in {"&&", "||"} => Left(n) \in DOMAIN c /\ Right(n) \in DOMAIN c
         /\ c[n] = "!" => Left(n) \in DOMAIN c
  BY NodePaths DEF Operands

-----------------------------------------------------------------------------
(* Analysis: labels are handed down to where they may be jumped to.        *)

PendingCall == [node : DOMAIN cond, true : Labels, false : Labels]

LEMMA WayOutKept ==
  ASSUME NEW c, NEW s, NEW s1, NEW l, NEW n, s \subseteq s1, WayOut(c, s, l, n)
  PROVE  WayOut(c, s1, l, n)
  BY DEF WayOut

LEMMA WayOutBelow ==
  ASSUME NEW c \in Conditions, NEW s, NEW l, NEW n \in DOMAIN c, WayOut(c, s, l, n),
         NEW o \in DOMAIN c, o = Left(n) \/ o = Right(n)
  PROVE  WayOut(c, s, l, o)
<1>1. n \in Path /\ o \in Path /\ Under(n, o)
  BY NodePaths, UnderOperand DEF Left, Right
<1>2. ASSUME NEW m \in DOMAIN c, Under(Left(m), n) PROVE Under(Left(m), o)
  BY <1>1, <1>2, NodePaths, UnderTrans
<1> QED  BY <1>2 DEF WayOut

LEMMA WayOutRight ==
  ASSUME NEW c \in Conditions, NEW s, NEW n \in DOMAIN c, Right(n) \in DOMAIN c, Right(n) \in s
  PROVE  WayOut(c, s, Right(n), Left(n))
<1>1. Under(Left(n), Left(n))  BY NodePaths, UnderItself
<1> QED  BY <1>1 DEF WayOut

\* The calls that a node makes go before those still pending.
LEMMA ReturnKeeps ==
  ASSUME LabelsInv, calls # <<>>, NEW s, self \subseteq s, NEW cs \in Seq(PendingCall),
         \A k \in DOMAIN cs : /\ WayOut(cond, s, cs[k].true, cs[k].node)
                              /\ WayOut(cond, s, cs[k].false, cs[k].node)
  PROVE  /\ cs \o Tail(calls) \in Seq(PendingCall)
         /\ \A k \in DOMAIN (cs \o Tail(calls)) :
              /\ WayOut(cond, s, (cs \o Tail(calls))[k].true, (cs \o Tail(calls))[k].node)
              /\ WayOut(cond, s, (cs \o Tail(calls))[k].false, (cs \o Tail(calls))[k].node)
<1> DEFINE r == cs \o Tail(calls)
<1>0. calls \in Seq(PendingCall)  BY DEF LabelsInv, PendingCall
<1>1. /\ Tail(calls) \in Seq(PendingCall) /\ Len(Tail(calls)) = Len(calls) - 1
      /\ \A i \in 1 .. Len(Tail(calls)) : Tail(calls)[i] = calls[i + 1]
  BY <1>0, HeadTailProperties
<1>2. /\ r \in Seq(PendingCall) /\ Len(r) = Len(cs) + Len(Tail(calls))
      /\ \A i \in 1 .. Len(r) : r[i] = IF i <= Len(cs) THEN cs[i] ELSE Tail(calls)[i - Len(cs)]
  BY <1>1, ConcatProperties
<1>3. Len(calls) \in Nat /\ Len(cs) \in Nat /\ DOMAIN cs = 1 .. Len(cs)
      /\ DOMAIN calls = 1 .. Len(calls) /\ DOMAIN r = 1 .. Len(r) /\ calls # <<>>
  BY <1>0, <1>2, LenProperties
<1>4. ASSUME NEW k \in DOMAIN r
      PROVE  WayOut(cond, s, r[k].true, r[k].node) /\ WayOut(cond, s, r[k].false, r[k].node)
  <2>1. CASE k <= Len(cs)  BY <1>2, <1>3, <2>1
  <2>2. CASE ~ (k <= Len(cs))
    <3>1. PICK j \in DOMAIN calls : r[k] = calls[j]
      <4>1. k - Len(cs) \in 1 .. Len(Tail(calls)) /\ r[k] = Tail(calls)[k - Len(cs)]
        BY <1>1, <1>2, <1>3, <2>2
      <4>2. k - Len(cs) + 1 \in DOMAIN calls /\ r[k] = calls[k - Len(cs) + 1]
        BY <1>1, <1>3, <4>1
      <4> QED  BY <4>2
    <3>2. WayOut(cond, self, calls[j].true, calls[j].node)
          /\ WayOut(cond, self, calls[j].false, calls[j].node)
      BY DEF LabelsInv
    <3> QED  BY <3>1, <3>2, WayOutKept
  <2> QED  BY <2>1, <2>2
<1> QED  BY <1>2, <1>4

\* What the call being served knows.
LEMMA HeadFacts ==
  ASSUME LabelsInv, calls # <<>>
  PROVE  /\ cond \in Conditions
         /\ Node \in DOMAIN cond /\ TrueLabel \in Labels /\ FalseLabel \in Labels
         /\ WayOut(cond, self, TrueLabel, Node) /\ WayOut(cond, self, FalseLabel, Node)
<1>0. calls \in Seq(PendingCall)  BY DEF LabelsInv, PendingCall
<1>1. 1 \in DOMAIN calls /\ Head(calls) = calls[1] /\ calls[1] \in PendingCall
  BY <1>0
<1>2. WayOut(cond, self, calls[1].true, calls[1].node)
      /\ WayOut(cond, self, calls[1].false, calls[1].node)
  BY <1>1 DEF LabelsInv
<1> QED  BY <1>1, <1>2 DEF Node, TrueLabel, FalseLabel, LabelsInv, PendingCall

\* A node's target and the labels asked for are set within the invariant.
LEMMA TargetKeeps ==
  ASSUME LabelsInv, NEW s, self \subseteq s, NEW n \in DOMAIN cond, NEW l,
         WayOut(cond, s, l, n), NEW t, t = [target EXCEPT ![n] = l]
  PROVE  /\ DOMAIN t = DOMAIN cond
         /\ \A x \in DOMAIN cond : t[x] = NoLabel \/ WayOut(cond, s, t[x], x)
<1>1. ASSUME NEW x \in DOMAIN cond PROVE t[x] = NoLabel \/ WayOut(cond, s, t[x], x)
  <2>1. t[x] = IF x = n THEN l ELSE target[x]  BY DEF LabelsInv
  <2>2. target[x] = NoLabel \/ WayOut(cond, s, target[x], x)  BY WayOutKept DEF LabelsInv
  <2> QED  BY <2>1, <2>2
<1> QED  BY <1>1 DEF LabelsInv

LEMMA TargetsKept ==
  ASSUME LabelsInv, NEW s, self \subseteq s
  PROVE  /\ DOMAIN target = DOMAIN cond
         /\ \A x \in DOMAIN cond : target[x] = NoLabel \/ WayOut(cond, s, target[x], x)
  BY WayOutKept DEF LabelsInv

\* The calls for the operands of "&&" and "||".
LEMMA OperandCallsKeep ==
  ASSUME LabelsInv, calls # <<>>, Op(Node) \in {"&&", "||"}, NEW s, self \subseteq s,
         NEW t \in Labels, NEW f \in Labels,
         WayOut(cond, s, t, Left(Node)), WayOut(cond, s, f, Left(Node)),
         OperandCalls(Call(Left(Node), t, f))
  PROVE  /\ calls' \in Seq(PendingCall)
         /\ \A k \in DOMAIN calls' : /\ WayOut(cond, s, (calls')[k].true, (calls')[k].node)
                                     /\ WayOut(cond, s, (calls')[k].false, (calls')[k].node)
<1> DEFINE left == Call(Left(Node), t, f)
           right == Call(Right(Node), TrueLabel, FalseLabel)
           cs == (IF IsLogic(Left(Node)) THEN <<left>> ELSE <<>>) \o <<right>>
<1>0. Node \in DOMAIN cond /\ Left(Node) \in DOMAIN cond /\ Right(Node) \in DOMAIN cond
      /\ cond \in Conditions
  BY HeadFacts, OperandsIn DEF Op
<1>1. left \in PendingCall /\ right \in PendingCall
  BY <1>0, HeadFacts DEF Call, PendingCall
<1>2. /\ WayOut(cond, s, right.true, right.node) /\ WayOut(cond, s, right.false, right.node)
      /\ WayOut(cond, s, left.true, left.node) /\ WayOut(cond, s, left.false, left.node)
  BY <1>0, HeadFacts, WayOutKept, WayOutBelow DEF Call
<1> HIDE DEF left, right
<1> DEFINE first == IF IsLogic(Left(Node)) THEN <<left>> ELSE <<>>
<1>3. /\ first \in Seq(PendingCall) /\ Len(first) \in {0, 1}
      /\ \A k \in 1 .. Len(first) : first[k] = left
  BY <1>1
<1>4. cs \in Seq(PendingCall) /\ \A k \in DOMAIN cs : cs[k] \in {left, right}
  <2>1. <<right>> \in Seq(PendingCall) /\ Len(<<right>>) = 1 /\ <<right>>[1] = right
    BY <1>1
  <2>2. cs \in Seq(PendingCall) /\ Len(cs) = Len(first) + 1
        /\ \A k \in 1 .. Len(first) + 1 :
             cs[k] = IF k <= Len(first) THEN first[k] ELSE <<right>>[k - Len(first)]
    BY <1>3, <2>1, ConcatProperties
  <2>3. DOMAIN cs = 1 .. Len(first) + 1  BY <2>2, LenProperties
  <2> QED  BY <1>3, <2>1, <2>2, <2>3
<1> HIDE DEF cs
<1>5. \A k \in DOMAIN cs : /\ WayOut(cond, s, cs[k].true, cs[k].node)
                           /\ WayOut(cond, s, cs[k].false, cs[k].node)
  BY <1>2, <1>4
<1>6. calls' = cs \o Tail(calls)
  BY DEF cs, left, right, OperandCalls, Return
<1> QED  BY <1>4, <1>5, <1>6, ReturnKeeps
-----------------------------------------------------------------------------
(* The steps of the analysis.                                              *)

\* Until generation begins, nothing is emitted and the whole condition waits.
LEMMA AnalysisKeeps ==
  ASSUME JumpsInv, calls # <<>>, LabelsInv', UNCHANGED <<cond, nodes, code>>
  PROVE  JumpsInv'
<1>1. nodes = <<<<>>>> /\ code = <<>> /\ cond \in Conditions  BY DEF JumpsInv, LabelsInv
<1>2. ~ Generated' /\ Front' = 0  BY <1>1 DEF Generated, GeneratedCond, Front
<1>3. CodeInv(cond, self, nodes, code, 0)'
  <2>1. 1 \in DOMAIN nodes /\ \A x \in Path : Under(nodes[1], x)
    BY <1>1 DEF Under, Path
  <2>2. self' \subseteq Path  BY NodePaths DEF LabelsInv
  <2> QED  BY <1>1, <2>1, <2>2 DEF CodeInv
<1>4. CodeInv(cond, self, nodes, code, Front)'  BY <1>2, <1>3
<1>5. StackInv(cond, nodes)' /\ (code \in Seq(Instruction))'
      /\ (calls # <<>> => nodes = <<<<>>>> /\ code = <<>>)'
  BY <1>1 DEF JumpsInv
<1> QED  BY <1>2, <1>4, <1>5 DEF JumpsInv, ArmsInv

LEMMA AndKeeps ==
  ASSUME JumpsInv, \A c \in Conditions : Stands(c), DistributeAnd
  PROVE  LabelsInv'
<1> DEFINE right == IF NeedsRightLabel("||") THEN Right(Node) ELSE TrueLabel
<1>0. LabelsInv /\ calls # <<>> /\ Op(Node) = "&&" /\ cond' = cond
      /\ self' = self \cup (IF NeedsRightLabel("||") THEN {Right(Node)} ELSE {})
      /\ target' = [target EXCEPT ![Left(Node)] = FalseLabel]
      /\ OperandCalls(Call(Left(Node), right, FalseLabel))
  BY DEF JumpsInv, DistributeAnd, SetTarget, LabelRight
<1>1. Node \in DOMAIN cond /\ Left(Node) \in DOMAIN cond /\ Right(Node) \in DOMAIN cond
      /\ cond \in Conditions
  BY <1>0, HeadFacts, OperandsIn DEF Op
<1>2. self \subseteq self'  BY <1>0
<1>3. right \in Labels /\ WayOut(cond, self', right, Left(Node))
  <2>1. CASE NeedsRightLabel("||")
    <3>1. Right(Node) \in self'  BY <1>0, <2>1
    <3>2. Right(Node) \in Labels  BY <1>1, NodePaths DEF Labels
    <3> QED  BY <1>1, <2>1, <3>1, <3>2, WayOutRight
  <2>2. CASE ~ NeedsRightLabel("||")
    BY <1>0, <1>1, <1>2, <2>2, HeadFacts, WayOutBelow, WayOutKept
  <2> QED  BY <2>1, <2>2
<1>4. FalseLabel \in Labels /\ WayOut(cond, self', FalseLabel, Left(Node))
  BY <1>0, <1>1, <1>2, HeadFacts, WayOutBelow, WayOutKept
<1> HIDE DEF right
<1>5. /\ calls' \in Seq(PendingCall)
      /\ \A k \in DOMAIN calls' : /\ WayOut(cond, self', (calls')[k].true, (calls')[k].node)
                                  /\ WayOut(cond, self', (calls')[k].false, (calls')[k].node)
  BY <1>0, <1>2, <1>3, <1>4, OperandCallsKeep
<1>6. /\ DOMAIN target' = DOMAIN cond
      /\ \A x \in DOMAIN cond : (target')[x] = NoLabel \/ WayOut(cond, self', (target')[x], x)
  BY <1>0, <1>1, <1>2, <1>4, TargetKeeps
<1>7. \A x \in self' : x \in DOMAIN cond /\ Op(x) # "!"
  <2>1. NeedsRightLabel("||") => Op(Right(Node)) # "!"
    BY <1>0, <1>1 DEF NeedsRightLabel, IsLogic, Op, Stands
  <2> QED  BY <1>0, <1>1, <2>1 DEF LabelsInv
<1> QED  BY <1>0, <1>1, <1>5, <1>6, <1>7 DEF LabelsInv, PendingCall, Op

LEMMA OrKeeps ==
  ASSUME JumpsInv, \A c \in Conditions : Stands(c), DistributeOr
  PROVE  LabelsInv'
<1> DEFINE right == IF NeedsRightLabel("&&") THEN Right(Node) ELSE FalseLabel
<1>0. LabelsInv /\ calls # <<>> /\ Op(Node) = "||" /\ cond' = cond
      /\ self' = self \cup (IF NeedsRightLabel("&&") THEN {Right(Node)} ELSE {})
      /\ target' = [target EXCEPT ![Left(Node)] = TrueLabel]
      /\ OperandCalls(Call(Left(Node), TrueLabel, right))
  BY DEF JumpsInv, DistributeOr, SetTarget, LabelRight
<1>1. Node \in DOMAIN cond /\ Left(Node) \in DOMAIN cond /\ Right(Node) \in DOMAIN cond
      /\ cond \in Conditions
  BY <1>0, HeadFacts, OperandsIn DEF Op
<1>2. self \subseteq self'  BY <1>0
<1>3. right \in Labels /\ WayOut(cond, self', right, Left(Node))
  <2>1. CASE NeedsRightLabel("&&")
    <3>1. Right(Node) \in self'  BY <1>0, <2>1
    <3>2. Right(Node) \in Labels  BY <1>1, NodePaths DEF Labels
    <3> QED  BY <1>1, <2>1, <3>1, <3>2, WayOutRight
  <2>2. CASE ~ NeedsRightLabel("&&")
    BY <1>0, <1>1, <1>2, <2>2, HeadFacts, WayOutBelow, WayOutKept
  <2> QED  BY <2>1, <2>2
<1>4. TrueLabel \in Labels /\ WayOut(cond, self', TrueLabel, Left(Node))
  BY <1>0, <1>1, <1>2, HeadFacts, WayOutBelow, WayOutKept
<1> HIDE DEF right
<1>5. /\ calls' \in Seq(PendingCall)
      /\ \A k \in DOMAIN calls' : /\ WayOut(cond, self', (calls')[k].true, (calls')[k].node)
                                  /\ WayOut(cond, self', (calls')[k].false, (calls')[k].node)
  BY <1>0, <1>2, <1>3, <1>4, OperandCallsKeep
<1>6. /\ DOMAIN target' = DOMAIN cond
      /\ \A x \in DOMAIN cond : (target')[x] = NoLabel \/ WayOut(cond, self', (target')[x], x)
  BY <1>0, <1>1, <1>2, <1>4, TargetKeeps
<1>7. \A x \in self' : x \in DOMAIN cond /\ Op(x) # "!"
  <2>1. NeedsRightLabel("&&") => Op(Right(Node)) # "!"
    BY <1>0, <1>1 DEF NeedsRightLabel, IsLogic, Op, Stands
  <2> QED  BY <1>0, <1>1, <2>1 DEF LabelsInv
<1> QED  BY <1>0, <1>1, <1>5, <1>6, <1>7 DEF LabelsInv, PendingCall, Op

LEMMA NotKeeps ==
  ASSUME JumpsInv, DistributeNot
  PROVE  LabelsInv'
<1>0. LabelsInv /\ calls # <<>> /\ Op(Node) = "!" /\ cond' = cond /\ self' = self
      /\ Return(IF IsLogic(Left(Node)) THEN <<Call(Left(Node), FalseLabel, TrueLabel)>> ELSE <<>>)
      /\ (target' = [target EXCEPT ![Left(Node)] = FalseLabel] \/ target' = target)
  BY DEF JumpsInv, DistributeNot, SetTarget
<1>1. Node \in DOMAIN cond /\ Left(Node) \in DOMAIN cond /\ cond \in Conditions
  BY <1>0, HeadFacts, OperandsIn DEF Op
<1>2. /\ WayOut(cond, self, TrueLabel, Left(Node)) /\ TrueLabel \in Labels
      /\ WayOut(cond, self, FalseLabel, Left(Node)) /\ FalseLabel \in Labels
  BY <1>0, <1>1, HeadFacts, WayOutBelow
<1> DEFINE left == Call(Left(Node), FalseLabel, TrueLabel)
           cs == IF IsLogic(Left(Node)) THEN <<left>> ELSE <<>>
<1>3. left \in PendingCall
      /\ WayOut(cond, self, left.true, left.node) /\ WayOut(cond, self, left.false, left.node)
  BY <1>1, <1>2 DEF Call, PendingCall
<1> HIDE DEF left
<1>4. cs \in Seq(PendingCall) /\ \A k \in DOMAIN cs : cs[k] = left
  BY <1>3
<1> HIDE DEF cs
<1>5. calls' = cs \o Tail(calls)  BY <1>0 DEF cs, left, Return
<1>6. /\ calls' \in Seq(PendingCall)
      /\ \A k \in DOMAIN calls' : /\ WayOut(cond, self, (calls')[k].true, (calls')[k].node)
                                  /\ WayOut(cond, self, (calls')[k].false, (calls')[k].node)
  BY <1>0, <1>3, <1>4, <1>5, ReturnKeeps
<1>7. /\ DOMAIN target' = DOMAIN cond
      /\ \A x \in DOMAIN cond : (target')[x] = NoLabel \/ WayOut(cond, self, (target')[x], x)
  BY <1>0, <1>1, <1>2, TargetKeeps, TargetsKept
<1> QED  BY <1>0, <1>1, <1>6, <1>7 DEF LabelsInv, PendingCall, Op

LEMMA CmpKeeps ==
  ASSUME JumpsInv, DistributeCmp
  PROVE  LabelsInv'
<1>0. LabelsInv /\ calls # <<>> /\ cond' = cond /\ self' = self
      /\ calls' = <<>> \o Tail(calls) /\ target' = [target EXCEPT ![Node] = FalseLabel]
  BY DEF JumpsInv, DistributeCmp, SetTarget, Return
<1>1. Node \in DOMAIN cond /\ WayOut(cond, self, FalseLabel, Node) /\ cond \in Conditions
  BY <1>0, HeadFacts
<1>2. <<>> \in Seq(PendingCall) /\ DOMAIN <<>> = {}  OBVIOUS
<1>3. /\ calls' \in Seq(PendingCall)
      /\ \A k \in DOMAIN calls' : /\ WayOut(cond, self, (calls')[k].true, (calls')[k].node)
                                  /\ WayOut(cond, self, (calls')[k].false, (calls')[k].node)
  BY <1>0, <1>2, ReturnKeeps
<1>4. /\ DOMAIN target' = DOMAIN cond
      /\ \A x \in DOMAIN cond : (target')[x] = NoLabel \/ WayOut(cond, self, (target')[x], x)
  BY <1>0, <1>1, TargetKeeps
<1> QED  BY <1>0, <1>1, <1>3, <1>4 DEF LabelsInv, PendingCall, Op

LEMMA AnalyseKeeps ==
  ASSUME JumpsInv, \A c \in Conditions : Stands(c), Analyse
  PROVE  JumpsInv'
<1>1. calls # <<>> /\ UNCHANGED <<cond, nodes, code>>
  BY DEF Analyse, DistributeAnd, DistributeOr, DistributeNot, DistributeCmp
<1>2. LabelsInv'
  BY AndKeeps, OrKeeps, NotKeeps, CmpKeeps DEF Analyse
<1> QED  BY <1>1, <1>2, AnalysisKeeps

-----------------------------------------------------------------------------
(* Generation: a node makes way for its operands, the rest waits.          *)

LEMMA InstructionFacts ==
  ASSUME NEW x
  PROVE  /\ Label(x).op = "label" /\ Label(x).at = x
         /\ Test(x).op = "test" /\ Test(x).at = x
         /\ Arm(x).op = "arm"
  BY DEF Label, Test, Arm

LEMMA OperandIs ==
  ASSUME NEW c \in Conditions, NEW h \in DOMAIN c, NEW o \in Operands(c, h)
  PROVE  /\ o \in DOMAIN c /\ o \in Path
         /\ \E a \in {"l", "r"} : o = Append(h, a)
         /\ Under(h, o) /\ ~ Under(o, h)
<1>1. o \in DOMAIN c /\ o \in Path /\ h \in Path  BY NodePaths
<1>2. PICK a \in {"l", "r"} : o = Append(h, a)  BY NodePaths DEF Operands, Left, Right
<1> QED  BY <1>1, <1>2, UnderOperand

\* The positions of new \o Tail(ns).
LEMMA PushFacts ==
  ASSUME NEW S, NEW ns \in Seq(S), ns # <<>>, NEW new \in Seq(S)
  PROVE  /\ new \o Tail(ns) \in Seq(S)
         /\ DOMAIN (new \o Tail(ns)) = 1 .. Len(new) + Len(ns) - 1
         /\ Len(new) \in Nat /\ Len(ns) \in Nat /\ Len(ns) > 0
         /\ DOMAIN new = 1 .. Len(new) /\ DOMAIN ns = 1 .. Len(ns)
         /\ \A p \in 1 .. Len(new) : (new \o Tail(ns))[p] = new[p]
         /\ \A p \in 2 .. Len(ns) : (new \o Tail(ns))[Len(new) + p - 1] = ns[p]
<1> DEFINE r == new \o Tail(ns)
<1>1. /\ Tail(ns) \in Seq(S) /\ Len(Tail(ns)) = Len(ns) - 1
      /\ \A i \in 1 .. Len(Tail(ns)) : Tail(ns)[i] = ns[i + 1]
  BY HeadTailProperties
<1>2. /\ r \in Seq(S) /\ Len(r) = Len(new) + Len(Tail(ns))
      /\ \A i \in 1 .. Len(new) + Len(Tail(ns)) :
           r[i] = IF i <= Len(new) THEN new[i] ELSE Tail(ns)[i - Len(new)]
  BY <1>1, ConcatProperties
<1>3. Len(ns) \in Nat /\ Len(ns) > 0 /\ Len(new) \in Nat
      /\ DOMAIN new = 1 .. Len(new) /\ DOMAIN ns = 1 .. Len(ns) /\ DOMAIN r = 1 .. Len(r)
  BY <1>2, LenProperties, EmptySeq
<1> HIDE DEF r
<1>4. \A p \in 1 .. Len(new) : r[p] = new[p]  BY <1>1, <1>2, <1>3
<1>5. ASSUME NEW p \in 2 .. Len(ns) PROVE r[Len(new) + p - 1] = ns[p]
  <2>1. p - 1 \in 1 .. Len(Tail(ns)) /\ (p - 1) + 1 = p  BY <1>1, <1>3
  <2>2. Tail(ns)[p - 1] = ns[p]  BY <1>1, <2>1
  <2>3. r[Len(new) + p - 1] = Tail(ns)[(Len(new) + p - 1) - Len(new)]
    BY <1>1, <1>2, <1>3, <2>1, SMTT(30)
  <2>4. (Len(new) + p - 1) - Len(new) = p - 1  BY <1>3
  <2> QED  BY <2>2, <2>3, <2>4
<1>6. DOMAIN r = 1 .. Len(new) + Len(ns) - 1  BY <1>1, <1>2, <1>3
<1> QED  BY <1>2, <1>3, <1>4, <1>5, <1>6 DEF r

LEMMA StackKeeps ==
  ASSUME NEW c \in Conditions, NEW ns, StackInv(c, ns), ns # <<>>, NEW h, h = ns[1],
         NEW new \in Seq(Operands(c, h)),
         \A p, q \in DOMAIN new : Under(new[p], new[q]) => p = q,
         \A p \in DOMAIN new : new[p] = Left(h) /\ Right(h) \in DOMAIN c =>
           \E q \in DOMAIN new : q > p /\ new[q] = Right(h)
  PROVE  StackInv(c, new \o Tail(ns))
<1> DEFINE r == new \o Tail(ns)
           k == Len(new)
<1>0. ns \in Seq(DOMAIN c) /\ h \in DOMAIN c
  BY DEF StackInv
<1>1. new \in Seq(DOMAIN c)
  <2>1. Operands(c, h) \subseteq DOMAIN c  BY <1>0, NodePaths
  <2> QED  BY <2>1, SeqMonotonic
<1>2. /\ r \in Seq(DOMAIN c)
      /\ DOMAIN r = 1 .. k + Len(ns) - 1
      /\ k \in Nat /\ Len(ns) \in Nat /\ Len(ns) > 0
      /\ DOMAIN new = 1 .. k /\ DOMAIN ns = 1 .. Len(ns)
      /\ \A p \in 1 .. k : r[p] = new[p]
      /\ \A p \in 2 .. Len(ns) : r[k + p - 1] = ns[p]
  BY <1>0, <1>1, PushFacts
<1> HIDE DEF r, k
<1>3. \A p \in DOMAIN r : p \in 1 .. k \/ (p > k /\ p - k + 1 \in 2 .. Len(ns) /\ r[p] = ns[p - k + 1])
  <2> TAKE p \in DOMAIN r
  <2>1. CASE p > k
    <3>1. p - k + 1 \in 2 .. Len(ns) /\ k + (p - k + 1) - 1 = p  BY <1>2, <2>1
    <3>2. r[k + (p - k + 1) - 1] = ns[p - k + 1]  BY <1>2, <3>1
    <3> QED  BY <2>1, <3>1, <3>2
  <2> QED  BY <1>2, <2>1
<1>4. \A p \in 1 .. k : new[p] \in Operands(c, h)  BY ElementOfSeq DEF k
<1>5. h \in Path /\ \A p \in 1 .. Len(ns) : ns[p] \in Path  BY <1>0, <1>2, NodePaths
<1>6. \A p, q \in DOMAIN ns : Under(ns[p], ns[q]) => p = q  BY DEF StackInv
<1>7. ASSUME NEW j \in 2 .. Len(ns)
      PROVE  ns[j] \in Path /\ ~ Under(h, ns[j]) /\ ~ Under(ns[j], h)
  <2>1. 1 \in DOMAIN ns /\ j \in DOMAIN ns /\ j # 1 /\ j \in 1 .. Len(ns)  BY <1>2
  <2>2. ~ Under(ns[1], ns[j]) /\ ~ Under(ns[j], ns[1])  BY <1>6, <2>1
  <2> QED  BY <1>5, <2>1, <2>2
<1>8. ASSUME NEW p \in DOMAIN r, NEW q \in DOMAIN r, Under(r[p], r[q]) PROVE p = q
  <2>1. CASE p \in 1 .. k /\ q \in 1 .. k  BY <1>2, <1>8, <2>1
  <2>2. CASE p \in 1 .. k /\ ~ (q \in 1 .. k)
    <3>1. PICK j \in 2 .. Len(ns) : r[q] = ns[j]  BY <1>3, <2>2
    <3>2. r[p] = new[p] /\ new[p] \in Path /\ Under(h, new[p])  BY <1>0, <1>2, <1>4, <2>2, OperandIs
    <3>3. Under(new[p], ns[j])  BY <1>8, <3>1, <3>2
    <3> QED  BY <1>5, <1>7, <3>2, <3>3, UnderTrans
  <2>3. CASE ~ (p \in 1 .. k) /\ q \in 1 .. k
    <3>1. PICK j \in 2 .. Len(ns) : r[p] = ns[j]  BY <1>3, <2>3
    <3>2. r[q] = new[q] /\ Under(h, new[q])  BY <1>0, <1>2, <1>4, <2>3, OperandIs
    <3>3. PICK a \in {"l", "r"} : new[q] = Append(h, a)  BY <1>0, <1>4, <2>3, OperandIs
    <3>4. Under(ns[j], Append(h, a))  BY <1>8, <3>1, <3>2, <3>3
    <3>5. ns[j] = Append(h, a) \/ Under(ns[j], h)  BY <1>5, <1>7, <3>4, AboveOperand
    <3> QED  BY <1>7, <3>2, <3>3, <3>5
  <2>4. CASE ~ (p \in 1 .. k) /\ ~ (q \in 1 .. k)
    <3>1. p - k + 1 \in DOMAIN ns /\ q - k + 1 \in DOMAIN ns
          /\ Under(ns[p - k + 1], ns[q - k + 1])
      BY <1>2, <1>3, <1>8, <2>4
    <3>2. p - k + 1 = q - k + 1  BY <1>6, <3>1
    <3> QED  BY <1>2, <3>2
  <2> QED  BY <2>1, <2>2, <2>3, <2>4
<1>9. ASSUME NEW p \in DOMAIN r, NEW m \in DOMAIN c, Right(m) \in DOMAIN c, Under(Left(m), r[p])
      PROVE  \E q \in DOMAIN r : q > p /\ r[q] = Right(m)
  <2>0. \A j \in DOMAIN ns : Under(Left(m), ns[j]) =>
          \E q \in DOMAIN ns : q > j /\ ns[q] = Right(m)
    BY <1>9 DEF StackInv
  <2>1. CASE p \in 1 .. k
    <3>1. r[p] = new[p] /\ new[p] \in Operands(c, h)  BY <1>2, <1>4, <2>1
    <3>2. PICK a \in {"l", "r"} : new[p] = Append(h, a)  BY <1>0, <3>1, OperandIs
    <3>3. Under(Left(m), h) \/ (m = h /\ a = "l")
      BY <1>5, <1>9, <3>1, <3>2, LeftAboveOperand, NodePaths
    <3>4. CASE Under(Left(m), h)
      <4>1. PICK q \in DOMAIN ns : q > 1 /\ ns[q] = Right(m)  BY <1>2, <2>0, <3>4
      <4>2. k + q - 1 \in DOMAIN r /\ k + q - 1 > p /\ r[k + q - 1] = Right(m)
        BY <1>2, <2>1, <4>1
      <4> QED  BY <4>2
    <3>5. CASE m = h /\ a = "l"
      <4>1. new[p] = Left(h)  BY <3>2, <3>5 DEF Left
      <4>2. PICK q \in DOMAIN new : q > p /\ new[q] = Right(h)  BY <1>2, <1>9, <2>1, <3>5, <4>1
      <4> QED  BY <1>2, <3>5, <4>2
    <3> QED  BY <3>3, <3>4, <3>5
  <2>2. CASE ~ (p \in 1 .. k)
    <3> DEFINE j == p - k + 1
    <3>1. j \in DOMAIN ns /\ r[p] = ns[j]  BY <1>2, <1>3, <2>2
    <3>2. PICK q \in DOMAIN ns : q > j /\ ns[q] = Right(m)  BY <1>9, <2>0, <3>1
    <3>3. k + q - 1 \in DOMAIN r /\ k + q - 1 > p /\ r[k + q - 1] = Right(m)
      BY <1>2, <1>3, <2>2, <3>1, <3>2
    <3> QED  BY <3>3
  <2> QED  BY <2>1, <2>2
<1> QED  BY <1>2, <1>8, <1>9 DEF StackInv, r

\* The instructions of one node, after k others: its label, if it has one,
\* and a test.
Emits(s, h, cs, k, cs1, k1) ==
  /\ k \in Nat /\ k1 \in Nat /\ k <= k1
  /\ \A i \in 1 .. k : cs1[i] = cs[i]
  /\ \A i \in k + 1 .. k1 : \/ cs1[i] = Test(h)
                            \/ cs1[i] = Label(h) /\ i = k + 1 /\ h \in s
  /\ h \in s => k < k1 /\ cs1[k + 1] = Label(h)

\* The operands of h take its place.
Replaces(c, h, ns, ns1) ==
  /\ \A p \in DOMAIN ns1 : \/ ns1[p] \in Operands(c, h)
                           \/ \E j \in DOMAIN ns : j > 1 /\ ns1[p] = ns[j]
  /\ \A o \in Operands(c, h) : \E p \in DOMAIN ns1 : ns1[p] = o
  /\ \A j \in DOMAIN ns : j > 1 => \E p \in DOMAIN ns1 : ns1[p] = ns[j]

LEMMA CodeKeeps ==
  ASSUME NEW c \in Conditions, NEW s \in SUBSET DOMAIN c, NEW ns, NEW cs, NEW k,
         StackInv(c, ns), 1 \in DOMAIN ns, CodeInv(c, s, ns, cs, k),
         NEW h, h = ns[1], NEW ns1, NEW cs1, NEW k1,
         Emits(s, h, cs, k, cs1, k1), Replaces(c, h, ns, ns1)
  PROVE  CodeInv(c, s, ns1, cs1, k1)
<1>0. h \in DOMAIN c /\ h \in Path /\ \A j \in DOMAIN ns : ns[j] \in DOMAIN c /\ ns[j] \in Path
  BY NodePaths DEF StackInv
<1>1. /\ k \in Nat /\ k1 \in Nat /\ k <= k1
      /\ \A i \in 1 .. k : cs1[i] = cs[i]
      /\ \A i \in k + 1 .. k1 : cs1[i] = Test(h) \/ (cs1[i] = Label(h) /\ i = k + 1 /\ h \in s)
      /\ h \in s => k < k1 /\ cs1[k + 1] = Label(h)
  BY DEF Emits
<1>2. \A i \in 1 .. k1 : i \in 1 .. k \/ i \in k + 1 .. k1  BY <1>1
<1>3. \A i \in 1 .. k : /\ \E x \in DOMAIN c : (cs[i] = Label(x) /\ x \in s) \/ cs[i] = Test(x)
                        /\ cs[i].at \in DOMAIN c /\ cs[i].at \in Path
                        /\ \A p \in DOMAIN ns : ~ Under(ns[p], cs[i].at)
  BY NodePaths, InstructionFacts DEF CodeInv
<1>4. \A i \in k + 1 .. k1 : cs1[i].at = h  BY <1>1, InstructionFacts
<1>5. \A i \in 1 .. k : cs[i].at # h  BY <1>0, <1>3, UnderItself
<1>6. ASSUME NEW i \in 1 .. k1
      PROVE  \E x \in DOMAIN c : (cs1[i] = Label(x) /\ x \in s) \/ cs1[i] = Test(x)
  BY <1>0, <1>1, <1>2, <1>3
<1>7. ASSUME NEW i \in 1 .. k1, NEW p \in DOMAIN ns1
      PROVE  ~ Under(ns1[p], cs1[i].at)
  <2>1. CASE i \in 1 .. k
    <3>1. CASE ns1[p] \in Operands(c, h)
      <4>1. Under(h, ns1[p]) /\ ns1[p] \in Path  BY <1>0, <3>1, OperandIs
      <4>2. ~ Under(h, cs[i].at)  BY <1>3, <2>1
      <4>3. ~ Under(ns1[p], cs[i].at)  BY <1>0, <1>3, <2>1, <4>1, <4>2, UnderTrans
      <4> QED  BY <1>1, <2>1, <4>3
    <3>2. CASE \E j \in DOMAIN ns : j > 1 /\ ns1[p] = ns[j]  BY <1>1, <1>3, <2>1, <3>2
    <3> QED  BY <3>1, <3>2 DEF Replaces
  <2>2. CASE i \in k + 1 .. k1
    <3>1. CASE ns1[p] \in Operands(c, h)
      <4>1. ~ Under(ns1[p], h)  BY <1>0, <3>1, OperandIs
      <4> QED  BY <1>4, <2>2, <4>1
    <3>2. CASE \E j \in DOMAIN ns : j > 1 /\ ns1[p] = ns[j]
      <4>1. PICK j \in DOMAIN ns : j > 1 /\ ns1[p] = ns[j]  BY <3>2
      <4>2. ~ Under(ns[j], ns[1])  BY <4>1 DEF StackInv
      <4> QED  BY <1>4, <2>2, <4>1, <4>2
    <3> QED  BY <3>1, <3>2 DEF Replaces
  <2> QED  BY <1>2, <2>1, <2>2
<1>8. ASSUME NEW i \in 1 .. k1, NEW j \in 1 .. k1, cs1[i] = cs1[j], cs1[i].op = "label"
      PROVE  i = j
  <2>1. CASE i \in 1 .. k /\ j \in 1 .. k
    <3>1. cs[i] = cs[j] /\ cs[i].op = "label"  BY <1>1, <1>8, <2>1
    <3> QED  BY <2>1, <3>1 DEF CodeInv
  <2>2. CASE i \in k + 1 .. k1 /\ j \in k + 1 .. k1
    BY <1>1, <1>8, <2>2, InstructionFacts
  <2>3. CASE i \in 1 .. k /\ j \in k + 1 .. k1
    <3>1. cs1[j].at = h /\ cs1[i].at # h  BY <1>1, <1>4, <1>5, <2>3
    <3> QED  BY <1>8, <3>1
  <2>4. CASE i \in k + 1 .. k1 /\ j \in 1 .. k
    <3>1. cs1[i].at = h /\ cs1[j].at # h  BY <1>1, <1>4, <1>5, <2>4
    <3> QED  BY <1>8, <3>1
  <2> QED  BY <1>2, <2>1, <2>2, <2>3, <2>4
<1>9. ASSUME NEW i \in 1 .. k1, NEW j \in 1 .. k1, NEW x \in DOMAIN c, NEW m \in DOMAIN c,
             cs1[i] = Test(x), cs1[j] = Label(Right(m)), Under(Left(m), x)
      PROVE  i < j
  <2>1. CASE i \in 1 .. k /\ j \in 1 .. k
    <3>1. cs[i] = Test(x) /\ cs[j] = Label(Right(m))  BY <1>1, <1>9, <2>1
    <3> QED  BY <1>9, <2>1, <3>1 DEF CodeInv
  <2>2. CASE i \in 1 .. k /\ j \in k + 1 .. k1  BY <1>1, <2>2
  <2>3. CASE i \in k + 1 .. k1 /\ j \in 1 .. k
    <3>1. x = h  BY <1>4, <1>9, <2>3, InstructionFacts
    <3>2. cs[j].at = Right(m) /\ Right(m) \in DOMAIN c /\ Right(m) \in Path
      BY <1>1, <1>3, <1>9, <2>3, InstructionFacts
    <3>3. PICK q \in DOMAIN ns : q > 1 /\ ns[q] = Right(m)
      BY <1>9, <3>1, <3>2 DEF StackInv
    <3>4. Under(ns[q], cs[j].at)  BY <3>2, <3>3, UnderItself
    <3> QED  BY <1>3, <2>3, <3>4
  <2>4. CASE i \in k + 1 .. k1 /\ j \in k + 1 .. k1
    <3>1. x = h /\ Right(m) = h  BY <1>4, <1>9, <2>4, InstructionFacts
    <3>2. m \in Path /\ Under(Left(m), Append(m, "r"))  BY <1>9, <3>1, NodePaths DEF Right
    <3>3. Under(Left(m), m)  BY <3>2, LeftAboveOperand
    <3> QED  BY <3>2, <3>3, UnderOperand DEF Left
  <2> QED  BY <1>2, <2>1, <2>2, <2>3, <2>4
<1>10. ASSUME NEW x \in s
       PROVE  (\E p \in DOMAIN ns1 : Under(ns1[p], x)) \/ \E i \in 1 .. k1 : cs1[i] = Label(x)
  <2>1. (\E p \in DOMAIN ns : Under(ns[p], x)) \/ \E i \in 1 .. k : cs[i] = Label(x)
    BY DEF CodeInv
  <2>2. CASE \E i \in 1 .. k : cs[i] = Label(x)  BY <1>1, <2>2
  <2>3. ASSUME NEW p \in DOMAIN ns, Under(ns[p], x), p > 1
        PROVE  \E q \in DOMAIN ns1 : Under(ns1[q], x)
    BY <2>3 DEF Replaces
  <2>4. CASE Under(ns[1], x) /\ x = h  BY <1>1, <2>4
  <2>5. CASE Under(ns[1], x) /\ x # h
    <3>1. PICK o \in Operands(c, h) : Under(o, x)  BY <1>0, <2>5, BelowOperand
    <3> QED  BY <3>1 DEF Replaces
  <2>6. \A p \in DOMAIN ns : p = 1 \/ p > 1
    BY DEF StackInv
  <2> QED  BY <2>1, <2>2, <2>3, <2>4, <2>5, <2>6
<1> QED  BY <1>6, <1>7, <1>8, <1>9, <1>10 DEF CodeInv

-----------------------------------------------------------------------------
(* The steps of the generation.                                            *)

LEMMA GenerateKeeps ==
  ASSUME JumpsInv, Generating, NEW h, h = Head(nodes), NEW new \in Seq(Operands(cond, h)),
         \A p, q \in DOMAIN new : Under(new[p], new[q]) => p = q,
         \A p \in DOMAIN new : new[p] = Left(h) /\ Right(h) \in DOMAIN cond =>
           \E q \in DOMAIN new : q > p /\ new[q] = Right(h),
         \A o \in Operands(cond, h) : \E p \in DOMAIN new : new[p] = o,
         NEW e \in Seq(Instruction), e # <<>> \/ new # <<>>,
         \A i \in 1 .. Len(e) : e[i] = Test(h) \/ (e[i] = Label(h) /\ i = 1 /\ h \in self),
         h \in self => Len(e) > 0 /\ e[1] = Label(h),
         nodes' = new \o Tail(nodes), code' = code \o e,
         UNCHANGED <<cond, calls, target, self>>
  PROVE  JumpsInv'
<1>0. /\ cond \in Conditions /\ self \in SUBSET DOMAIN cond /\ nodes # <<>> /\ calls = <<>>
      /\ code \in Seq(Instruction) /\ StackInv(cond, nodes) /\ nodes \in Seq(DOMAIN cond)
  BY DEF JumpsInv, LabelsInv, Generating, StackInv
<1>1. /\ 1 \in DOMAIN nodes /\ h = nodes[1] /\ h \in DOMAIN cond  BY <1>0
<1>2. Len(code) \in Nat /\ DOMAIN code = 1 .. Len(code) /\ Len(e) \in Nat
  BY <1>0, LenProperties
<1>3. /\ code' \in Seq(Instruction) /\ Len(code') = Len(code) + Len(e)
      /\ \A i \in 1 .. Len(code) + Len(e) :
           (code')[i] = IF i <= Len(code) THEN code[i] ELSE e[i - Len(code)]
  BY <1>0, ConcatProperties
<1>4. Front = Len(code)  BY <1>0 DEF Front, Generated, GeneratedCond
<1>5. Operands(cond, h) \subseteq DOMAIN cond  BY <1>0, <1>1, NodePaths
<1>6. new \in Seq(DOMAIN cond)  BY <1>5, SeqMonotonic
<1>7. /\ nodes' \in Seq(DOMAIN cond)
      /\ DOMAIN nodes' = 1 .. Len(new) + Len(nodes) - 1
      /\ Len(new) \in Nat /\ Len(nodes) \in Nat /\ Len(nodes) > 0
      /\ DOMAIN new = 1 .. Len(new) /\ DOMAIN nodes = 1 .. Len(nodes)
      /\ \A p \in 1 .. Len(new) : (nodes')[p] = new[p]
      /\ \A p \in 2 .. Len(nodes) : (nodes')[Len(new) + p - 1] = nodes[p]
  BY <1>0, <1>6, PushFacts
<1>8. ~ Generated'
  <2>1. CASE new # <<>>
    <3>1. Len(new) > 0  BY <1>6, <2>1, EmptySeq
    <3>2. 1 \in DOMAIN nodes'  BY <1>7, <3>1
    <3>3. nodes' # <<>>  BY <3>2
    <3> QED  BY <3>3 DEF Generated, GeneratedCond
  <2>2. CASE e # <<>>
    <3>1. Len(e) > 0 /\ Len(e) \in 1 .. Len(e)  BY <2>2, EmptySeq
    <3>2. (code')[Len(code')] = e[Len(e)]
      <4>1. Len(code') \in 1 .. Len(code) + Len(e) /\ ~ (Len(code') <= Len(code))
            /\ Len(code') - Len(code) = Len(e)
        BY <1>2, <1>3, <3>1
      <4> QED  BY <1>3, <4>1
    <3>3. e[Len(e)].op \in {"label", "test"}
      <4>1. e[Len(e)] = Test(h) \/ e[Len(e)] = Label(h)  BY <3>1
      <4> QED  BY <4>1, InstructionFacts
    <3>4. (code')[Len(code')] # Arm("else")
      <4>1. Arm("else").op = "arm"  BY InstructionFacts
      <4> QED  BY <3>2, <3>3, <4>1
    <3> QED  BY <3>4 DEF Generated
  <2> QED  BY <2>1, <2>2
<1>9. Front' = Len(code')  BY <1>8 DEF Front
<1>10. Emits(self, h, code, Len(code), code', Len(code'))
  <2>1. \A i \in 1 .. Len(code) : (code')[i] = code[i]  BY <1>2, <1>3
  <2>2. ASSUME NEW i \in Len(code) + 1 .. Len(code')
        PROVE  (code')[i] = Test(h) \/ ((code')[i] = Label(h) /\ i = Len(code) + 1 /\ h \in self)
    <3>1. i - Len(code) \in 1 .. Len(e) /\ i \in 1 .. Len(code) + Len(e) /\ ~ (i <= Len(code))
      BY <1>2, <1>3
    <3>2. (code')[i] = e[i - Len(code)]  BY <1>3, <3>1
    <3>3. i - Len(code) = 1 => i = Len(code) + 1  BY <1>2
    <3> QED  BY <3>1, <3>2, <3>3
  <2>3. ASSUME h \in self PROVE Len(code) < Len(code') /\ (code')[Len(code) + 1] = Label(h)
    <3>1. Len(e) > 0 /\ e[1] = Label(h)  BY <2>3
    <3>2. Len(code) + 1 \in 1 .. Len(code) + Len(e) /\ ~ (Len(code) + 1 <= Len(code))
          /\ (Len(code) + 1) - Len(code) = 1
      BY <1>2, <3>1
    <3> QED  BY <1>2, <1>3, <3>1, <3>2
  <2> QED  BY <1>2, <1>3, <2>1, <2>2, <2>3 DEF Emits
<1>11. Replaces(cond, h, nodes, nodes')
  <2>1. ASSUME NEW p \in DOMAIN nodes'
        PROVE  \/ (nodes')[p] \in Operands(cond, h)
               \/ \E j \in DOMAIN nodes : j > 1 /\ (nodes')[p] = nodes[j]
    <3>1. CASE p \in 1 .. Len(new)  BY <1>7, <3>1, ElementOfSeq
    <3>2. CASE ~ (p \in 1 .. Len(new))
      <4>1. p - Len(new) + 1 \in 2 .. Len(nodes) /\ Len(new) + (p - Len(new) + 1) - 1 = p
        BY <1>7, <3>2
      <4>2. (nodes')[p] = nodes[p - Len(new) + 1]  BY <1>7, <4>1
      <4>3. p - Len(new) + 1 \in DOMAIN nodes /\ p - Len(new) + 1 > 1  BY <1>7, <4>1, SMTT(30)
      <4> QED  BY <4>2, <4>3
    <3> QED  BY <3>1, <3>2
  <2>2. ASSUME NEW j \in DOMAIN nodes, j > 1 PROVE \E p \in DOMAIN nodes' : (nodes')[p] = nodes[j]
    <3>1. j \in 2 .. Len(nodes) /\ Len(new) + j - 1 \in DOMAIN nodes'  BY <1>7, <2>2
    <3> QED  BY <1>7, <3>1
  <2>3. ASSUME NEW o \in Operands(cond, h) PROVE \E p \in DOMAIN nodes' : (nodes')[p] = o
    <3>1. PICK p \in DOMAIN new : new[p] = o  OBVIOUS
    <3>2. p \in DOMAIN nodes' /\ (nodes')[p] = new[p]  BY <1>7
    <3> QED  BY <3>1, <3>2
  <2> QED  BY <2>1, <2>2, <2>3 DEF Replaces
<1>12. StackInv(cond, nodes')  BY <1>0, <1>1, StackKeeps
<1>13. CodeInv(cond, self, nodes', code', Len(code'))
  <2>1. CodeInv(cond, self, nodes, code, Len(code))  BY <1>4 DEF JumpsInv
  <2> QED  BY <1>0, <1>1, <1>10, <1>11, <2>1, CodeKeeps
<1>14. LabelsInv'  BY DEF JumpsInv, LabelsInv, WayOut, Op
<1> QED  BY <1>0, <1>3, <1>8, <1>9, <1>12, <1>13, <1>14 DEF JumpsInv, ArmsInv

LEMMA OwnLabelFacts ==
  ASSUME JumpsInv, NEW h \in DOMAIN cond
  PROVE  /\ OwnLabel(h) \in Seq(Instruction) /\ Len(OwnLabel(h)) \in {0, 1}
         /\ Len(OwnLabel(h)) = 1 => h \in self /\ OwnLabel(h)[1] = Label(h)
         /\ h \in self => Len(OwnLabel(h)) = 1
         /\ Test(h) \in Instruction
<1>1. h \in Labels  BY NodePaths DEF JumpsInv, LabelsInv, Labels
<1>2. Label(h) \in Instruction /\ Test(h) \in Instruction
  BY <1>1 DEF Label, Test, Instruction
<1>3. <<Label(h)>> \in Seq(Instruction) /\ Len(<<Label(h)>>) = 1 /\ <<Label(h)>>[1] = Label(h)
  BY <1>2
<1>4. <<>> \in Seq(Instruction) /\ Len(<<>>) = 0  OBVIOUS
<1> QED  BY <1>2, <1>3, <1>4 DEF OwnLabel

LEMMA GeneratingFacts ==
  ASSUME JumpsInv, Generating
  PROVE  /\ cond \in Conditions /\ Head(nodes) \in DOMAIN cond
         /\ Head(nodes) \in Path /\ code \in Seq(Instruction)
<1>1. nodes \in Seq(DOMAIN cond) /\ nodes # <<>> /\ cond \in Conditions
  BY DEF JumpsInv, StackInv, Generating, LabelsInv
<1>2. Head(nodes) \in DOMAIN cond  BY <1>1, HeadTailProperties
<1> QED  BY <1>1, <1>2, NodePaths DEF JumpsInv

LEMMA LogicKeeps ==
  ASSUME JumpsInv, GenerateLogic
  PROVE  JumpsInv'
<1> DEFINE h == Head(nodes)
           new == <<Left(h), Right(h)>>
<1>0. /\ Generating /\ cond[h] \in {"&&", "||"}
      /\ code' = code \o OwnLabel(h) /\ nodes' = new \o Tail(nodes)
      /\ UNCHANGED <<cond, calls, target, self>>
  BY DEF GenerateLogic, IsLogic, Op, analysis
<1>1. cond \in Conditions /\ h \in DOMAIN cond /\ h \in Path  BY <1>0, GeneratingFacts
<1> HIDE DEF h
<1>2. Operands(cond, h) = {Left(h), Right(h)}  BY <1>0 DEF Operands
<1>3. /\ new \in Seq(Operands(cond, h)) /\ DOMAIN new = {1, 2} /\ new # <<>>
      /\ new[1] = Left(h) /\ new[2] = Right(h)
  BY <1>2
<1> HIDE DEF new
<1>4. ~ Under(Left(h), Right(h)) /\ ~ Under(Right(h), Left(h))
  <2>1. ~ Under(Left(h), h) /\ ~ Under(Right(h), h)  BY <1>1, UnderOperand DEF Left, Right
  <2>2. ~ Under(Left(h), Right(h))  BY <1>1, <2>1, LeftAboveOperand DEF Right
  <2>3. Right(h) # Left(h)
    <3>1. /\ Append(h, "l")[Len(h) + 1] = "l" /\ Append(h, "r")[Len(h) + 1] = "r"
      BY <1>1, AppendFacts
    <3> QED  BY <3>1 DEF Left, Right
  <2>4. Right(h) \in Path  BY <1>1, AppendFacts DEF Right
  <2> QED  BY <1>1, <2>1, <2>2, <2>3, <2>4, AboveOperand DEF Left
<1>5. \A p, q \in DOMAIN new : Under(new[p], new[q]) => p = q  BY <1>3, <1>4
<1>6. \A p \in DOMAIN new : new[p] = Left(h) /\ Right(h) \in DOMAIN cond =>
        \E q \in DOMAIN new : q > p /\ new[q] = Right(h)
  <2>1. Left(h) # Right(h)
    BY <1>1, <1>4, UnderItself, AppendFacts DEF Left
  <2>2. 2 \in DOMAIN new /\ 2 > 1  BY <1>3
  <2> QED  BY <1>3, <2>1, <2>2
<1>7. \A o \in Operands(cond, h) : \E p \in DOMAIN new : new[p] = o  BY <1>2, <1>3
<1>8. /\ OwnLabel(h) \in Seq(Instruction)
      /\ \A i \in 1 .. Len(OwnLabel(h)) :
           OwnLabel(h)[i] = Test(h) \/ (OwnLabel(h)[i] = Label(h) /\ i = 1 /\ h \in self)
      /\ h \in self => Len(OwnLabel(h)) > 0 /\ OwnLabel(h)[1] = Label(h)
  BY <1>1, OwnLabelFacts
<1>9. h = Head(nodes)  BY DEF h
<1> QED  BY <1>0, <1>3, <1>5, <1>6, <1>7, <1>8, <1>9, GenerateKeeps

LEMMA LeafKeeps ==
  ASSUME JumpsInv, GenerateCmp
  PROVE  JumpsInv'
<1> DEFINE h == Head(nodes)
           own == OwnLabel(h)
           e == own \o <<Test(h)>>
<1>0. /\ Generating /\ cond[h] = "cmp"
      /\ code' = (code \o own) \o <<Test(h)>> /\ nodes' = Tail(nodes)
      /\ UNCHANGED <<cond, calls, target, self>>
  BY DEF GenerateCmp, IsCmp, Op, analysis
<1>1. cond \in Conditions /\ h \in DOMAIN cond /\ code \in Seq(Instruction)
      /\ nodes \in Seq(DOMAIN cond) /\ nodes # <<>>
  BY <1>0, GeneratingFacts DEF JumpsInv, StackInv, Generating
<1> HIDE DEF h
<1>2. Operands(cond, h) = {}  BY <1>0 DEF Operands
<1>3. /\ own \in Seq(Instruction) /\ Len(own) \in {0, 1}
      /\ Len(own) = 1 => h \in self /\ own[1] = Label(h)
      /\ h \in self => Len(own) = 1
      /\ Test(h) \in Instruction
  BY <1>1, OwnLabelFacts
<1> HIDE DEF own
<1>4. <<Test(h)>> \in Seq(Instruction) /\ Len(<<Test(h)>>) = 1 /\ <<Test(h)>>[1] = Test(h)
  BY <1>3
<1>5. /\ e \in Seq(Instruction) /\ Len(e) = Len(own) + 1
      /\ \A i \in 1 .. Len(own) + 1 : e[i] = IF i <= Len(own) THEN own[i] ELSE <<Test(h)>>[i - Len(own)]
  BY <1>3, <1>4, ConcatProperties
<1>6. code' = code \o e  BY <1>0, <1>1, <1>3, <1>4, ConcatAssociative, SMTT(30)
<1> HIDE DEF e
<1>7. /\ e # <<>>
      /\ \A i \in 1 .. Len(e) : e[i] = Test(h) \/ (e[i] = Label(h) /\ i = 1 /\ h \in self)
      /\ h \in self => Len(e) > 0 /\ e[1] = Label(h)
  BY <1>3, <1>4, <1>5
<1>8. nodes' = <<>> \o Tail(nodes)
  BY <1>0, <1>1, HeadTailProperties, ConcatEmptySeq
<1>9. <<>> \in Seq(Operands(cond, h)) /\ DOMAIN <<>> = {}  OBVIOUS
<1>10. h = Head(nodes)  BY DEF h
<1> QED  BY <1>0, <1>2, <1>5, <1>6, <1>7, <1>8, <1>9, <1>10, GenerateKeeps

\* "!" emits nothing, and no label of its own is asked for.
LEMMA NegationKeeps ==
  ASSUME JumpsInv, GenerateNot
  PROVE  JumpsInv'
<1> DEFINE h == Head(nodes)
           new == <<Left(h)>>
<1>0. /\ Generating /\ cond[h] = "!"
      /\ code' = code /\ nodes' = new \o Tail(nodes)
      /\ UNCHANGED <<cond, calls, target, self>>
  BY DEF GenerateNot, Op
<1>1. cond \in Conditions /\ h \in DOMAIN cond /\ code \in Seq(Instruction)
  BY <1>0, GeneratingFacts
<1> HIDE DEF h
<1>2. Operands(cond, h) = {Left(h)}  BY <1>0 DEF Operands
<1>3. /\ new \in Seq(Operands(cond, h)) /\ DOMAIN new = {1} /\ new # <<>> /\ new[1] = Left(h)
  BY <1>2
<1> HIDE DEF new
<1>4. h \notin self  BY <1>0 DEF JumpsInv, LabelsInv, Op
<1>5. Right(h) \notin DOMAIN cond  BY <1>0, <1>1, RightOf
<1>6. code' = code \o <<>> /\ <<>> \in Seq(Instruction) /\ Len(<<>>) = 0
  BY <1>0, <1>1, ConcatEmptySeq
<1>7. h = Head(nodes)  BY DEF h
<1>8. /\ \A p, q \in DOMAIN new : Under(new[p], new[q]) => p = q
      /\ \A o \in Operands(cond, h) : \E p \in DOMAIN new : new[p] = o
      /\ \A i \in 1 .. Len(<<>>) : FALSE
  BY <1>2, <1>3, <1>6
<1> QED  BY <1>0, <1>3, <1>4, <1>5, <1>6, <1>7, <1>8, GenerateKeeps

LEMMA ArmsAreNoNodes ==
  /\ Body \notin Path /\ Else \notin Path /\ Body # Else
  /\ Body \in Labels /\ Else \in Labels
<1>1. Body[1] = "body" /\ Len(Body) = 1 /\ Else[1] = "else" /\ Len(Else) = 1  BY DEF Body, Else
<1>2. \A x \in Path : Len(x) = 1 => x[1] \in {"l", "r"}  BY DEF Path
<1> QED  BY <1>1, <1>2 DEF Labels

LEMMA ArmsFacts ==
  /\ Arms \in Seq(Instruction) /\ Len(Arms) = 4
  /\ Arms[1] = Label(Body) /\ Arms[2] = Arm("body")
  /\ Arms[3] = Label(Else) /\ Arms[4] = Arm("else")
<1>1. /\ Label(Body) \in Instruction /\ Label(Else) \in Instruction
      /\ Arm("body") \in Instruction /\ Arm("else") \in Instruction
  BY ArmsAreNoNodes DEF Label, Arm, Instruction
<1> QED  BY <1>1 DEF Arms

LEMMA ArmsKeep ==
  ASSUME JumpsInv, GenerateArms
  PROVE  JumpsInv'
<1>0. /\ calls = <<>> /\ nodes = <<>> /\ ~ Generated /\ code' = code \o Arms
      /\ UNCHANGED <<cond, calls, target, self, nodes>> /\ code \in Seq(Instruction)
  BY DEF GenerateArms, GeneratedCond, analysis, JumpsInv
<1>1. /\ code' \in Seq(Instruction) /\ Len(code') = Len(code) + 4 /\ Len(code) \in Nat
      /\ \A i \in 1 .. Len(code) + 4 :
           (code')[i] = IF i <= Len(code) THEN code[i] ELSE Arms[i - Len(code)]
  <2>1. Arms \in Seq(Instruction) /\ Len(Arms) = 4  BY ArmsFacts
  <2>2. Len(code) \in Nat  BY <1>0, LenProperties
  <2>3. /\ code \o Arms \in Seq(Instruction) /\ Len(code \o Arms) = Len(code) + Len(Arms)
        /\ \A i \in 1 .. Len(code) + Len(Arms) :
             (code \o Arms)[i] = IF i <= Len(code) THEN code[i] ELSE Arms[i - Len(code)]
    BY <1>0, <2>1, ConcatProperties
  <2> QED  BY <1>0, <2>1, <2>2, <2>3
<1>2. \A i \in 1 .. Len(code) : (code')[i] = code[i]  BY <1>1
<1>3. ASSUME NEW i \in 1 .. 4 PROVE (code')[Len(code) + i] = Arms[i]
  <2>1. Len(code) + i \in 1 .. Len(code) + 4 /\ ~ (Len(code) + i <= Len(code))
        /\ (Len(code) + i) - Len(code) = i
    BY <1>1
  <2> QED  BY <1>1, <2>1
<1>4. Generated'
  <2>1. (code')[Len(code')] = Arm("else")
    BY <1>1, <1>3, ArmsFacts
  <2>2. code' # <<>>  BY <1>1
  <2> QED  BY <1>0, <2>1, <2>2 DEF Generated, GeneratedCond
<1>5. Front = Len(code) /\ Front' = Len(code)  BY <1>0, <1>1, <1>4 DEF Front
<1>6. CodeInv(cond, self, nodes, code', Len(code))
  <2>1. CodeInv(cond, self, nodes, code, Len(code))  BY <1>5 DEF JumpsInv
  <2> QED  BY <1>2, <2>1 DEF CodeInv
<1>7. ArmsInv'
  <2>1. Arms' = Arms  BY DEF Arms, Label, Arm, Body, Else
  <2> QED  BY <1>1, <1>3, <1>5, <2>1 DEF ArmsInv
<1>8. LabelsInv'  BY <1>0 DEF JumpsInv, LabelsInv, WayOut, Op
<1>9. StackInv(cond, nodes)'  BY <1>0 DEF JumpsInv
<1> QED  BY <1>0, <1>1, <1>5, <1>6, <1>7, <1>8, <1>9 DEF JumpsInv

-----------------------------------------------------------------------------
LEMMA JumpsInitInv == Init => JumpsInv
<1> SUFFICES ASSUME Init PROVE JumpsInv  OBVIOUS
<1>0. /\ cond \in Conditions /\ calls = <<Call(<<>>, Body, Else)>>
      /\ target = [n \in DOMAIN cond |-> NoLabel] /\ self = {}
      /\ nodes = <<<<>>>> /\ code = <<>>
  BY DEF Init
<1>1. <<>> \in DOMAIN cond  BY <1>0, ConditionsAssumption
<1>2. LabelsInv
  <2> DEFINE root == Call(<<>>, Body, Else)
  <2>1. /\ root \in PendingCall
        /\ WayOut(cond, self, root.true, root.node) /\ WayOut(cond, self, root.false, root.node)
    BY <1>1, ArmsAreNoNodes DEF Call, PendingCall, WayOut
  <2> HIDE DEF root
  <2>2. calls \in Seq(PendingCall) /\ \A k \in DOMAIN calls : calls[k] = root
    <3>1. calls = <<root>>  BY <1>0 DEF root
    <3> QED  BY <2>1, <3>1
  <2> QED  BY <1>0, <2>1, <2>2 DEF LabelsInv, PendingCall
<1>3. StackInv(cond, nodes)
  <2>1. /\ nodes \in Seq(DOMAIN cond) /\ DOMAIN nodes = {1} /\ nodes[1] = <<>>
    BY <1>0, <1>1
  <2>2. \A m \in DOMAIN cond : ~ Under(Left(m), <<>>)
    BY <1>0, NodePaths, AppendFacts, Len(<<>>) = 0 DEF Left, Under
  <2> QED  BY <2>1, <2>2 DEF StackInv
<1>4. ~ Generated /\ Front = 0  BY <1>0 DEF Generated, GeneratedCond, Front
<1>5. CodeInv(cond, self, nodes, code, 0)  BY <1>0 DEF CodeInv
<1>6. code \in Seq(Instruction)  BY <1>0
<1> QED  BY <1>0, <1>2, <1>3, <1>4, <1>5, <1>6 DEF JumpsInv, ArmsInv

\* The machine changes nothing of the compiler's.
LEMMA RunKeeps ==
  ASSUME JumpsInv, UNCHANGED <<cond, analysis, nodes, code>>
  PROVE  JumpsInv'
<1>1. UNCHANGED <<cond, calls, target, self, nodes, code>>  BY DEF analysis
<1>2. LabelsInv'  BY <1>1 DEF JumpsInv, LabelsInv, WayOut, Op
<1>3. (Generated' <=> Generated) /\ Front' = Front
  BY <1>1 DEF Front, Generated, GeneratedCond, Arm
<1>4. ArmsInv'  BY <1>1, <1>3 DEF JumpsInv, ArmsInv, Arms, Label, Arm, Body, Else
<1> QED  BY <1>1, <1>2, <1>3, <1>4 DEF JumpsInv

LEMMA JumpsNextInv ==
  ASSUME JumpsInv, \A c \in Conditions : Stands(c), [Next]_vars
  PROVE  JumpsInv'
<1>1. CASE Analyse  BY <1>1, AnalyseKeeps
<1>2. CASE Generate  BY <1>2, LogicKeeps, LeafKeeps, NegationKeeps, ArmsKeep DEF Generate
<1>3. CASE Run
  <2>1. UNCHANGED <<cond, analysis, nodes, code>>
    BY <1>3 DEF Run, PassLabel, Compare, EnterArm
  <2> QED  BY <2>1, RunKeeps
<1>4. CASE UNCHANGED vars
  <2>1. UNCHANGED <<cond, analysis, nodes, code>>  BY <1>4 DEF vars
  <2> QED  BY <2>1, RunKeeps
<1> QED  BY <1>1, <1>2, <1>3, <1>4 DEF Next

\* The code of the condition, and the arms behind it.
LEMMA JumpsInvLand == JumpsInv => JumpsLand
<1> SUFFICES ASSUME JumpsInv, Generated,
                    NEW i \in DOMAIN code, code[i].op = "test",
                    NEW l, l = target[code[i].at], l # NoLabel
             PROVE  \E j \in i + 1 .. Len(code) : \A k \in DOMAIN code : Defines(k, l) <=> k = j
  BY DEF JumpsLand
<1>0. /\ cond \in Conditions /\ nodes = <<>> /\ code \in Seq(Instruction)
      /\ CodeInv(cond, self, nodes, code, Front)
  BY DEF JumpsInv, LabelsInv, Generated, GeneratedCond
<1>1. /\ Len(code) \in Nat /\ DOMAIN code = 1 .. Len(code)
      /\ Front \in Nat /\ Len(code) = Front + 4
  BY <1>0, LenProperties DEF Front, JumpsInv, ArmsInv
<1>2. /\ code[Front + 1] = Label(Body) /\ code[Front + 2] = Arm("body")
      /\ code[Front + 3] = Label(Else) /\ code[Front + 4] = Arm("else")
  BY ArmsFacts DEF JumpsInv, ArmsInv
<1>3. \A k \in DOMAIN code : k \in 1 .. Front \/ k \in {Front + 1, Front + 2, Front + 3, Front + 4}
  BY <1>1
<1>4. i \in 1 .. Front  BY <1>2, <1>3, InstructionFacts
<1>5. PICK x \in DOMAIN cond : code[i] = Test(x)
  BY <1>0, <1>4, InstructionFacts DEF CodeInv
<1>6. WayOut(cond, self, l, x)
  BY <1>5, InstructionFacts DEF JumpsInv, LabelsInv
<1>7. ASSUME NEW k \in 1 .. Front, NEW y, code[k] = Label(y) PROVE y \in Path
  BY <1>0, <1>7, NodePaths, InstructionFacts DEF CodeInv
<1>8. ASSUME NEW k \in DOMAIN code, NEW y, code[k] = Label(y)
      PROVE  \/ k \in 1 .. Front /\ y \in Path
             \/ k = Front + 1 /\ y = Body
             \/ k = Front + 3 /\ y = Else
  BY <1>2, <1>3, <1>7, <1>8, InstructionFacts
<1>9. CASE l = Body
  <2>1. Front + 1 \in i + 1 .. Len(code)  BY <1>1, <1>4
  <2>2. \A k \in DOMAIN code : code[k] = Label(l) <=> k = Front + 1
    BY <1>2, <1>8, <1>9, ArmsAreNoNodes
  <2> QED  BY <2>1, <2>2 DEF Defines
<1>10. CASE l = Else
  <2>1. Front + 3 \in i + 1 .. Len(code)  BY <1>1, <1>4
  <2>2. \A k \in DOMAIN code : code[k] = Label(l) <=> k = Front + 3
    BY <1>2, <1>8, <1>10, ArmsAreNoNodes
  <2> QED  BY <2>1, <2>2 DEF Defines
<1>11. CASE \E m \in DOMAIN cond :
              l = Right(m) /\ l \in DOMAIN cond /\ l \in self /\ Under(Left(m), x)
  <2>1. PICK m \in DOMAIN cond :
          l = Right(m) /\ l \in DOMAIN cond /\ l \in self /\ Under(Left(m), x)
    BY <1>11
  <2>2. PICK j \in 1 .. Front : code[j] = Label(l)
    BY <1>0, <2>1 DEF CodeInv
  <2>3. i < j  BY <1>0, <1>4, <1>5, <2>1, <2>2 DEF CodeInv
  <2>4. j \in i + 1 .. Len(code)  BY <1>1, <1>4, <2>3
  <2>5. l # Body /\ l # Else  BY <1>0, <2>1, NodePaths, ArmsAreNoNodes
  <2>6. ASSUME NEW k \in DOMAIN code, code[k] = Label(l) PROVE k = j
    <3>1. k \in 1 .. Front  BY <1>8, <2>5, <2>6
    <3> QED  BY <1>0, <2>2, <2>6, <3>1, InstructionFacts DEF CodeInv
  <2> QED  BY <2>2, <2>4, <2>6 DEF Defines
<1> QED  BY <1>6, <1>9, <1>10, <1>11 DEF WayOut

(* Every jump of a condition lands: the label it names is in the code, once *)
(* and behind it, whatever the shape and the size of the condition, if the  *)
(* condition stands.  It follows from JumpsInv: distribute_bool_op_targets  *)
(* gives a comparison the label of an arm or of a right operand that still  *)
(* waits on the stack while the left one is generated, and asks for the     *)
(* label there.                                                             *)
THEOREM JumpsAlwaysLand ==
  ASSUME \A c \in Conditions : Stands(c)
  PROVE  Spec => []JumpsLand
<1>1. Init => JumpsInv  BY JumpsInitInv
<1>2. JumpsInv /\ [Next]_vars => JumpsInv'  BY JumpsNextInv
<1>3. JumpsInv => JumpsLand  BY JumpsInvLand
<1> QED  BY <1>1, <1>2, <1>3, PTL DEF Spec
=============================================================================
