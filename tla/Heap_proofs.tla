----------------------------- MODULE Heap_proofs -----------------------------
(***************************************************************************)
(* The allocator gives every byte to one allocation only, and counts right. *)
(* The end of a block is tested without its header; what makes this        *)
(* harmless for other allocations is that they begin behind a header, too. *)
(***************************************************************************)
EXTENDS Heap, FiniteSetTheorems, TLAPS

Block == [base : Nat, filled : Nat, cap : Nat, allocs : Nat]
Allocation == [id : Nat, ptr : Nat, size : Nat]

TypeInv ==
  /\ blocks \in Seq(Block)
  /\ live \subseteq Allocation /\ IsFiniteSet(live)
  /\ made \in Nat

\* The mappings of two blocks have no byte in common.
Disjoint(b, c) == b.base + b.cap <= c.base \/ c.base + c.cap <= b.base

\* An allocation is in the filled part of a block.
Within(b, l) == Data(b) <= l.ptr /\ l.ptr + l.size <= Data(b) + b.filled

BlocksInv ==
  /\ \A i \in DOMAIN blocks : /\ blocks[i].filled < blocks[i].cap
                              /\ blocks[i].base \in Bases
                              /\ blocks[i].base + blocks[i].cap <= Top
  /\ \A i, j \in DOMAIN blocks : i # j => Disjoint(blocks[i], blocks[j])

LiveInv ==
  /\ \A l \in live : l.id <= made
  /\ \A l \in live : \E i \in DOMAIN blocks : Within(blocks[i], l)

HeapInv == TypeInv /\ BlocksInv /\ LiveInv /\ AllocationsApart /\ BlocksMatchLive

---------------------------------------------------------------------------
(* align() of mem.cb rounds up.                                            *)
LEMMA AlignAtLeast ==
  ASSUME NEW n \in Nat, NEW a \in Nat \ {0}
  PROVE  align(n, a) \in Nat /\ align(n, a) >= n
<1>1. (-n) % a \in 0 .. a - 1  OBVIOUS
<1> QED  BY <1>1 DEF align

(* An allocation is held by the block it is in.                            *)
LEMMA WithinHolds ==
  ASSUME NEW b \in Block, NEW l \in Allocation, b.filled < b.cap, Within(b, l)
  PROVE  Holds(b, l.ptr)
BY SizesAssumption DEF Block, Allocation, Within, Holds, Data

(* Two blocks never hold the same pointer, although each holds a header's  *)
(* length of addresses behind its end.                                     *)
LEMMA HeldOnce ==
  ASSUME NEW b \in Block, NEW c \in Block, NEW p \in Nat, Disjoint(b, c)
  PROVE  ~(Holds(b, p) /\ Holds(c, p))
BY SizesAssumption DEF Block, Disjoint, Holds, Data

(* What is in the filled parts of two blocks is apart, although either may *)
(* pass the end of its block.                                              *)
LEMMA ApartInBlocks ==
  ASSUME NEW b \in Block, NEW c \in Block, NEW l \in Allocation, NEW m \in Allocation,
         Disjoint(b, c), b.filled < b.cap, c.filled < c.cap, Within(b, l), Within(c, m)
  PROVE  Apart(l, m)
BY SizesAssumption DEF Block, Allocation, Disjoint, Within, Data, Apart

(* Removing an element of a list: what is left was there before.           *)
LEMMA WithoutIs ==
  ASSUME NEW S, NEW s \in Seq(S), NEW i \in DOMAIN s
  PROVE  /\ Without(s, i) \in Seq(S)
         /\ DOMAIN Without(s, i) = 1 .. Len(s) - 1
         /\ \A j \in 1 .. Len(s) - 1 :
              LET k == IF j < i THEN j ELSE j + 1
              IN  k \in DOMAIN s /\ k # i /\ Without(s, i)[j] = s[k]
         /\ \A k \in DOMAIN s \ {i} :
              LET j == IF k < i THEN k ELSE k - 1
              IN  j \in 1 .. Len(s) - 1 /\ Without(s, i)[j] = s[k]
<1>1. Len(s) \in Nat /\ DOMAIN s = 1 .. Len(s)  OBVIOUS
<1>2. \A j \in 1 .. Len(s) - 1 : (IF j < i THEN s[j] ELSE s[j + 1]) \in S  BY <1>1
<1>3. Without(s, i) \in [1 .. Len(s) - 1 -> S]  BY <1>2 DEF Without
<1>4. Len(s) - 1 \in Nat  BY <1>1
<1>5. Without(s, i) \in Seq(S)  BY <1>3, <1>4
<1> QED  BY <1>1, <1>5 DEF Without

---------------------------------------------------------------------------
(* What handing out changes of a block.                                    *)
LEMMA FilledIs ==
  ASSUME NEW b \in Block, NEW asize \in Nat
  PROVE  /\ Filled(b, asize) = [base |-> b.base, filled |-> b.filled + asize,
                                cap |-> b.cap, allocs |-> b.allocs + 1]
         /\ Filled(b, asize) \in Block
<1> DEFINE more == [b EXCEPT !.filled = b.filled + asize]
<1>1. b.base \in Nat /\ b.filled \in Nat /\ b.cap \in Nat /\ b.allocs \in Nat  BY DEF Block
<1>2. more = [base |-> b.base, filled |-> b.filled + asize, cap |-> b.cap, allocs |-> b.allocs]
  BY <1>1 DEF Block
<1>3. Filled(b, asize) = [more EXCEPT !.allocs = b.allocs + 1]  BY DEF Filled, Block
<1> HIDE DEF more
<1>4. Filled(b, asize) = [base |-> b.base, filled |-> b.filled + asize,
                          cap |-> b.cap, allocs |-> b.allocs + 1]
  BY <1>2, <1>3
<1> QED  BY <1>1, <1>4 DEF Block

(* Handing out what is behind the filled part of a block.  The block may   *)
(* be the i-th of the list, or a new one: c is what it becomes, and the    *)
(* others, by their numbers, stay as they are.                             *)
LEMMA HandOutKeeps ==
  ASSUME TypeInv, BlocksInv, LiveInv, AllocationsApart,
         NEW b \in Block, NEW n \in Nat, NEW asize \in Nat, asize >= n,
         b.filled + asize < b.cap, HandOut(b, n),
         \A i \in DOMAIN blocks : blocks[i] = b \/ Disjoint(blocks[i], b)
  PROVE  /\ live' \subseteq Allocation /\ IsFiniteSet(live') /\ made' \in Nat
         /\ \A l \in live' : l.id <= made'
         /\ AllocationsApart'
<1> DEFINE new == [id |-> made + 1, ptr |-> Data(b) + b.filled, size |-> n]
<1>1. new \in Allocation /\ made' = made + 1 /\ live' = live \cup {new}
  BY SizesAssumption DEF TypeInv, HandOut, Data, Block, Allocation
<1>2. IsFiniteSet(live')  BY <1>1, FS_AddElement DEF TypeInv
<1>3. \A l \in live' : l.id <= made'
  BY <1>1 DEF LiveInv, TypeInv, Allocation
<1>4. ASSUME NEW m \in live PROVE Apart(new, m)
  <2>1. PICK i \in DOMAIN blocks : Within(blocks[i], m)  BY DEF LiveInv
  <2>2. blocks[i] \in Block /\ m \in Allocation /\ blocks[i].filled < blocks[i].cap
    BY DEF TypeInv, BlocksInv
  <2>3. CASE blocks[i] = b
    BY <2>1, <2>2, <2>3, SizesAssumption DEF Within, Apart, Data, Block, Allocation
  <2>4. CASE Disjoint(blocks[i], b)
    <3> DEFINE c == Filled(b, asize)
    <3>1. c \in Block /\ c.base = b.base /\ c.cap = b.cap /\ c.filled = b.filled + asize
      BY FilledIs
    <3>2. Within(c, new)  BY <3>1, SizesAssumption DEF Within, Data, Block
    <3>3. Disjoint(c, blocks[i])  BY <2>2, <2>4, <3>1 DEF Disjoint, Block
    <3> HIDE DEF c, new
    <3> QED  BY <1>1, <2>1, <2>2, <3>1, <3>2, <3>3, ApartInBlocks
  <2> QED  BY <2>3, <2>4
<1>5. AllocationsApart'
  <2> SUFFICES ASSUME NEW l \in live', NEW m \in live', l # m PROVE Apart(l, m)
    BY DEF AllocationsApart
  <2>1. CASE l = new  BY <1>1, <1>4, <2>1
  <2>2. CASE m = new
    <3>1. Apart(new, l)  BY <1>1, <1>4, <2>2
    <3> QED  BY <2>2, <3>1 DEF Apart
  <2>3. CASE l \in live /\ m \in live  BY <2>3 DEF AllocationsApart
  <2> QED  BY <1>1, <2>1, <2>2, <2>3
<1> QED  BY <1>1, <1>2, <1>3, <1>5 DEF TypeInv

(* The list when one of its blocks has been given more, or less, to count. *)
LEMMA Changed ==
  ASSUME TypeInv, NEW i \in DOMAIN blocks, NEW c \in Block,
         blocks' = [blocks EXCEPT ![i] = c]
  PROVE  /\ blocks' \in Seq(Block) /\ DOMAIN blocks' = DOMAIN blocks
         /\ blocks'[i] = c
         /\ \A j \in DOMAIN blocks : j # i => blocks'[j] = blocks[j]
BY DEF TypeInv

LEMMA AllocInBlockKeeps ==
  ASSUME HeapInv, NEW n \in Requests, AllocInBlock(n)
  PROVE  HeapInv'
<1> DEFINE asize == align(n, ALIGNMENT)
<1> USE DEF HeapInv
<1>1. n \in Nat /\ asize \in Nat /\ asize >= n  BY SizesAssumption, AlignAtLeast
<1> HIDE DEF asize
<1>2. PICK i \in DOMAIN blocks :
        /\ IsFirst(i, Fitting(asize)) /\ HandOut(blocks[i], n)
        /\ blocks' = [blocks EXCEPT ![i] = Filled(blocks[i], asize)]
  BY DEF AllocInBlock, asize
<1> DEFINE b == blocks[i]
           c == Filled(b, asize)
           new == [id |-> made', ptr |-> Data(b) + b.filled, size |-> n]
<1>3. b \in Block /\ b.filled + asize < b.cap
  BY <1>2 DEF TypeInv, IsFirst, Fitting, Fits
<1>4. c \in Block /\ c = [base |-> b.base, filled |-> b.filled + asize,
                          cap |-> b.cap, allocs |-> b.allocs + 1]
  BY <1>1, <1>3, FilledIs
<1>5. /\ blocks' \in Seq(Block) /\ DOMAIN blocks' = DOMAIN blocks /\ blocks'[i] = c
      /\ \A j \in DOMAIN blocks : j # i => blocks'[j] = blocks[j]
  BY <1>2, <1>4, Changed
<1>6. mapped' = mapped  BY DEF AllocInBlock
<1>7. live' = live \cup {new} /\ new \in Allocation /\ new \notin live
  <2>1. live' = live \cup {new} /\ made' = made + 1  BY <1>2 DEF HandOut
  <2>2. new \in Allocation
    <3>1. b.base \in Nat /\ b.filled \in Nat  BY <1>3 DEF Block
    <3>2. Data(b) + b.filled \in Nat  BY <3>1, SizesAssumption DEF Data
    <3>3. made' \in Nat  BY <2>1 DEF TypeInv
    <3> HIDE DEF b
    <3> QED  BY <1>1, <3>2, <3>3 DEF Allocation
  <2>3. new.id = made + 1  BY <2>1
  <2>4. \A l \in live : l.id \in Nat /\ l.id <= made  
    <3>1. live \subseteq Allocation  BY DEF TypeInv
    <3>2. \A l \in live : l.id \in Nat  BY <3>1 DEF Allocation
    <3> QED  BY <3>2 DEF LiveInv
  <2>5. \A l \in live : l.id # made + 1
    <3>1. made \in Nat  BY DEF TypeInv
    <3> QED  BY <2>4, <3>1
  <2>6. new \notin live  BY <2>3, <2>5
  <2> QED  BY <2>1, <2>2, <2>6
<1>8. /\ live' \subseteq Allocation /\ IsFiniteSet(live') /\ made' \in Nat
      /\ \A l \in live' : l.id <= made'
      /\ AllocationsApart'
  BY <1>1, <1>2, <1>3, HandOutKeeps DEF BlocksInv
<1> HIDE DEF b, c, new
<1>9. TypeInv'  BY <1>5, <1>8 DEF TypeInv
<1>10. \A j \in DOMAIN blocks : /\ blocks'[j].base = blocks[j].base
                                /\ blocks'[j].cap = blocks[j].cap
                                /\ blocks'[j].filled >= blocks[j].filled
                                /\ blocks'[j].filled < blocks'[j].cap
                                /\ blocks[j] \in Block /\ blocks'[j] \in Block
  <2> SUFFICES ASSUME NEW j \in DOMAIN blocks
               PROVE  /\ blocks'[j].base = blocks[j].base
                      /\ blocks'[j].cap = blocks[j].cap
                      /\ blocks'[j].filled >= blocks[j].filled
                      /\ blocks'[j].filled < blocks'[j].cap
                      /\ blocks[j] \in Block /\ blocks'[j] \in Block
    OBVIOUS
  <2>1. CASE j = i
    <3>1. blocks[j] = b /\ blocks'[j] = c  BY <1>5, <2>1 DEF b
    <3>2. b.base \in Nat /\ b.filled \in Nat /\ b.cap \in Nat  BY <1>3 DEF Block
    <3>3. c.base = b.base /\ c.cap = b.cap /\ c.filled = b.filled + asize  BY <1>4
    <3> QED  BY <1>1, <1>3, <1>4, <3>1, <3>2, <3>3
  <2>2. CASE j # i
    <3>1. blocks[j] \in Block  BY DEF TypeInv
    <3>4. blocks[j].filled \in Nat  BY <3>1 DEF Block
    <3>2. blocks[j].filled < blocks[j].cap  BY DEF BlocksInv
    <3>3. blocks'[j] = blocks[j]  BY <1>5, <2>2
    <3> QED  BY <3>1, <3>2, <3>3, <3>4
  <2> QED  BY <2>1, <2>2
<1>11. BlocksInv'
  BY <1>5, <1>10 DEF BlocksInv, Disjoint
<1>12. Within(c, new)
  BY <1>1, <1>3, <1>4, SizesAssumption DEF Within, Data, Block, new
<1>13. \A l \in live' : \E j \in DOMAIN blocks' : Within(blocks'[j], l)
  <2> SUFFICES ASSUME NEW l \in live' PROVE \E j \in DOMAIN blocks : Within(blocks'[j], l)
    BY <1>5
  <2>1. CASE l = new  BY <1>5, <1>12, <2>1
  <2>2. CASE l \in live
    <3>1. PICK j \in DOMAIN blocks : Within(blocks[j], l)  BY <2>2 DEF LiveInv
    <3>2. Within(blocks'[j], l)
      BY <1>8, <1>10, <3>1, SizesAssumption DEF Within, Data, Block, Allocation
    <3> QED  BY <3>2
  <2> QED  BY <1>7, <2>1, <2>2
<1>14. LiveInv'  BY <1>8, <1>13 DEF LiveInv
<1>15. \A j \in DOMAIN blocks, p \in Nat : Holds(blocks'[j], p) <=> Holds(blocks[j], p)
  BY <1>10 DEF Holds, Data
<1>16. \A j \in DOMAIN blocks :
         /\ blocks'[j].allocs = Cardinality({l \in live' : Holds(blocks'[j], l.ptr)})
         /\ blocks'[j].allocs > 0
  <2> SUFFICES ASSUME NEW j \in DOMAIN blocks
               PROVE  /\ blocks'[j].allocs = Cardinality({l \in live' : Holds(blocks'[j], l.ptr)})
                      /\ blocks'[j].allocs > 0
    OBVIOUS
  <2> DEFINE old == {l \in live : Holds(blocks[j], l.ptr)}
             now == {l \in live' : Holds(blocks'[j], l.ptr)}
  <2>1. old = {l \in live : Holds(blocks'[j], l.ptr)}
    BY <1>15 DEF TypeInv, Allocation
  <2>2. IsFiniteSet(old)  BY FS_Subset DEF TypeInv
  <2>3. blocks[j].allocs = Cardinality(old) /\ blocks[j].allocs > 0
    BY DEF BlocksMatchLive, LiveIn
  <2>4. CASE j = i
    <3>1. Holds(c, new.ptr)  BY <1>4, <1>5, <1>7, <1>10, <1>12, WithinHolds
    <3>2. now = old \cup {new}  BY <1>5, <1>7, <2>1, <2>4, <3>1
    <3>3. new \notin old  BY <1>7
    <3>4. Cardinality(now) = Cardinality(old) + 1  BY <2>2, <3>2, <3>3, FS_AddElement
    <3> QED  BY <1>3, <1>4, <1>5, <2>3, <2>4, <3>4 DEF b, Block
  <2>5. CASE j # i
    <3>1. Holds(c, new.ptr)  BY <1>4, <1>5, <1>7, <1>10, <1>12, WithinHolds
    <3>2. Disjoint(blocks'[j], c)  BY <1>5, <1>11, <2>5 DEF BlocksInv
    <3>3. ~Holds(blocks'[j], new.ptr)
      BY <1>4, <1>7, <1>10, <3>1, <3>2, HeldOnce DEF Allocation
    <3>4. now = old  BY <1>7, <2>1, <3>3
    <3> QED  BY <1>5, <2>3, <2>5, <3>4
  <2> QED  BY <2>4, <2>5
<1>17. \A l \in live' : \E j \in DOMAIN blocks' : Holds(blocks'[j], l.ptr)
  BY <1>5, <1>8, <1>10, <1>13, WithinHolds
<1>18. mapped' = {Mapping(blocks'[j]) : j \in DOMAIN blocks'}
  BY <1>5, <1>6, <1>10 DEF BlocksMatchLive, Mapping
<1>19. BlocksMatchLive'
  BY <1>5, <1>16, <1>17, <1>18 DEF BlocksMatchLive, LiveIn
<1> QED  BY <1>8, <1>9, <1>11, <1>14, <1>19

---------------------------------------------------------------------------
(* The list with a new block in front.                                     *)
LEMMA Prepended ==
  ASSUME TypeInv, NEW c \in Block, blocks' = <<c>> \o blocks
  PROVE  /\ blocks' \in Seq(Block) /\ DOMAIN blocks' = 1 .. Len(blocks) + 1
         /\ Len(blocks) \in Nat /\ DOMAIN blocks = 1 .. Len(blocks)
         /\ blocks'[1] = c
         /\ \A j \in DOMAIN blocks : blocks'[j + 1] = blocks[j]
         /\ \A k \in DOMAIN blocks' : k # 1 => k - 1 \in DOMAIN blocks /\ blocks'[k] = blocks[k - 1]
BY DEF TypeInv

LEMMA AllocNewBlockKeeps ==
  ASSUME HeapInv, NEW n \in Requests, AllocNewBlock(n)
  PROVE  HeapInv'
<1> DEFINE asize == align(n, ALIGNMENT)
           memsize == MemSize(asize)
<1> USE DEF HeapInv
<1>1. n \in Nat /\ asize \in Nat /\ asize >= n  BY SizesAssumption, AlignAtLeast
<1>2. memsize \in Nat /\ memsize >= HEADER + asize
  BY <1>1, SizesAssumption, AlignAtLeast DEF MemSize
<1> HIDE DEF asize, memsize
<1>3. PICK base \in Bases :
        LET b == [base |-> base, filled |-> 0, cap |-> memsize, allocs |-> 0]
        IN  /\ Mappable(base, memsize)
            /\ mapped' = mapped \cup {[base |-> base, size |-> memsize]}
            /\ HandOut(b, n)
            /\ blocks' = <<Filled(b, asize)>> \o blocks
  BY DEF AllocNewBlock, asize, memsize
<1> DEFINE b == [base |-> base, filled |-> 0, cap |-> memsize, allocs |-> 0]
           c == Filled(b, asize)
           new == [id |-> made', ptr |-> Data(b) + b.filled, size |-> n]
<1>4. b \in Block /\ b.base = base /\ b.filled = 0 /\ b.cap = memsize /\ asize < memsize
  BY <1>1, <1>2, SizesAssumption DEF Block
<1>5. c \in Block /\ c = [base |-> base, filled |-> asize, cap |-> memsize, allocs |-> 1]
  BY <1>1, <1>4, FilledIs
<1>6. /\ blocks' \in Seq(Block) /\ DOMAIN blocks' = 1 .. Len(blocks) + 1
      /\ Len(blocks) \in Nat /\ DOMAIN blocks = 1 .. Len(blocks)
      /\ blocks'[1] = c
      /\ \A j \in DOMAIN blocks : blocks'[j + 1] = blocks[j]
      /\ \A k \in DOMAIN blocks' : k # 1 => k - 1 \in DOMAIN blocks /\ blocks'[k] = blocks[k - 1]
  <2>1. blocks' = <<c>> \o blocks  BY <1>3
  <2> HIDE DEF c
  <2> QED  BY <1>5, <2>1, Prepended
<1>7. \A i \in DOMAIN blocks : Disjoint(blocks[i], b)
  <2> SUFFICES ASSUME NEW i \in DOMAIN blocks PROVE Disjoint(blocks[i], b)
    OBVIOUS
  <2>1. Mapping(blocks[i]) \in mapped  BY DEF BlocksMatchLive
  <2>2. base + memsize <= blocks[i].base \/ blocks[i].base + blocks[i].cap <= base
    BY <1>3, <2>1 DEF Mappable, Mapping
  <2> QED  BY <1>4, <2>2 DEF Disjoint
<1>8. live' = live \cup {new} /\ new \in Allocation /\ new \notin live
  BY <1>1, <1>3, <1>4, SizesAssumption
  DEF HandOut, LiveInv, TypeInv, Data, Block, Allocation
<1>9. /\ live' \subseteq Allocation /\ IsFiniteSet(live') /\ made' \in Nat
      /\ \A l \in live' : l.id <= made'
      /\ AllocationsApart'
  <2>1. HandOut(b, n)  BY <1>3
  <2> HIDE DEF b
  <2> QED  BY <1>1, <1>4, <1>7, <2>1, HandOutKeeps
<1>10. Within(c, new) /\ c.filled < c.cap
  BY <1>1, <1>4, <1>5, SizesAssumption DEF Within, Data, new
<1>11. mapped' = mapped \cup {Mapping(c)}  BY <1>3, <1>5 DEF Mapping
<1>12. c.base \in Bases /\ c.base + c.cap <= Top  BY <1>3, <1>5 DEF Mappable
<1>13. \A i \in DOMAIN blocks : Disjoint(blocks[i], c) /\ Disjoint(c, blocks[i])
  BY <1>4, <1>5, <1>7 DEF Disjoint
<1> HIDE DEF b, c, new
<1>14. TypeInv'  BY <1>6, <1>9 DEF TypeInv
<1>15. BlocksInv'
  <2>1. \A k \in DOMAIN blocks' : /\ blocks'[k].filled < blocks'[k].cap
                                  /\ blocks'[k].base \in Bases
                                  /\ blocks'[k].base + blocks'[k].cap <= Top
    <3> SUFFICES ASSUME NEW k \in DOMAIN blocks'
                 PROVE  /\ blocks'[k].filled < blocks'[k].cap
                        /\ blocks'[k].base \in Bases
                        /\ blocks'[k].base + blocks'[k].cap <= Top
      OBVIOUS
    <3>1. CASE k = 1  BY <1>6, <1>10, <1>12, <3>1
    <3>2. CASE k # 1  BY <1>6, <3>2 DEF BlocksInv
    <3> QED  BY <3>1, <3>2
  <2>2. ASSUME NEW i \in DOMAIN blocks', NEW k \in DOMAIN blocks', i # k
        PROVE  Disjoint(blocks'[i], blocks'[k])
    <3>1. CASE i = 1  BY <1>6, <1>13, <2>2, <3>1
    <3>2. CASE k = 1  BY <1>6, <1>13, <2>2, <3>2
    <3>3. CASE i # 1 /\ k # 1
      <4>1. i - 1 \in DOMAIN blocks /\ k - 1 \in DOMAIN blocks /\ i - 1 # k - 1
        BY <1>6, <2>2, <3>3
      <4> QED  BY <1>6, <3>3, <4>1 DEF BlocksInv
    <3> QED  BY <3>1, <3>2, <3>3
  <2> QED  BY <2>1, <2>2 DEF BlocksInv
<1>16. \A l \in live' : \E k \in DOMAIN blocks' : Within(blocks'[k], l)
  <2> SUFFICES ASSUME NEW l \in live' PROVE \E k \in DOMAIN blocks' : Within(blocks'[k], l)
    OBVIOUS
  <2>1. CASE l = new  BY <1>6, <1>10, <2>1
  <2>2. CASE l \in live
    <3>1. PICK j \in DOMAIN blocks : Within(blocks[j], l)  BY <2>2 DEF LiveInv
    <3>2. j + 1 \in DOMAIN blocks' /\ blocks'[j + 1] = blocks[j]  BY <1>6
    <3> QED  BY <3>1, <3>2
  <2> QED  BY <1>8, <2>1, <2>2
<1>17. LiveInv'  BY <1>9, <1>16 DEF LiveInv
<1>18. \A l \in live' : \E k \in DOMAIN blocks' : Holds(blocks'[k], l.ptr)
  BY <1>6, <1>9, <1>15, <1>16, WithinHolds DEF BlocksInv
<1>19. Holds(c, new.ptr)  BY <1>5, <1>8, <1>10, WithinHolds
<1>20. \A l \in live : ~Holds(c, l.ptr)
  <2> SUFFICES ASSUME NEW l \in live PROVE ~Holds(c, l.ptr)
    OBVIOUS
  <2>1. PICK j \in DOMAIN blocks : Holds(blocks[j], l.ptr)  BY DEF BlocksMatchLive
  <2>2. blocks[j] \in Block /\ l.ptr \in Nat  BY DEF TypeInv, Allocation
  <2> QED  BY <1>5, <1>13, <2>1, <2>2, HeldOnce
<1>21. \A k \in DOMAIN blocks' :
         /\ blocks'[k].allocs = Cardinality({l \in live' : Holds(blocks'[k], l.ptr)})
         /\ blocks'[k].allocs > 0
  <2> SUFFICES ASSUME NEW k \in DOMAIN blocks'
               PROVE  /\ blocks'[k].allocs = Cardinality({l \in live' : Holds(blocks'[k], l.ptr)})
                      /\ blocks'[k].allocs > 0
    OBVIOUS
  <2>1. CASE k = 1
    <3>1. {l \in live' : Holds(c, l.ptr)} = {new}  BY <1>8, <1>19, <1>20
    <3>2. Cardinality({new}) = 1  BY FS_Singleton
    <3>3. blocks'[k] = c /\ c.allocs = 1  BY <1>5, <1>6, <2>1
    <3> QED  BY <3>1, <3>2, <3>3
  <2>2. CASE k # 1
    <3>1. k - 1 \in DOMAIN blocks /\ blocks'[k] = blocks[k - 1]  BY <1>6, <2>2
    <3>2. ~Holds(blocks[k - 1], new.ptr)
      BY <1>5, <1>8, <1>13, <1>19, <3>1, HeldOnce DEF TypeInv, Allocation
    <3>3. {l \in live' : Holds(blocks'[k], l.ptr)} = {l \in live : Holds(blocks[k - 1], l.ptr)}
      BY <1>8, <3>1, <3>2
    <3> QED  BY <3>1, <3>3 DEF BlocksMatchLive, LiveIn
  <2> QED  BY <2>1, <2>2
<1>22. mapped' = {Mapping(blocks'[k]) : k \in DOMAIN blocks'}
  <2>1. mapped = {Mapping(blocks[j]) : j \in DOMAIN blocks}  BY DEF BlocksMatchLive
  <2>2. \A j \in DOMAIN blocks : j + 1 \in DOMAIN blocks'  BY <1>6
  <2>3. 1 \in DOMAIN blocks'  BY <1>6
  <2>4. ASSUME NEW m PROVE m \in mapped' <=> \E k \in DOMAIN blocks' : m = Mapping(blocks'[k])
    <3>1. ASSUME m \in mapped' PROVE \E k \in DOMAIN blocks' : m = Mapping(blocks'[k])
      <4>1. CASE m = Mapping(c)  BY <1>6, <2>3, <4>1
      <4>2. CASE m \in mapped
        <5>1. PICK j \in DOMAIN blocks : m = Mapping(blocks[j])  BY <2>1, <4>2
        <5> QED  BY <1>6, <2>2, <5>1
      <4> QED  BY <1>11, <3>1, <4>1, <4>2
    <3>2. ASSUME NEW k \in DOMAIN blocks', m = Mapping(blocks'[k]) PROVE m \in mapped'
      <4>1. CASE k = 1  BY <1>6, <1>11, <3>2, <4>1
      <4>2. CASE k # 1  BY <1>6, <1>11, <2>1, <3>2, <4>2
      <4> QED  BY <4>1, <4>2
    <3> QED  BY <3>1, <3>2
  <2> QED  BY <2>4
<1>23. BlocksMatchLive'  BY <1>18, <1>21, <1>22 DEF BlocksMatchLive, LiveIn
<1> QED  BY <1>9, <1>14, <1>15, <1>17, <1>23

---------------------------------------------------------------------------
(* Freeing an allocation finds the block it is in, the only one that holds *)
(* its pointer.                                                            *)
LEMMA FoundBlock ==
  ASSUME HeapInv, NEW l \in live, NEW i \in DOMAIN blocks, IsFirst(i, Holding(l.ptr))
  PROVE  /\ blocks[i] \in Block /\ Holds(blocks[i], l.ptr)
         /\ \A j \in DOMAIN blocks : j # i => ~Holds(blocks[j], l.ptr)
<1>1. Holds(blocks[i], l.ptr)  BY DEF IsFirst, Holding
<1>2. \A j \in DOMAIN blocks : blocks[j] \in Block  BY DEF HeapInv, TypeInv
<1>3. l.ptr \in Nat  BY DEF HeapInv, TypeInv, Allocation
<1>4. ASSUME NEW j \in DOMAIN blocks, j # i PROVE ~Holds(blocks[j], l.ptr)
  <2>1. Disjoint(blocks[i], blocks[j])  BY <1>4 DEF HeapInv, BlocksInv
  <2> QED  BY <1>1, <1>2, <1>3, <2>1, HeldOnce
<1> QED  BY <1>1, <1>2, <1>4

(* What does not depend on the blocks stays true when an allocation goes.  *)
LEMMA LessLive ==
  ASSUME HeapInv, NEW l \in live, live' = live \ {l}, made' = made
  PROVE  /\ live' \subseteq Allocation /\ IsFiniteSet(live') /\ made' \in Nat
         /\ \A m \in live' : m.id <= made'
         /\ AllocationsApart'
<1>1. IsFiniteSet(live')  BY FS_RemoveElement DEF HeapInv, TypeInv
<1>2. \A m \in live' : m.id <= made'  BY DEF HeapInv, LiveInv
<1>3. AllocationsApart'  BY DEF HeapInv, AllocationsApart
<1> QED  BY <1>1, <1>2, <1>3 DEF HeapInv, TypeInv

LEMMA FreeInBlockKeeps ==
  ASSUME HeapInv, NEW l \in live, FreeKeeps(l.ptr), live' = live \ {l}, made' = made
  PROVE  HeapInv'
<1>1. PICK i \in DOMAIN blocks :
        /\ IsFirst(i, Holding(l.ptr)) /\ blocks[i].allocs # 1
        /\ blocks' = [blocks EXCEPT ![i] = [blocks[i] EXCEPT !.allocs = blocks[i].allocs - 1]]
  BY DEF FreeKeeps
<1>2. /\ blocks[i] \in Block /\ Holds(blocks[i], l.ptr)
      /\ \A j \in DOMAIN blocks : j # i => ~Holds(blocks[j], l.ptr)
  BY <1>1, FoundBlock
<1> DEFINE b == blocks[i]
           c == [b EXCEPT !.allocs = b.allocs - 1]
<1>3. /\ b.base \in Nat /\ b.filled \in Nat /\ b.cap \in Nat
      /\ b.allocs \in Nat /\ b.allocs > 1
  <2>1. b.base \in Nat /\ b.filled \in Nat /\ b.cap \in Nat /\ b.allocs \in Nat
    BY <1>2 DEF Block
  <2>2. b.allocs > 0  BY DEF HeapInv, BlocksMatchLive
  <2>3. b.allocs # 1  BY <1>1
  <2> HIDE DEF b
  <2> QED  BY <2>1, <2>2, <2>3
<1>4. c = [base |-> b.base, filled |-> b.filled, cap |-> b.cap, allocs |-> b.allocs - 1]
  BY <1>2 DEF Block
<1>5. c \in Block
  <2> HIDE DEF b, c
  <2> QED  BY <1>3, <1>4 DEF Block
<1>6. /\ blocks' \in Seq(Block) /\ DOMAIN blocks' = DOMAIN blocks /\ blocks'[i] = c
      /\ \A j \in DOMAIN blocks : j # i => blocks'[j] = blocks[j]
  <2>1. blocks' = [blocks EXCEPT ![i] = c] /\ TypeInv  BY <1>1 DEF HeapInv
  <2> HIDE DEF c
  <2> QED  BY <1>5, <2>1, Changed
<1>7. mapped' = mapped  BY DEF FreeKeeps
<1>8. /\ live' \subseteq Allocation /\ IsFiniteSet(live') /\ made' \in Nat
      /\ \A m \in live' : m.id <= made'
      /\ AllocationsApart'
  BY LessLive
<1>9. \A j \in DOMAIN blocks : /\ blocks'[j].base = blocks[j].base
                               /\ blocks'[j].cap = blocks[j].cap
                               /\ blocks'[j].filled = blocks[j].filled
  <2> HIDE DEF c
  <2> QED  BY <1>4, <1>6
<1> HIDE DEF b, c
<1>10. TypeInv'  BY <1>6, <1>8 DEF TypeInv
<1>11. BlocksInv'  BY <1>6, <1>9 DEF HeapInv, BlocksInv, Disjoint
<1>12. \A j \in DOMAIN blocks, m \in live : Within(blocks'[j], m) <=> Within(blocks[j], m)
  BY <1>9 DEF Within, Data
<1>13. LiveInv'  BY <1>6, <1>8, <1>12 DEF HeapInv, LiveInv
<1>14. \A j \in DOMAIN blocks, m \in live : Holds(blocks'[j], m.ptr) <=> Holds(blocks[j], m.ptr)
  BY <1>9 DEF Holds, Data
<1>15. \A j \in DOMAIN blocks :
         /\ blocks'[j].allocs = Cardinality({m \in live' : Holds(blocks'[j], m.ptr)})
         /\ blocks'[j].allocs > 0
  <2> SUFFICES ASSUME NEW j \in DOMAIN blocks
               PROVE  /\ blocks'[j].allocs = Cardinality({m \in live' : Holds(blocks'[j], m.ptr)})
                      /\ blocks'[j].allocs > 0
    OBVIOUS
  <2> DEFINE old == {m \in live : Holds(blocks[j], m.ptr)}
             now == {m \in live' : Holds(blocks'[j], m.ptr)}
  <2>1. IsFiniteSet(old)  BY FS_Subset DEF HeapInv, TypeInv
  <2>2. blocks[j].allocs = Cardinality(old) /\ blocks[j].allocs > 0
    BY DEF HeapInv, BlocksMatchLive, LiveIn
  <2>3. now = old \ {l}  BY <1>14
  <2>4. CASE j = i
    <3>1. l \in old  BY <1>2, <2>4
    <3>2. Cardinality(now) = Cardinality(old) - 1  BY <2>1, <2>3, <3>1, FS_RemoveElement
    <3>3. blocks'[j] = c /\ c.allocs = b.allocs - 1 /\ blocks[j] = b
      BY <1>4, <1>6, <2>4 DEF b
    <3> HIDE DEF now, old
    <3>4. blocks'[j].allocs = Cardinality(now) /\ blocks'[j].allocs > 0
      BY <1>3, <2>2, <3>2, <3>3
    <3> QED  BY <3>4 DEF now
  <2>5. CASE j # i
    <3>1. l \notin old  BY <1>2, <2>5
    <3>2. now = old  BY <2>3, <3>1
    <3> QED  BY <1>6, <2>2, <2>5, <3>2
  <2> QED  BY <2>4, <2>5
<1>16. \A m \in live' : \E j \in DOMAIN blocks' : Holds(blocks'[j], m.ptr)
  BY <1>6, <1>14 DEF HeapInv, BlocksMatchLive
<1>17. mapped' = {Mapping(blocks'[j]) : j \in DOMAIN blocks'}
  BY <1>6, <1>7, <1>9 DEF HeapInv, BlocksMatchLive, Mapping
<1>18. BlocksMatchLive'
  BY <1>6, <1>15, <1>16, <1>17 DEF BlocksMatchLive, LiveIn
<1> QED  BY <1>8, <1>10, <1>11, <1>13, <1>18 DEF HeapInv

(* The last allocation of a block takes the block with it: it was the only *)
(* one the block held.                                                     *)
LEMMA FreeBlockKeeps ==
  ASSUME HeapInv, NEW l \in live, FreeReleases(l.ptr), live' = live \ {l}, made' = made
  PROVE  HeapInv'
<1>1. PICK i \in DOMAIN blocks :
        /\ IsFirst(i, Holding(l.ptr)) /\ blocks[i].allocs = 1
        /\ blocks' = Without(blocks, i)
        /\ mapped' = mapped \ {[base |-> blocks[i].base, size |-> blocks[i].cap]}
  BY DEF FreeReleases
<1> DEFINE b == blocks[i]
           old(j) == IF j < i THEN j ELSE j + 1
           new(k) == IF k < i THEN k ELSE k - 1
<1>2. /\ b \in Block /\ Holds(b, l.ptr)
      /\ \A j \in DOMAIN blocks : j # i => ~Holds(blocks[j], l.ptr)
  BY <1>1, FoundBlock
<1>3. /\ blocks' \in Seq(Block) /\ DOMAIN blocks' = 1 .. Len(blocks) - 1
      /\ \A j \in DOMAIN blocks' :
           old(j) \in DOMAIN blocks /\ old(j) # i /\ blocks'[j] = blocks[old(j)]
      /\ \A k \in DOMAIN blocks \ {i} : new(k) \in DOMAIN blocks' /\ blocks'[new(k)] = blocks[k]
  <2>1. blocks \in Seq(Block)  BY DEF HeapInv, TypeInv
  <2> QED  BY <1>1, <2>1, WithoutIs
<1>4. \A j, k \in DOMAIN blocks' : j # k => old(j) # old(k)
  BY <1>3
<1>5. \A j \in DOMAIN blocks : blocks[j] \in Block  BY DEF HeapInv, TypeInv
<1> HIDE DEF old, new
<1>6. /\ live' \subseteq Allocation /\ IsFiniteSet(live') /\ made' \in Nat
      /\ \A m \in live' : m.id <= made'
      /\ AllocationsApart'
  BY LessLive
<1>7. LiveIn(b) = {l}
  <2>1. IsFiniteSet(LiveIn(b))  BY FS_Subset DEF HeapInv, TypeInv, LiveIn
  <2>2. Cardinality(LiveIn(b)) = 1  BY <1>1 DEF HeapInv, BlocksMatchLive
  <2>3. l \in LiveIn(b)  BY <1>2 DEF LiveIn
  <2>4. PICK x : LiveIn(b) = {x}  BY <2>1, <2>2, FS_Singleton
  <2> QED  BY <2>3, <2>4
<1>8. \A m \in live' : ~Holds(b, m.ptr)  BY <1>7 DEF LiveIn
<1>9. TypeInv'  BY <1>3, <1>6 DEF TypeInv
<1>10. BlocksInv'
  <2>1. \A j \in DOMAIN blocks' : /\ blocks'[j].filled < blocks'[j].cap
                                  /\ blocks'[j].base \in Bases
                                  /\ blocks'[j].base + blocks'[j].cap <= Top
    BY <1>3 DEF HeapInv, BlocksInv
  <2>2. \A j, k \in DOMAIN blocks' : j # k => Disjoint(blocks'[j], blocks'[k])
    BY <1>3, <1>4 DEF HeapInv, BlocksInv
  <2> QED  BY <2>1, <2>2 DEF BlocksInv
<1>11. \A m \in live' : \E j \in DOMAIN blocks' : Within(blocks'[j], m)
  <2> SUFFICES ASSUME NEW m \in live' PROVE \E j \in DOMAIN blocks' : Within(blocks'[j], m)
    OBVIOUS
  <2>1. PICK k \in DOMAIN blocks : Within(blocks[k], m)  BY DEF HeapInv, LiveInv
  <2>2. m \in Allocation /\ blocks[k] \in Block /\ blocks[k].filled < blocks[k].cap
    BY <1>5, <1>6 DEF HeapInv, BlocksInv
  <2>3. Holds(blocks[k], m.ptr)  BY <2>1, <2>2, WithinHolds
  <2>4. k # i  BY <1>8, <2>3
  <2> QED  BY <1>3, <2>1, <2>4
<1>12. LiveInv'  BY <1>6, <1>11 DEF LiveInv
<1>13. \A m \in live' : \E j \in DOMAIN blocks' : Holds(blocks'[j], m.ptr)
  <2> SUFFICES ASSUME NEW m \in live' PROVE \E j \in DOMAIN blocks' : Holds(blocks'[j], m.ptr)
    OBVIOUS
  <2>1. PICK k \in DOMAIN blocks : Holds(blocks[k], m.ptr)  BY DEF HeapInv, BlocksMatchLive
  <2>2. k # i  BY <1>8, <2>1
  <2> QED  BY <1>3, <2>1, <2>2
<1>14. \A j \in DOMAIN blocks' :
         /\ blocks'[j].allocs = Cardinality({m \in live' : Holds(blocks'[j], m.ptr)})
         /\ blocks'[j].allocs > 0
  <2> SUFFICES ASSUME NEW j \in DOMAIN blocks'
               PROVE  /\ blocks'[j].allocs = Cardinality({m \in live' : Holds(blocks'[j], m.ptr)})
                      /\ blocks'[j].allocs > 0
    OBVIOUS
  <2>1. old(j) \in DOMAIN blocks /\ old(j) # i /\ blocks'[j] = blocks[old(j)]  BY <1>3
  <2>2. ~Holds(blocks[old(j)], l.ptr)  BY <1>2, <2>1
  <2>3. {m \in live' : Holds(blocks'[j], m.ptr)} = {m \in live : Holds(blocks[old(j)], m.ptr)}
    BY <2>1, <2>2
  <2> QED  BY <2>1, <2>3 DEF HeapInv, BlocksMatchLive, LiveIn
<1>15. \A k \in DOMAIN blocks : k # i => Mapping(blocks[k]) # Mapping(b)
  <2> SUFFICES ASSUME NEW k \in DOMAIN blocks, k # i, Mapping(blocks[k]) = Mapping(b)
               PROVE  FALSE
    OBVIOUS
  <2>1. Disjoint(blocks[k], b)  BY DEF HeapInv, BlocksInv
  <2>2. blocks[k].base = b.base /\ blocks[k].cap = b.cap  BY DEF Mapping
  <2>3. b.filled < b.cap  BY DEF HeapInv, BlocksInv
  <2>4. b.base \in Nat /\ b.cap \in Nat /\ b.filled \in Nat  BY <1>2 DEF Block
  <2> HIDE DEF b
  <2> QED  BY <2>1, <2>2, <2>3, <2>4 DEF Disjoint
<1>16. mapped' = {Mapping(blocks'[j]) : j \in DOMAIN blocks'}
  <2>1. mapped' = mapped \ {Mapping(b)}  BY <1>1 DEF Mapping
  <2>2. mapped = {Mapping(blocks[k]) : k \in DOMAIN blocks}  BY DEF HeapInv, BlocksMatchLive
  <2>3. ASSUME NEW m \in mapped' PROVE \E j \in DOMAIN blocks' : m = Mapping(blocks'[j])
    <3>1. PICK k \in DOMAIN blocks : m = Mapping(blocks[k])  BY <2>1, <2>2
    <3>2. k # i  BY <2>1, <3>1
    <3> QED  BY <1>3, <3>1, <3>2
  <2>4. ASSUME NEW j \in DOMAIN blocks' PROVE Mapping(blocks'[j]) \in mapped'
    <3>1. old(j) \in DOMAIN blocks /\ old(j) # i /\ blocks'[j] = blocks[old(j)]  BY <1>3
    <3> QED  BY <1>15, <2>1, <2>2, <3>1
  <2> QED  BY <2>3, <2>4
<1>17. BlocksMatchLive'  BY <1>13, <1>14, <1>16 DEF BlocksMatchLive, LiveIn
<1> QED  BY <1>6, <1>9, <1>10, <1>12, <1>17 DEF HeapInv

(* The allocator takes no pointer that is not from here for its own,       *)
(* although a block also holds a header's length of addresses behind it.   *)
LEMMA ForeignNotHeld ==
  ASSUME HeapInv, NEW p \in Foreign
  PROVE  Holding(p) = {}
<1> SUFFICES ASSUME NEW i \in DOMAIN blocks, Holds(blocks[i], p) PROVE FALSE
  BY DEF Holding
<1>1. blocks[i] \in Block  BY DEF HeapInv, TypeInv
<1>2. blocks[i].base \in Nat /\ blocks[i].cap \in Nat  BY <1>1 DEF Block
<1>3. blocks[i].base \in Bases /\ blocks[i].base + blocks[i].cap <= Top
  BY DEF HeapInv, BlocksInv
<1>4. p \in Nat  BY SizesAssumption
<1> QED  BY <1>2, <1>3, <1>4, SizesAssumption, ForeignAssumption DEF Holds, Data

---------------------------------------------------------------------------
LEMMA HeapInit ==
  ASSUME Init
  PROVE  HeapInv
<1>1. TypeInv  BY FS_EmptySet DEF Init, TypeInv
<1>2. DOMAIN blocks = {}  BY DEF Init
<1> QED  BY <1>1, <1>2
     DEF Init, HeapInv, BlocksInv, LiveInv, AllocationsApart, BlocksMatchLive

(* A step that leaves the blocks and the allocations alone.                *)
LEMMA HeapSame ==
  ASSUME HeapInv, UNCHANGED <<blocks, mapped, live, made>>
  PROVE  HeapInv'
BY DEF HeapInv, TypeInv, BlocksInv, LiveInv, AllocationsApart, BlocksMatchLive, LiveIn

LEMMA HeapStep ==
  ASSUME HeapInv, [Next]_vars
  PROVE  HeapInv'
<1>1. ASSUME NEW n \in Requests, Alloc(n) PROVE HeapInv'
  <2>1. CASE AllocInBlock(n)  BY <2>1, AllocInBlockKeeps
  <2>2. CASE AllocNewBlock(n)  BY <2>2, AllocNewBlockKeeps
  <2>3. CASE MmapFails(n)  BY <2>3, HeapSame DEF MmapFails
  <2> QED  BY <1>1, <2>1, <2>2, <2>3 DEF Alloc
<1>2. CASE FreeLive
  <2>1. PICK l \in live : Free(l.ptr) /\ live' = live \ {l} /\ made' = made
    BY <1>2 DEF FreeLive
  <2>2. CASE FreeKeeps(l.ptr)  BY <2>1, <2>2, FreeInBlockKeeps
  <2>3. CASE FreeReleases(l.ptr)  BY <2>1, <2>3, FreeBlockKeeps
  <2>4. CASE FreeIgnores(l.ptr)
    <3>1. \E i \in DOMAIN blocks : Holds(blocks[i], l.ptr)  BY DEF HeapInv, BlocksMatchLive
    <3> QED  BY <2>4, <3>1 DEF FreeIgnores, Holding
  <2> QED  BY <2>1, <2>2, <2>3, <2>4 DEF Free
<1>3. CASE FreeForeign
  <2>1. PICK p \in Foreign : Free(p) /\ UNCHANGED <<live, made>>  BY <1>3 DEF FreeForeign
  <2>2. Holding(p) = {}  BY ForeignNotHeld
  <2>3. UNCHANGED <<blocks, mapped>>
    BY <2>1, <2>2 DEF Free, FreeKeeps, FreeReleases, FreeIgnores, IsFirst
  <2> QED  BY <2>1, <2>3, HeapSame
<1>4. CASE Overwrite  BY <1>4, HeapSame DEF Overwrite
<1>5. CASE UNCHANGED vars  BY <1>5, HeapSame DEF vars
<1> QED  BY <1>1, <1>2, <1>3, <1>4, <1>5 DEF Next

(* The inductive invariant of the allocator: mappings are disjoint, every  *)
(* allocation is in the filled part of a block, and blocks count right.    *)
THEOREM HeapInvariant == Spec => []HeapInv
<1>1. Init => HeapInv  BY HeapInit
<1>2. HeapInv /\ [Next]_vars => HeapInv'  BY HeapStep
<1> QED  BY <1>1, <1>2, PTL DEF Spec

(* alloc() never gives a byte to two allocations (mem.cb:79-115), for all  *)
(* sizes of pages, headers and requests, and however the system maps.      *)
THEOREM HeapApart == Spec => []AllocationsApart
<1>1. HeapInv => AllocationsApart  BY DEF HeapInv
<1> QED  BY <1>1, HeapInvariant, PTL

(* free() finds the right block for every allocation, counts it down and   *)
(* releases it with the last one (mem.cb:117-153).                         *)
THEOREM HeapCounts == Spec => []BlocksMatchLive
<1>1. HeapInv => BlocksMatchLive  BY DEF HeapInv
<1> QED  BY <1>1, HeapInvariant, PTL
=============================================================================
