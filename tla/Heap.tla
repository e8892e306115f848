-------------------------------- MODULE Heap --------------------------------
(***************************************************************************)
(* The allocator of the standard library (stdlib mem.cb, linux/mem.cb).    *)
(* Memory comes from the system in mappings of whole pages.  Each mapping  *)
(* is a block: a memory_block in front, behind it the allocations one      *)
(* after the other.  A block counts the allocations in use and goes back   *)
(* to the system with the last one; free() finds the block by its address. *)
(*                                                                         *)
(* The program that allocates is the environment: it frees what it holds,  *)
(* or pointers that were never allocated here, and writes what it holds.   *)
(***************************************************************************)
EXTENDS Integers, Sequences, FiniteSets

CONSTANTS ALIGNMENT, PAGE_SIZE,
          HEADER,      \* sizeof(memory_block)
          Bases, Top,  \* where the system may map pages, and where it ends
          Requests,    \* the sizes a program asks for
          Foreign,     \* the pointers a program frees that are not from here
          MaxAllocs    \* how often a program allocates

ASSUME SizesAssumption ==
  /\ ALIGNMENT \in Nat \ {0} /\ PAGE_SIZE \in Nat \ {0} /\ HEADER \in Nat \ {0}
  /\ Bases \subseteq Nat /\ Top \in Nat
  /\ Requests \subseteq Nat /\ Foreign \subseteq Nat

\* Foreign pointers are below all mappings or above, but not just above.
ASSUME ForeignAssumption ==
  \A p \in Foreign : p >= Top + HEADER \/ \A base \in Bases : p < base

VARIABLES blocks,    \* the list from last_block on
          mapped,    \* what the system has mapped
          live,      \* the allocations the program holds
          made,      \* how many it has made
          status     \* "running", or how the program went wrong

vars == <<blocks, mapped, live, made, status>>

Running == status = "running"

---------------------------------------------------------------------------
(* Sizes wrap at 64 bits in the code; the requests are far below.          *)

align(size, alignment) == size + ((-size) % alignment)

\* mem.cb: a block and the allocations in it.
Data(b) == b.base + HEADER

(* Mutant: asks whether the block is full, not whether the size fits.      *)
FitsAny(b, asize) == b.filled < b.cap

Fits(b, asize) == b.filled + asize < b.cap

(* Mutant: a block ends where its mapping ends.                            *)
HoldsMapping(b, ptr) == Data(b) <= ptr /\ ptr < b.base + b.cap

Holds(b, ptr) == Data(b) <= ptr /\ ptr < Data(b) + b.cap

Fitting(asize) == {i \in DOMAIN blocks : Fits(blocks[i], asize)}
Holding(ptr) == {i \in DOMAIN blocks : Holds(blocks[i], ptr)}

\* Both functions walk the list up to the first block they look for.
IsFirst(i, found) == i \in found /\ \A j \in found : i <= j

\* What the program gets: it may use n bytes from there on.
HandOut(b, n) ==
  /\ made' = made + 1
  /\ live' = live \cup {[id |-> made', ptr |-> Data(b) + b.filled, size |-> n]}

Filled(b, asize) == [b EXCEPT !.filled = @ + asize, !.allocs = @ + 1]

---------------------------------------------------------------------------
(* The system: mmap answers with any pages that are free, or fails with an *)
(* errno, -1 being EPERM.  The system call is not wrapped.                 *)

EPERM  == 1
ENOMEM == 12

Mappable(base, size) ==
  /\ base + size <= Top
  /\ \A m \in mapped : base + size <= m.base \/ m.base + m.size <= base

---------------------------------------------------------------------------
(* mem::alloc *)

AllocInBlock(n) ==
  /\ \E i \in DOMAIN blocks :
       LET asize == align(n, ALIGNMENT)
       IN  /\ IsFirst(i, Fitting(asize))
           /\ HandOut(blocks[i], n)
           /\ blocks' = [blocks EXCEPT ![i] = Filled(@, asize)]
  /\ UNCHANGED <<mapped, status>>

MemSize(asize) == align(HEADER + asize, PAGE_SIZE)

AllocNewBlock(n) ==
  LET asize == align(n, ALIGNMENT)
      memsize == MemSize(asize)
  IN  /\ Fitting(asize) = {}
      /\ \E base \in Bases :
           LET newblock == [base |-> base, filled |-> 0, cap |-> memsize, allocs |-> 0]
           IN  /\ Mappable(base, memsize)
               /\ mapped' = mapped \cup {[base |-> base, size |-> memsize]}
               /\ HandOut(newblock, n)
               /\ blocks' = <<Filled(newblock, asize)>> \o blocks
      /\ UNCHANGED status

\* Only -1 is taken for a failure: the header is written to any other result.
MmapFails(n) ==
  /\ Fitting(align(n, ALIGNMENT)) = {}
  /\ \E errno \in {EPERM, ENOMEM} :
       status' = IF errno = EPERM THEN status ELSE "crashed"
  /\ UNCHANGED <<blocks, mapped, live, made>>

Alloc(n) ==
  /\ Running /\ made < MaxAllocs
  /\ AllocInBlock(n) \/ AllocNewBlock(n) \/ MmapFails(n)

---------------------------------------------------------------------------
(* mem::free *)

Without(s, i) == [j \in 1 .. Len(s) - 1 |-> IF j < i THEN s[j] ELSE s[j + 1]]

FreeKeeps(ptr) ==
  /\ \E i \in DOMAIN blocks :
       /\ IsFirst(i, Holding(ptr))
       /\ blocks[i].allocs # 1
       /\ blocks' = [blocks EXCEPT ![i].allocs = @ - 1]
  /\ UNCHANGED mapped

FreeReleases(ptr) ==
  \E i \in DOMAIN blocks :
    /\ IsFirst(i, Holding(ptr))
    /\ blocks[i].allocs = 1
    /\ blocks' = Without(blocks, i)
    /\ mapped' = mapped \ {[base |-> blocks[i].base, size |-> blocks[i].cap]}

\* This pointer did not come from here.
FreeIgnores(ptr) ==
  /\ Holding(ptr) = {}
  /\ UNCHANGED <<blocks, mapped>>

Free(ptr) == FreeKeeps(ptr) \/ FreeReleases(ptr) \/ FreeIgnores(ptr)

---------------------------------------------------------------------------
(* The program *)

FreeLive ==
  /\ Running
  /\ \E l \in live : Free(l.ptr) /\ live' = live \ {l}
  /\ UNCHANGED <<made, status>>

FreeForeign ==
  /\ Running
  /\ \E p \in Foreign : Free(p)
  /\ UNCHANGED <<live, made, status>>

\* Writing an allocation that passes the end of its block destroys the header
\* of a block behind, or meets memory that is not there.
Overwrite ==
  /\ Running
  /\ \E l \in live, b \in {blocks[i] : i \in DOMAIN blocks} :
       /\ Holds(b, l.ptr) /\ l.ptr + l.size > b.base + b.cap
       /\ status' = IF \E m \in mapped : m.base = b.base + b.cap THEN "corrupt" ELSE "crashed"
  /\ UNCHANGED <<blocks, mapped, live, made>>

Init ==
  /\ blocks = <<>> /\ mapped = {} /\ live = {} /\ made = 0
  /\ status = "running"

Next ==
  \/ \E n \in Requests : Alloc(n)
  \/ FreeLive
  \/ FreeForeign
  \/ Overwrite

Spec == Init /\ [][Next]_vars

---------------------------------------------------------------------------

Apart(l, m) == l.ptr + l.size <= m.ptr \/ m.ptr + m.size <= l.ptr

\* No byte belongs to two allocations, although the end of a block is tested
\* without its header (mem.cb:84): an allocation may pass the end of its block,
\* but not the header of the block that may follow in memory.
AllocationsApart == \A l, m \in live : l # m => Apart(l, m)

Mapping(b) == [base |-> b.base, size |-> b.cap]
LiveIn(b) == {l \in live : Holds(b, l.ptr)}

\* free() finds the block of every allocation by its address alone (mem.cb:123):
\* each block counts the allocations the program holds in it, and is given
\* back to the system with the last of them, not before and not later.
BlocksMatchLive ==
  /\ \A l \in live : \E i \in DOMAIN blocks : Holds(blocks[i], l.ptr)
  /\ \A i \in DOMAIN blocks :
       blocks[i].allocs = Cardinality(LiveIn(blocks[i])) /\ blocks[i].allocs > 0
  /\ mapped = {Mapping(blocks[i]) : i \in DOMAIN blocks}
=============================================================================
