------------------------------- MODULE ZshHeap -------------------------------
(***************************************************************************)
(* The heap stack of mem.c: halloc(), pushheap(), freeheap(), popheap().   *)
(*                                                                         *)
(* A pool ("heap") is an arena filled from the bottom; used is its fill    *)
(* mark.  pushheap() stacks the mark of every pool, freeheap() goes back   *)
(* to the stacked mark, popheap() does too and unstacks it, and frees the  *)
(* pools that have none.  Sizes are counted in units of H_ISIZE, so that   *)
(* the rounding of halloc() has been done.                                 *)
(***************************************************************************)
EXTENDS Integers, Sequences

CONSTANTS
  HeapIds,          \* bound: the pools malloc() can provide
  HEAP_ARENA_SIZE,  \* units in the arena of an ordinary pool
  Sizes,            \* the sizes asked of halloc()
  MaxLevel          \* bound: nesting of pushheap()

ASSUME HeapAssumption ==
  /\ HEAP_ARENA_SIZE \in Nat \ {0}
  /\ Sizes \subseteq Nat \ {0}
  /\ MaxLevel \in Nat

VARIABLES
  heaps,      \* the list of pools, in order
  used,       \* per pool: its fill mark
  sp,         \* per pool: the stacked marks, the last one on top
  allocated,  \* the pools malloc() gave and zfree() has not taken back
  size,       \* per pool: units of its arena
  level,      \* the callers' nesting: pushheap() minus popheap()
  blocks      \* history: the blocks below the marks, with the level they belong to

vars == <<heaps, used, sp, allocated, size, level, blocks>>

Block == [heap : HeapIds, lo : Nat, hi : Nat, region : Nat]

Init ==
  /\ heaps = <<>>
  /\ used = [h \in HeapIds |-> 0]
  /\ sp = [h \in HeapIds |-> <<>>]
  /\ allocated = {}
  /\ size = [h \in HeapIds |-> 0]
  /\ level = 0
  /\ blocks = {}

NewBlock(h, lo, n) == [heap |-> h, lo |-> lo, hi |-> lo + n, region |-> level]

Fits(i, n) == used[heaps[i]] + n <= HEAP_ARENA_SIZE

\* halloc(): the first pool of the list with room.
HallocFrom(i, n) ==
  /\ i \in 1 .. Len(heaps)
  /\ Fits(i, n)
  /\ \A j \in 1 .. i - 1 : ~ Fits(j, n)
  /\ used' = [used EXCEPT ![heaps[i]] = @ + n]
  /\ blocks' = blocks \cup {NewBlock(heaps[i], used[heaps[i]], n)}
  /\ UNCHANGED <<heaps, sp, allocated, size, level>>

\* halloc(): no pool has room; a new one, large enough, goes to the end.
HallocNew(h, n) ==
  /\ \A j \in 1 .. Len(heaps) : ~ Fits(j, n)
  /\ h \in HeapIds \ allocated
  /\ allocated' = allocated \cup {h}
  /\ size' = [size EXCEPT ![h] = IF HEAP_ARENA_SIZE > n THEN HEAP_ARENA_SIZE ELSE n]
  /\ used' = [used EXCEPT ![h] = n]
  /\ sp' = [sp EXCEPT ![h] = <<>>]
  /\ heaps' = Append(heaps, h)
  /\ blocks' = blocks \cup {NewBlock(h, 0, n)}
  /\ UNCHANGED level

Halloc == \E n \in Sizes :
  \/ \E i \in 1 .. Len(heaps) : HallocFrom(i, n)
  \/ \E h \in HeapIds : HallocNew(h, n)

InList(h) == \E i \in 1 .. Len(heaps) : heaps[i] = h
Stacked(h) == sp[h] # <<>>
TopMark(h) == sp[h][Len(sp[h])]
Unstack(s) == SubSeq(s, 1, Len(s) - 1)

pushheap ==
  /\ level < MaxLevel
  /\ level' = level + 1
  /\ sp' = [h \in HeapIds |-> IF InList(h) THEN Append(sp[h], used[h]) ELSE sp[h]]
  /\ UNCHANGED <<heaps, used, allocated, size, blocks>>

\* Mutant: back to the oldest mark instead of the last.
ResetMark_Oldest(h) == IF Stacked(h) THEN sp[h][1] ELSE 0

\* The mark both freeheap() and popheap() go back to.
ResetMark(h) == IF Stacked(h) THEN TopMark(h) ELSE 0

Reset(h) == IF InList(h) THEN ResetMark(h) ELSE used[h]

BelowReset == {b \in blocks : b.hi <= ResetMark(b.heap)}

freeheap ==
  /\ used' = [h \in HeapIds |-> Reset(h)]
  /\ blocks' = BelowReset
  /\ UNCHANGED <<heaps, sp, allocated, size, level>>

\* The list is cut behind the last pool that had a mark (hl); the pools
\* without one are given back wherever they stand in it.
CutBehindLastStacked(new) ==
  \/ /\ \A i \in 1 .. Len(heaps) : ~ Stacked(heaps[i])
     /\ new = <<>>
  \/ \E k \in 1 .. Len(heaps) :
       /\ Stacked(heaps[k])
       /\ \A i \in k + 1 .. Len(heaps) : ~ Stacked(heaps[i])
       /\ new = SubSeq(heaps, 1, k)

popheap ==
  /\ level > 0
  /\ level' = level - 1
  /\ used' = [h \in HeapIds |-> Reset(h)]
  /\ sp' = [h \in HeapIds |-> IF InList(h) /\ Stacked(h) THEN Unstack(sp[h]) ELSE sp[h]]
  /\ allocated' = {h \in allocated : InList(h) => Stacked(h)}
  /\ CutBehindLastStacked(heaps')
  /\ blocks' = BelowReset
  /\ UNCHANGED size

Next == Halloc \/ pushheap \/ freeheap \/ popheap

Spec == Init /\ [][Next]_vars

-----------------------------------------------------------------------------
(* Properties. *)

\* Types.
TypeOK ==
  /\ heaps \in Seq(HeapIds)
  /\ used \in [HeapIds -> Nat]
  /\ sp \in [HeapIds -> Seq(Nat)]
  /\ allocated \in SUBSET HeapIds
  /\ size \in [HeapIds -> Nat]
  /\ level \in 0 .. MaxLevel
  /\ blocks \in SUBSET Block

\* The list of pools holds exactly the memory the allocator owns, each pool
\* once: popheap() frees no pool that stays linked and loses none.
ListIsAllocated ==
  /\ \A h \in HeapIds : h \in allocated <=> InList(h)
  /\ \A i, j \in 1 .. Len(heaps) : heaps[i] = heaps[j] => i = j

\* No block reaches past the arena it was cut from.
BlocksInArena == \A b \in blocks : b.heap \in allocated /\ b.hi <= size[b.heap]

\* The marks implement the regions the callers rely on: a block survives
\* exactly until its own region is freed or popped, and never shares memory.
Region == INSTANCE RegionStack
RegionContract == Region!Spec

-----------------------------------------------------------------------------
(* What makes those properties inductive. *)

\* The level at which a pool was created: it has one mark per later pushheap().
Base(h) == level - Len(sp[h])

\* Older pools come first, so popheap() always drops a tail of the list.
OldestFirst ==
  /\ \A h \in allocated : Base(h) >= 0
  /\ \A i, j \in 1 .. Len(heaps) : i < j => Base(heaps[i]) <= Base(heaps[j])

\* The marks of a pool grow, and never pass its fill mark.
MarksGrow == \A h \in allocated :
  /\ \A i, j \in 1 .. Len(sp[h]) : i <= j => sp[h][i] <= sp[h][j]
  /\ \A i \in 1 .. Len(sp[h]) : sp[h][i] <= used[h]

ArenaHoldsASection == \A h \in allocated : HEAP_ARENA_SIZE <= size[h]

\* Mark i of a pool separates the blocks older than the pushheap() that
\* stacked it from the younger ones.
MarksSplitBlocks == \A b \in blocks :
  /\ b.lo < b.hi
  /\ b.hi <= used[b.heap]
  /\ Base(b.heap) <= b.region /\ b.region <= level
  /\ \A i \in 1 .. Len(sp[b.heap]) :
       b.hi <= sp[b.heap][i] <=> b.region < Base(b.heap) + i

IInv ==
  /\ TypeOK
  /\ ListIsAllocated
  /\ BlocksInArena
  /\ OldestFirst
  /\ MarksGrow
  /\ ArenaHoldsASection
  /\ MarksSplitBlocks

\* Pools are interchangeable.
PoolSymmetry ==
  {[h \in HeapIds |-> f[h]] : f \in {f \in [HeapIds -> HeapIds] : \A h \in HeapIds : \E g \in HeapIds : f[g] = h}}
=============================================================================
