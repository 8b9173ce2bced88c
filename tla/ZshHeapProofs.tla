---------------------------- MODULE ZshHeapProofs ----------------------------
(***************************************************************************)
(* Proofs about the heap stack of mem.c: the inductive invariant IInv, the *)
(* safety properties it implies, and that the marks implement the regions  *)
(* of RegionStack.                                                         *)
(***************************************************************************)
EXTENDS ZshHeap, SequenceTheorems, TLAPS

-----------------------------------------------------------------------------
(* What a step does to the pools of the list and to their marks.           *)

\* A pool is in the list exactly when the allocator owns it.
LEMMA AllocatedInList ==
  ASSUME ListIsAllocated, NEW h \in HeapIds
  PROVE  h \in allocated <=> InList(h)
  BY DEF ListIsAllocated

\* Stacking a mark.
LEMMA AppendMark ==
  ASSUME NEW s \in Seq(Nat), NEW m \in Nat
  PROVE  /\ Append(s, m) \in Seq(Nat)
         /\ Len(s) \in Nat /\ Len(Append(s, m)) = Len(s) + 1
         /\ \A i \in 1 .. Len(s) : Append(s, m)[i] = s[i]
         /\ Append(s, m)[Len(s) + 1] = m
  BY AppendProperties, LenProperties

\* Unstacking one.
LEMMA UnstackMark ==
  ASSUME NEW s \in Seq(Nat), s # <<>>
  PROVE  /\ Unstack(s) \in Seq(Nat)
         /\ Len(s) \in Nat \ {0} /\ Len(Unstack(s)) = Len(s) - 1
         /\ \A i \in 1 .. Len(s) - 1 : Unstack(s)[i] = s[i]
         /\ s[Len(s)] \in Nat
<1>1. Len(s) \in Nat /\ Len(s) > 0 /\ s[Len(s)] \in Nat
  BY EmptySeq, LenProperties, ElementOfSeq
<1> DEFINE n == Len(s) - 1
<1>2. n \in 0 .. Len(s) /\ \A i \in 1 .. n : i \in 1 .. Len(s) + 1
  BY <1>1
<1>3. \A i \in 1 .. n : s[i] \in Nat
  BY <1>1, ElementOfSeq
<1> HIDE DEF n
<1>4. /\ SubSeq(s, 1, n) \in Seq(Nat)
      /\ Len(SubSeq(s, 1, n)) = IF 1 <= n THEN n - 1 + 1 ELSE 0
      /\ \A i \in 1 .. n - 1 + 1 : SubSeq(s, 1, n)[i] = s[1 + i - 1]
  <2>1. 1 \in 1 .. Len(s) + 1
    BY <1>1
  <2> QED BY <1>1, <1>2, <2>1, SubSeqProperties
<1>5. /\ Len(SubSeq(s, 1, n)) = n
      /\ \A i \in 1 .. n : SubSeq(s, 1, n)[i] = s[i]
  BY <1>1, <1>2, <1>4
<1> QED BY <1>1, <1>4, <1>5 DEF Unstack, n

\* The list popheap() leaves is a prefix, cut behind the last stacked pool.
LEMMA CutIsPrefix ==
  ASSUME NEW new, heaps \in Seq(HeapIds), CutBehindLastStacked(new)
  PROVE  /\ new \in Seq(HeapIds)
         /\ Len(new) \in Nat /\ Len(heaps) \in Nat /\ Len(new) <= Len(heaps)
         /\ \A i \in 1 .. Len(new) : new[i] = heaps[i]
         /\ Len(new) > 0 => Stacked(heaps[Len(new)])
         /\ \A i \in Len(new) + 1 .. Len(heaps) : ~ Stacked(heaps[i])
<1>1. Len(heaps) \in Nat
  BY LenProperties
<1>2. CASE new = <<>> /\ \A i \in 1 .. Len(heaps) : ~ Stacked(heaps[i])
  BY <1>1, <1>2, EmptySeq
<1>3. ASSUME NEW k \in 1 .. Len(heaps), Stacked(heaps[k]),
             \A i \in k + 1 .. Len(heaps) : ~ Stacked(heaps[i]),
             new = SubSeq(heaps, 1, k)
      PROVE  /\ new \in Seq(HeapIds)
             /\ Len(new) = k
             /\ \A i \in 1 .. k : new[i] = heaps[i]
  BY <1>1, <1>3, SubSeqProperties, ElementOfSeq
<1> QED BY <1>1, <1>2, <1>3 DEF CutBehindLastStacked
\* What a new block is made of.
LEMMA NewBlockFields ==
  ASSUME TypeOK, NEW h \in HeapIds, NEW lo \in Nat, NEW n \in Sizes
  PROVE  /\ NewBlock(h, lo, n) \in Block
         /\ NewBlock(h, lo, n).heap = h /\ NewBlock(h, lo, n).region = level
         /\ NewBlock(h, lo, n).lo = lo /\ NewBlock(h, lo, n).hi = lo + n
         /\ n \in Nat \ {0}
  BY HeapAssumption DEF NewBlock, Block, TypeOK

\* Counting the marks of a pool from its first one or from the last.
LEMMA MarkArithmetic ==
  ASSUME NEW lev \in Nat, NEW len \in Nat
  PROVE  /\ \A k \in 1 .. len : ~ (lev < lev - len + k)
         /\ lev - len + (len + 1) = lev + 1
         /\ (lev + 1) - (len + 1) = lev - len
         /\ lev - len + len = lev
  OBVIOUS

-----------------------------------------------------------------------------
(* The inductive invariant.                                                *)

LEMMA InitInv == Init => IInv
<1> SUFFICES ASSUME Init PROVE IInv
  OBVIOUS
<1>1. heaps \in Seq(HeapIds) /\ Len(heaps) = 0
  BY EmptySeq DEF Init
<1>2. sp \in [HeapIds -> Seq(Nat)]
  BY EmptySeq DEF Init
<1>3. TypeOK
  BY <1>1, <1>2, HeapAssumption DEF Init, TypeOK
<1>4. ListIsAllocated
  BY <1>1 DEF Init, ListIsAllocated, InList
<1>5. OldestFirst
  BY <1>1 DEF Init, OldestFirst
<1> QED
  BY <1>3, <1>4, <1>5
  DEF Init, IInv, BlocksInArena, MarksGrow, ArenaHoldsASection, MarksSplitBlocks

\* halloc() from a pool that has room.
LEMMA HallocFromInv ==
  ASSUME IInv, NEW n \in Sizes, NEW i \in 1 .. Len(heaps), HallocFrom(i, n)
  PROVE  IInv'
<1> DEFINE h == heaps[i]
           b0 == NewBlock(h, used[h], n)
<1> USE DEF IInv
<1>1. h \in HeapIds /\ h \in allocated /\ used[h] \in Nat /\ size[h] \in Nat
  BY ElementOfSeq DEF TypeOK, ListIsAllocated, InList
<1> HIDE DEF h
<1>2. /\ b0 \in Block /\ b0.heap = h /\ b0.region = level
      /\ b0.lo = used[h] /\ b0.hi = used[h] + n /\ n \in Nat \ {0}
  BY <1>1, NewBlockFields
<1>3. /\ used' = [used EXCEPT ![h] = used[h] + n]
      /\ used[h] + n <= HEAP_ARENA_SIZE
      /\ blocks' = blocks \cup {b0}
      /\ UNCHANGED <<heaps, sp, allocated, size, level>>
  BY DEF HallocFrom, Fits, h
<1> HIDE DEF b0
<1>4. \A g \in HeapIds : used[g] \in Nat /\ used'[g] = IF g = h THEN used[h] + n ELSE used[g]
  BY <1>1, <1>3 DEF TypeOK
<1>5. TypeOK'
  BY <1>1, <1>2, <1>3 DEF TypeOK
<1>6. ListIsAllocated'
  BY <1>3 DEF ListIsAllocated, InList
<1>7. ArenaHoldsASection'
  BY <1>3 DEF ArenaHoldsASection
<1>8. BlocksInArena'
  BY <1>1, <1>2, <1>3, HeapAssumption DEF BlocksInArena, ArenaHoldsASection, TypeOK
<1>9. OldestFirst'
  BY <1>3 DEF OldestFirst, Base
<1>10. MarksGrow'
  <2> SUFFICES ASSUME NEW g \in allocated, NEW k \in 1 .. Len(sp[g])
               PROVE  sp[g][k] <= used'[g]
    BY <1>3 DEF MarksGrow
  <2>1. g \in HeapIds /\ sp[g][k] \in Nat /\ sp[g][k] <= used[g]
    BY ElementOfSeq DEF TypeOK, MarksGrow
  <2> QED BY <1>2, <1>4, <2>1
<1>11. MarksSplitBlocks'
  <2>1. ASSUME NEW b \in blocks
        PROVE  b.hi <= used'[b.heap]
    <3>1. b \in Block /\ b.heap \in HeapIds /\ b.hi \in Nat /\ b.hi <= used[b.heap]
      BY DEF MarksSplitBlocks, TypeOK, Block
    <3> QED BY <1>2, <1>4, <3>1
  <2>2. /\ b0.lo < b0.hi /\ b0.hi <= used'[b0.heap]
        /\ Len(sp[h]) \in Nat
        /\ Base(b0.heap) <= b0.region /\ b0.region <= level
    BY <1>1, <1>2, <1>4, LenProperties DEF Base, TypeOK
  <2>3. ASSUME NEW k \in 1 .. Len(sp[h])
        PROVE  b0.hi <= sp[h][k] <=> b0.region < Base(h) + k
    <3>1. sp[h][k] \in Nat /\ sp[h][k] <= used[h]
      BY <1>1, ElementOfSeq DEF TypeOK, MarksGrow
    <3>2. ~ (b0.hi <= sp[h][k])
      BY <1>1, <1>2, <3>1
    <3>3. ~ (b0.region < Base(h) + k)
      <4>1. level \in Nat /\ Len(sp[h]) \in Nat /\ k \in 1 .. Len(sp[h])
        BY <2>2, HeapAssumption DEF TypeOK
      <4>2. ~ (level < level - Len(sp[h]) + k)
        BY <4>1, MarkArithmetic
      <4> QED BY <1>2, <4>2 DEF Base
    <3> QED BY <3>2, <3>3
  <2> QED BY <1>2, <1>3, <2>1, <2>2, <2>3 DEF MarksSplitBlocks, Base
<1> QED BY <1>5, <1>6, <1>7, <1>8, <1>9, <1>10, <1>11

\* halloc() from a new pool.
LEMMA HallocNewInv ==
  ASSUME IInv, NEW n \in Sizes, NEW h \in HeapIds, HallocNew(h, n)
  PROVE  IInv'
<1> DEFINE b0 == NewBlock(h, 0, n)
           sz == IF HEAP_ARENA_SIZE > n THEN HEAP_ARENA_SIZE ELSE n
<1> USE DEF IInv
<1>1. /\ b0 \in Block /\ b0.heap = h /\ b0.region = level
      /\ b0.lo = 0 /\ b0.hi = n /\ n \in Nat \ {0}
  BY NewBlockFields
<1>2. /\ h \notin allocated /\ allocated' = allocated \cup {h}
      /\ size' = [size EXCEPT ![h] = sz]
      /\ used' = [used EXCEPT ![h] = n]
      /\ sp' = [sp EXCEPT ![h] = <<>>]
      /\ heaps' = Append(heaps, h)
      /\ blocks' = blocks \cup {b0}
      /\ level' = level
  BY DEF HallocNew
<1>3. sz \in Nat /\ HEAP_ARENA_SIZE <= sz /\ n <= sz
  <2>1. n \in Nat
    BY HeapAssumption
  <2> QED BY <2>1, HeapAssumption
<1> HIDE DEF b0, sz
<1>4. /\ heaps' \in Seq(HeapIds)
      /\ Len(heaps) \in Nat /\ Len(heaps') = Len(heaps) + 1
      /\ \A i \in 1 .. Len(heaps) : heaps'[i] = heaps[i]
      /\ heaps'[Len(heaps) + 1] = h
  BY <1>2, AppendProperties, LenProperties DEF TypeOK
<1>5. /\ <<>> \in Seq(Nat) /\ Len(<<>>) = 0
  BY EmptySeq
<1>6. TypeOK'
  BY <1>1, <1>2, <1>3, <1>4, <1>5 DEF TypeOK
<1>7. \A g \in allocated : /\ g # h /\ g \in HeapIds
                           /\ sp'[g] = sp[g] /\ used'[g] = used[g] /\ size'[g] = size[g]
                           /\ level' - Len(sp'[g]) = Base(g)
  BY <1>2 DEF TypeOK, Base
<1>8. sp'[h] = <<>> /\ used'[h] = n /\ size'[h] = sz /\ level' - Len(sp'[h]) = level
  BY <1>2, <1>5, HeapAssumption DEF TypeOK
<1>9. \A i \in 1 .. Len(heaps) : heaps[i] \in allocated
  BY ElementOfSeq DEF TypeOK, ListIsAllocated, InList
<1>10. ListIsAllocated'
  <2>1. ASSUME NEW g \in HeapIds
        PROVE  InList(g)' <=> InList(g) \/ g = h
    BY <1>4 DEF InList
  <2>2. \A i, j \in 1 .. Len(heaps') : heaps'[i] = heaps'[j] => i = j
    BY <1>2, <1>4, <1>9 DEF ListIsAllocated
  <2> QED BY <1>2, <2>1, <2>2 DEF ListIsAllocated
<1>11. ArenaHoldsASection'
  BY <1>2, <1>3, <1>7, <1>8 DEF ArenaHoldsASection
<1>12. BlocksInArena'
  BY <1>1, <1>2, <1>3, <1>7, <1>8 DEF BlocksInArena
<1>13. OldestFirst'
  <2>1. \A g \in allocated : Base(g) >= 0 /\ Base(g) <= level
    BY LenProperties DEF OldestFirst, Base, TypeOK
  <2>2. \A g \in allocated' : level' - Len(sp'[g]) >= 0
    BY <1>2, <1>7, <1>8, <2>1 DEF TypeOK
  <2>3. ASSUME NEW i \in 1 .. Len(heaps'), NEW j \in 1 .. Len(heaps'), i < j
        PROVE  level' - Len(sp'[heaps'[i]]) <= level' - Len(sp'[heaps'[j]])
    <3>1. i \in 1 .. Len(heaps) /\ heaps'[i] = heaps[i] /\ heaps[i] \in allocated
      BY <1>4, <1>9, <2>3
    <3>2. CASE j \in 1 .. Len(heaps)
      BY <1>4, <1>7, <1>9, <2>3, <3>1, <3>2 DEF OldestFirst
    <3>3. CASE j = Len(heaps) + 1
      BY <1>4, <1>7, <1>8, <2>1, <3>1, <3>3
    <3> QED BY <1>4, <3>2, <3>3
  <2> QED BY <2>2, <2>3 DEF OldestFirst, Base
<1>14. MarksGrow'
  BY <1>2, <1>5, <1>7, <1>8 DEF MarksGrow
<1>15. MarksSplitBlocks'
  <2>1. \A b \in blocks : b.heap \in allocated
    BY DEF BlocksInArena
  <2>2. ASSUME NEW b \in blocks
        PROVE  /\ b.lo < b.hi
               /\ b.hi <= used'[b.heap]
               /\ level' - Len(sp'[b.heap]) <= b.region /\ b.region <= level'
               /\ \A i \in 1 .. Len(sp'[b.heap]) :
                    b.hi <= sp'[b.heap][i] <=> b.region < level' - Len(sp'[b.heap]) + i
    BY <1>2, <1>7, <2>1 DEF MarksSplitBlocks
  <2>3. /\ b0.lo < b0.hi
        /\ b0.hi <= used'[b0.heap]
        /\ level' - Len(sp'[b0.heap]) <= b0.region /\ b0.region <= level'
        /\ \A i \in 1 .. Len(sp'[b0.heap]) :
             b0.hi <= sp'[b0.heap][i] <=> b0.region < level' - Len(sp'[b0.heap]) + i
    BY <1>1, <1>2, <1>5, <1>8 DEF TypeOK
  <2> QED BY <1>2, <2>2, <2>3 DEF MarksSplitBlocks, Base
<1> QED BY <1>6, <1>10, <1>11, <1>12, <1>13, <1>14, <1>15

\* pushheap().
LEMMA PushInv ==
  ASSUME IInv, pushheap
  PROVE  IInv'
<1> USE DEF IInv
<1>1. /\ level \in Nat /\ level' = level + 1 /\ level' \in 0 .. MaxLevel
      /\ UNCHANGED <<heaps, used, allocated, size, blocks>>
  BY HeapAssumption DEF pushheap, TypeOK
<1>2. \A h \in HeapIds : sp'[h] = IF h \in allocated THEN Append(sp[h], used[h]) ELSE sp[h]
  BY AllocatedInList DEF pushheap
<1>3. \A h \in HeapIds : sp[h] \in Seq(Nat) /\ used[h] \in Nat
  BY DEF TypeOK
<1>4. \A h \in allocated :
        /\ h \in HeapIds
        /\ sp'[h] \in Seq(Nat)
        /\ Len(sp[h]) \in Nat /\ Len(sp'[h]) = Len(sp[h]) + 1
        /\ \A i \in 1 .. Len(sp[h]) : sp'[h][i] = sp[h][i] /\ sp[h][i] \in Nat
        /\ sp'[h][Len(sp[h]) + 1] = used[h]
        /\ level' - Len(sp'[h]) = Base(h)
  <2> TAKE h \in allocated
  <2>1. h \in HeapIds /\ sp'[h] = Append(sp[h], used[h])
    BY <1>2 DEF TypeOK
  <2>2. \A i \in 1 .. Len(sp[h]) : sp[h][i] \in Nat
    BY <1>3, <2>1, ElementOfSeq
  <2>3. /\ Append(sp[h], used[h]) \in Seq(Nat)
        /\ Len(sp[h]) \in Nat /\ Len(Append(sp[h], used[h])) = Len(sp[h]) + 1
        /\ \A i \in 1 .. Len(sp[h]) : Append(sp[h], used[h])[i] = sp[h][i]
        /\ Append(sp[h], used[h])[Len(sp[h]) + 1] = used[h]
    BY <1>3, <2>1, AppendMark
  <2>4. level' - Len(sp'[h]) = level - Len(sp[h])
    <3>1. (level + 1) - (Len(sp[h]) + 1) = level - Len(sp[h])
      BY <1>1, <2>3, MarkArithmetic
    <3> QED BY <1>1, <2>1, <2>3, <3>1
  <2> QED BY <2>1, <2>2, <2>3, <2>4 DEF Base
<1>5. TypeOK'
  <2>1. \A h \in HeapIds : sp'[h] \in Seq(Nat)
    BY <1>2, <1>3, <1>4
  <2>2. sp' \in [HeapIds -> Seq(Nat)]
    BY <2>1 DEF pushheap
  <2> QED BY <1>1, <2>2 DEF TypeOK
<1>6. ListIsAllocated' /\ BlocksInArena' /\ ArenaHoldsASection'
  BY <1>1 DEF ListIsAllocated, InList, BlocksInArena, ArenaHoldsASection
<1>7. OldestFirst'
  <2>1. \A i \in 1 .. Len(heaps) : heaps[i] \in allocated
    BY ElementOfSeq DEF TypeOK, ListIsAllocated, InList
  <2> QED BY <1>1, <1>4, <2>1 DEF OldestFirst, Base
<1>8. MarksGrow'
  <2> SUFFICES ASSUME NEW h \in allocated
               PROVE  /\ \A i, j \in 1 .. Len(sp'[h]) : i <= j => sp'[h][i] <= sp'[h][j]
                      /\ \A i \in 1 .. Len(sp'[h]) : sp'[h][i] <= used[h]
    BY <1>1 DEF MarksGrow
  <2>1. \A i \in 1 .. Len(sp'[h]) : i \in 1 .. Len(sp[h]) \/ i = Len(sp[h]) + 1
    BY <1>4
  <2>2. \A i \in 1 .. Len(sp'[h]) : sp'[h][i] <= used[h]
    BY <1>3, <1>4, <2>1 DEF MarksGrow
  <2>3. \A i, j \in 1 .. Len(sp'[h]) : i <= j => sp'[h][i] <= sp'[h][j]
    <3> TAKE i, j \in 1 .. Len(sp'[h])
    <3> HAVE i <= j
    <3>1. CASE j = Len(sp[h]) + 1
      BY <1>4, <2>2, <3>1
    <3>2. CASE j \in 1 .. Len(sp[h])
      <4>1. i \in 1 .. Len(sp[h])
        BY <1>4, <3>2
      <4> QED BY <1>4, <3>2, <4>1 DEF MarksGrow
    <3> QED BY <2>1, <3>1, <3>2
  <2> QED BY <2>2, <2>3
<1>9. MarksSplitBlocks'
  <2> SUFFICES ASSUME NEW b \in blocks
               PROVE  /\ level' - Len(sp'[b.heap]) <= b.region /\ b.region <= level'
                      /\ \A i \in 1 .. Len(sp'[b.heap]) :
                           b.hi <= sp'[b.heap][i] <=> b.region < level' - Len(sp'[b.heap]) + i
    BY <1>1 DEF MarksSplitBlocks, Base
  <2>1. b.heap \in allocated /\ b.region \in Nat /\ b.hi \in Nat
    BY DEF BlocksInArena, TypeOK, Block
  <2>2. /\ b.hi <= used[b.heap]
        /\ Base(b.heap) <= b.region /\ b.region <= level
        /\ \A i \in 1 .. Len(sp[b.heap]) :
             b.hi <= sp[b.heap][i] <=> b.region < Base(b.heap) + i
    BY DEF MarksSplitBlocks
  <2>3. \A i \in 1 .. Len(sp'[b.heap]) : i \in 1 .. Len(sp[b.heap]) \/ i = Len(sp[b.heap]) + 1
    BY <1>4, <2>1
  <2>4. Base(b.heap) + (Len(sp[b.heap]) + 1) = level + 1
    <3>1. Len(sp[b.heap]) \in Nat
      BY <1>4, <2>1
    <3>2. level - Len(sp[b.heap]) + (Len(sp[b.heap]) + 1) = level + 1
      BY <1>1, <3>1, MarkArithmetic
    <3> QED BY <3>2 DEF Base
  <2>5. b.region < Base(b.heap) + (Len(sp[b.heap]) + 1)
    BY <1>1, <2>1, <2>2, <2>4
  <2>6. level' - Len(sp'[b.heap]) = Base(b.heap)
    BY <1>4, <2>1
  <2>7. \A i \in 1 .. Len(sp'[b.heap]) :
          b.hi <= sp'[b.heap][i] <=> b.region < Base(b.heap) + i
    <3> TAKE i \in 1 .. Len(sp'[b.heap])
    <3>1. CASE i \in 1 .. Len(sp[b.heap])
      BY <1>4, <2>1, <2>2, <3>1
    <3>2. CASE i = Len(sp[b.heap]) + 1
      BY <1>4, <2>1, <2>2, <2>5, <3>2
    <3> QED BY <2>3, <3>1, <3>2
  <2>8. b.region <= level'
    BY <1>1, <2>1, <2>2
  <2> QED BY <2>2, <2>6, <2>7, <2>8
<1> QED BY <1>5, <1>6, <1>7, <1>8, <1>9

-----------------------------------------------------------------------------
(* Going back to a mark.                                                   *)

\* What is below the mark a pool goes back to is what is older than the
\* innermost region.
LEMMA ResetKeepsOlder ==
  ASSUME IInv
  PROVE  /\ BelowReset = {b \in blocks : b.region < level}
         /\ \A b \in BelowReset : Stacked(b.heap)
         /\ \A h \in allocated : ResetMark(h) \in Nat
<1> USE DEF IInv
<1>1. ASSUME NEW h \in allocated, Stacked(h)
      PROVE  /\ Len(sp[h]) \in Nat \ {0} /\ Len(sp[h]) \in 1 .. Len(sp[h])
             /\ ResetMark(h) = sp[h][Len(sp[h])] /\ ResetMark(h) \in Nat
             /\ Base(h) + Len(sp[h]) = level
  BY <1>1, UnstackMark, HeapAssumption DEF TypeOK, Stacked, ResetMark, TopMark, Base
<1>2. ASSUME NEW h \in allocated, ~ Stacked(h)
      PROVE  ResetMark(h) = 0 /\ Base(h) = level
  BY <1>2, EmptySeq, HeapAssumption DEF Stacked, ResetMark, Base, TypeOK
<1>3. ASSUME NEW b \in blocks
      PROVE  /\ b.hi <= ResetMark(b.heap) <=> b.region < level
             /\ b.hi <= ResetMark(b.heap) => Stacked(b.heap)
  <2>1. b.heap \in allocated /\ b.lo \in Nat /\ b.hi \in Nat /\ b.region \in Nat /\ b.lo < b.hi
    BY DEF BlocksInArena, TypeOK, Block, MarksSplitBlocks
  <2>2. CASE Stacked(b.heap)
    BY <1>1, <2>1, <2>2 DEF MarksSplitBlocks
  <2>3. CASE ~ Stacked(b.heap)
    <3>1. ~ (b.hi <= ResetMark(b.heap))
      BY <1>2, <2>1, <2>3
    <3>2. level <= b.region /\ level \in Nat
      BY <1>2, <2>1, <2>3, HeapAssumption DEF MarksSplitBlocks, TypeOK
    <3> QED BY <2>1, <3>1, <3>2
  <2> QED BY <2>2, <2>3
<1> QED BY <1>1, <1>2, <1>3 DEF BelowReset

\* freeheap().
LEMMA FreeInv ==
  ASSUME IInv, freeheap
  PROVE  IInv'
<1> USE DEF IInv
<1>1. /\ blocks' = BelowReset /\ blocks' \subseteq blocks
      /\ UNCHANGED <<heaps, sp, allocated, size, level>>
  BY DEF freeheap, BelowReset
<1>2. \A h \in HeapIds : used'[h] = IF h \in allocated THEN ResetMark(h) ELSE used[h]
  BY AllocatedInList DEF freeheap, Reset
<1>3. TypeOK'
  <2>1. \A h \in HeapIds : used'[h] \in Nat
    BY <1>2, ResetKeepsOlder DEF TypeOK
  <2>2. used' \in [HeapIds -> Nat]
    BY <2>1 DEF freeheap
  <2> QED BY <1>1, <2>2 DEF TypeOK
<1>4. ListIsAllocated' /\ BlocksInArena' /\ ArenaHoldsASection' /\ OldestFirst'
  BY <1>1 DEF ListIsAllocated, InList, BlocksInArena, ArenaHoldsASection, OldestFirst, Base
<1>5. MarksGrow'
  <2> SUFFICES ASSUME NEW h \in allocated, NEW i \in 1 .. Len(sp[h])
               PROVE  sp[h][i] <= used'[h]
    BY <1>1 DEF MarksGrow
  <2>1. h \in HeapIds /\ sp[h] \in Seq(Nat) /\ Stacked(h)
    BY EmptySeq DEF TypeOK, Stacked
  <2>2. Len(sp[h]) \in Nat /\ Len(sp[h]) \in 1 .. Len(sp[h]) /\ i <= Len(sp[h])
    BY <2>1, LenProperties
  <2> QED BY <1>2, <2>1, <2>2 DEF MarksGrow, ResetMark, TopMark
<1>6. MarksSplitBlocks'
  <2>1. \A b \in blocks' : b.hi <= used'[b.heap]
    BY <1>1, <1>2 DEF BelowReset, BlocksInArena, TypeOK
  <2> QED BY <1>1, <2>1 DEF MarksSplitBlocks, Base
<1> QED BY <1>3, <1>4, <1>5, <1>6

\* popheap().
LEMMA PopInv ==
  ASSUME IInv, popheap
  PROVE  IInv'
<1> USE DEF IInv
<1>1. /\ blocks' = BelowReset /\ blocks' \subseteq blocks
      /\ level \in Nat \ {0} /\ level' = level - 1 /\ level' \in 0 .. MaxLevel
      /\ size' = size
  BY HeapAssumption DEF popheap, BelowReset, TypeOK
<1>2. /\ allocated' = {h \in allocated : Stacked(h)}
      /\ \A h \in HeapIds : used'[h] = IF h \in allocated THEN ResetMark(h) ELSE used[h]
      /\ \A h \in HeapIds : sp'[h] = IF h \in allocated /\ Stacked(h)
                                    THEN Unstack(sp[h]) ELSE sp[h]
  BY AllocatedInList DEF popheap, Reset, TypeOK
<1>3. \A h \in allocated' :
        /\ h \in HeapIds /\ h \in allocated /\ Stacked(h)
        /\ sp[h] \in Seq(Nat) /\ sp'[h] \in Seq(Nat)
        /\ Len(sp[h]) \in Nat \ {0} /\ Len(sp'[h]) = Len(sp[h]) - 1
        /\ \A i \in 1 .. Len(sp'[h]) : i \in 1 .. Len(sp[h]) /\ sp'[h][i] = sp[h][i]
        /\ used'[h] = sp[h][Len(sp[h])]
        /\ level' - Len(sp'[h]) = Base(h)
  <2> TAKE h \in allocated'
  <2>1. h \in HeapIds /\ h \in allocated /\ Stacked(h) /\ sp[h] \in Seq(Nat)
    BY <1>2 DEF TypeOK
  <2>2. /\ Unstack(sp[h]) \in Seq(Nat)
        /\ Len(sp[h]) \in Nat \ {0} /\ Len(Unstack(sp[h])) = Len(sp[h]) - 1
        /\ \A i \in 1 .. Len(sp[h]) - 1 : Unstack(sp[h])[i] = sp[h][i]
    BY <2>1, UnstackMark DEF Stacked
  <2>3. sp'[h] = Unstack(sp[h]) /\ used'[h] = sp[h][Len(sp[h])]
    BY <1>2, <2>1 DEF ResetMark, TopMark
  <2>4. level' - Len(sp'[h]) = level - Len(sp[h])
    <3>1. (level - 1) - (Len(sp[h]) - 1) = level - Len(sp[h])
      BY <1>1, <2>2
    <3> QED BY <1>1, <2>2, <2>3, <3>1
  <2>5. \A i \in 1 .. Len(sp'[h]) : i \in 1 .. Len(sp[h]) /\ sp'[h][i] = sp[h][i]
    BY <2>2, <2>3
  <2>6. level' - Len(sp'[h]) = Base(h)
    BY <2>4 DEF Base
  <2> QED BY <2>1, <2>2, <2>3, <2>5, <2>6
<1>4. /\ heaps' \in Seq(HeapIds)
      /\ Len(heaps') \in Nat /\ Len(heaps) \in Nat /\ Len(heaps') <= Len(heaps)
      /\ \A i \in 1 .. Len(heaps') : heaps'[i] = heaps[i]
      /\ Len(heaps') > 0 => Stacked(heaps[Len(heaps')])
      /\ \A i \in Len(heaps') + 1 .. Len(heaps) : ~ Stacked(heaps[i])
  BY CutIsPrefix DEF popheap, TypeOK
<1>5. \A i \in 1 .. Len(heaps) : heaps[i] \in allocated /\ heaps[i] \in HeapIds
  BY ElementOfSeq DEF TypeOK, ListIsAllocated, InList
<1>6. \A i \in 1 .. Len(heaps') : Stacked(heaps[i])
  \* Pools before a stacked one are older, so they have a mark too.
  <2> SUFFICES ASSUME NEW i \in 1 .. Len(heaps'), ~ Stacked(heaps[i])
               PROVE  FALSE
    OBVIOUS
  <2> DEFINE g == heaps[i]
             h == heaps[Len(heaps')]
  <2>1. /\ Stacked(h) /\ g \in allocated /\ h \in allocated /\ Base(g) <= Base(h)
    <3>1. i < Len(heaps') \/ i = Len(heaps')
      BY <1>4
    <3> QED BY <1>4, <1>5, <3>1 DEF OldestFirst
  <2>2. Len(sp[g]) = 0 /\ sp[h] \in Seq(Nat)
    BY <2>1, EmptySeq DEF Stacked, TypeOK
  <2>3. Len(sp[h]) \in Nat \ {0}
    BY <2>1, <2>2, EmptySeq DEF Stacked
  <2> HIDE DEF g, h
  <2>4. level - Len(sp[h]) < level
    BY <1>1, <2>3
  <2> QED BY <1>1, <2>1, <2>2, <2>3, <2>4 DEF Base
<1>7. TypeOK'
  <2>1. \A h \in HeapIds : used'[h] \in Nat
    BY <1>2, ResetKeepsOlder DEF TypeOK
  <2>2. \A h \in HeapIds : sp'[h] \in Seq(Nat)
    BY <1>2, <1>3 DEF TypeOK
  <2>3. used' \in [HeapIds -> Nat] /\ sp' \in [HeapIds -> Seq(Nat)]
    BY <2>1, <2>2 DEF popheap
  <2> QED BY <1>1, <1>2, <1>4, <2>3 DEF TypeOK
<1>8. ListIsAllocated'
  <2>1. ASSUME NEW h \in HeapIds
        PROVE  InList(h)' <=> InList(h) /\ Stacked(h)
    <3>1. InList(h)' => InList(h) /\ Stacked(h)
      BY <1>4, <1>6 DEF InList
    <3>2. ASSUME InList(h), Stacked(h) PROVE InList(h)'
      <4>1. PICK i \in 1 .. Len(heaps) : heaps[i] = h
        BY <3>2 DEF InList
      <4>2. i \in 1 .. Len(heaps')
        BY <1>4, <3>2, <4>1
      <4> QED BY <1>4, <4>1, <4>2 DEF InList
    <3> QED BY <3>1, <3>2
  <2>2. \A i, j \in 1 .. Len(heaps') : heaps'[i] = heaps'[j] => i = j
    BY <1>4 DEF ListIsAllocated
  <2> QED BY <1>2, <2>1, <2>2 DEF ListIsAllocated
<1>9. ArenaHoldsASection'
  BY <1>1, <1>2 DEF ArenaHoldsASection
<1>10. BlocksInArena'
  BY <1>1, <1>2, ResetKeepsOlder DEF BlocksInArena
<1>11. OldestFirst'
  <2>1. \A i \in 1 .. Len(heaps') : heaps'[i] = heaps[i] /\ heaps[i] \in allocated' /\ i \in 1 .. Len(heaps)
    BY <1>2, <1>4, <1>5, <1>6
  <2>2. \A h \in allocated' : level' - Len(sp'[h]) >= 0
    BY <1>2, <1>3 DEF OldestFirst
  <2>3. \A i, j \in 1 .. Len(heaps') :
          i < j => level' - Len(sp'[heaps'[i]]) <= level' - Len(sp'[heaps'[j]])
    <3> TAKE i, j \in 1 .. Len(heaps')
    <3> HAVE i < j
    <3>1. Base(heaps[i]) <= Base(heaps[j])
      BY <2>1 DEF OldestFirst
    <3> QED BY <1>3, <2>1, <3>1
  <2> QED BY <2>2, <2>3 DEF OldestFirst, Base
<1>12. MarksGrow'
  <2> SUFFICES ASSUME NEW h \in allocated'
               PROVE  /\ \A i, j \in 1 .. Len(sp'[h]) : i <= j => sp'[h][i] <= sp'[h][j]
                      /\ \A i \in 1 .. Len(sp'[h]) : sp'[h][i] <= used'[h]
    BY DEF MarksGrow
  <2>1. \A i, j \in 1 .. Len(sp'[h]) : i <= j => sp'[h][i] <= sp'[h][j]
    BY <1>3 DEF MarksGrow
  <2>2. \A i \in 1 .. Len(sp'[h]) : sp'[h][i] <= used'[h]
    <3> TAKE i \in 1 .. Len(sp'[h])
    <3>1. i \in 1 .. Len(sp[h]) /\ Len(sp[h]) \in 1 .. Len(sp[h]) /\ i <= Len(sp[h])
      BY <1>3
    <3> QED BY <1>3, <3>1 DEF MarksGrow
  <2> QED BY <2>1, <2>2
<1>13. MarksSplitBlocks'
  <2> SUFFICES ASSUME NEW b \in blocks'
               PROVE  /\ b.lo < b.hi
                      /\ b.hi <= used'[b.heap]
                      /\ level' - Len(sp'[b.heap]) <= b.region /\ b.region <= level'
                      /\ \A i \in 1 .. Len(sp'[b.heap]) :
                           b.hi <= sp'[b.heap][i] <=> b.region < level' - Len(sp'[b.heap]) + i
    BY DEF MarksSplitBlocks, Base
  <2>1. /\ b \in blocks /\ b.region < level /\ b.hi <= ResetMark(b.heap)
        /\ b.heap \in allocated' /\ b.region \in Nat
    BY <1>1, <1>2, ResetKeepsOlder DEF BlocksInArena, BelowReset, TypeOK, Block
  <2>2. level' - Len(sp'[b.heap]) = Base(b.heap)
    BY <1>3, <2>1
  <2>3. b.hi <= used'[b.heap] /\ b.region <= level'
    BY <1>1, <1>2, <1>3, <2>1
  <2>4. \A i \in 1 .. Len(sp'[b.heap]) : b.hi <= sp'[b.heap][i] <=> b.region < Base(b.heap) + i
    BY <1>3, <2>1 DEF MarksSplitBlocks
  <2>5. b.lo < b.hi /\ Base(b.heap) <= b.region
    BY <2>1 DEF MarksSplitBlocks
  <2> QED BY <2>2, <2>3, <2>4, <2>5
<1> QED BY <1>7, <1>8, <1>9, <1>10, <1>11, <1>12, <1>13

LEMMA StepInv == IInv /\ [Next]_vars => IInv'
<1> SUFFICES ASSUME IInv, [Next]_vars PROVE IInv'
  OBVIOUS
<1>1. CASE Halloc
  BY <1>1, HallocFromInv, HallocNewInv DEF Halloc
<1>2. CASE pushheap
  BY <1>2, PushInv
<1>3. CASE freeheap
  BY <1>3, FreeInv
<1>4. CASE popheap
  BY <1>4, PopInv
<1>5. CASE UNCHANGED vars
  BY <1>5 DEF vars, IInv, TypeOK, ListIsAllocated, InList, BlocksInArena, OldestFirst,
              MarksGrow, ArenaHoldsASection, MarksSplitBlocks, Base
<1> QED BY <1>1, <1>2, <1>3, <1>4, <1>5 DEF Next

-----------------------------------------------------------------------------
(* Theorems.                                                               *)

\* The state of the allocator always satisfies the inductive invariant.
THEOREM Invariance == Spec => []IInv
  BY InitInv, StepInv, PTL DEF Spec

\* pushheap(), freeheap(), popheap() and halloc() keep the state well typed.
THEOREM TypeCorrect == Spec => []TypeOK
  BY Invariance, PTL DEF IInv

\* popheap() frees exactly the pools it unlinks (mem.c:popheap).
THEOREM ListCorrect == Spec => []ListIsAllocated
  BY Invariance, PTL DEF IInv

\* halloc() never hands out memory past the end of an arena.
THEOREM ArenaCorrect == Spec => []BlocksInArena
  BY Invariance, PTL DEF IInv

\* Every step of mem.c's heap stack is a step of the abstract region stack
\* or leaves it alone.
LEMMA StepRefines == IInv /\ [Next]_vars => [Region!Next]_(Region!vars)
<1> SUFFICES ASSUME IInv, [Next]_vars PROVE [Region!Next]_(Region!vars)
  OBVIOUS
<1> USE DEF IInv
<1>1. ASSUME NEW n \in Sizes, NEW h \in HeapIds, NEW lo \in Nat,
             level' = level, blocks' = blocks \cup {NewBlock(h, lo, n)},
             \A c \in blocks : c.heap = h => c.hi <= lo
      PROVE  Region!Allocate
  <2> DEFINE b0 == NewBlock(h, lo, n)
  <2>1. b0.heap = h /\ b0.region = level /\ b0.lo = lo /\ b0.hi = lo + n
    BY NewBlockFields
  <2> HIDE DEF b0
  <2>2. \A c \in blocks : ~ Region!Overlap(b0, c)
    BY <1>1, <2>1 DEF Region!Overlap, TypeOK, Block
  <2>3. b0 \in blocks' /\ blocks' = blocks \cup {b0}
    BY <1>1 DEF b0
  <2> QED BY <1>1, <2>1, <2>2, <2>3 DEF Region!Allocate
<1>2. CASE Halloc
  <2>1. ASSUME NEW n \in Sizes, NEW i \in 1 .. Len(heaps), HallocFrom(i, n)
        PROVE  Region!Allocate
    <3>1. heaps[i] \in HeapIds /\ used[heaps[i]] \in Nat
      BY ElementOfSeq DEF TypeOK
    <3>2. \A c \in blocks : c.heap = heaps[i] => c.hi <= used[heaps[i]]
      BY DEF MarksSplitBlocks
    <3> QED BY <1>1, <2>1, <3>1, <3>2 DEF HallocFrom
  <2>2. ASSUME NEW n \in Sizes, NEW h \in HeapIds, HallocNew(h, n)
        PROVE  Region!Allocate
    <3>1. \A c \in blocks : c.heap # h
      BY <2>2 DEF HallocNew, BlocksInArena
    <3> QED BY <1>1, <2>2, <3>1 DEF HallocNew
  <2> QED BY <1>2, <2>1, <2>2 DEF Halloc, Region!Next
<1>3. CASE pushheap
  BY <1>3 DEF pushheap, Region!Next, Region!Push
<1>4. CASE freeheap
  BY <1>4, ResetKeepsOlder DEF freeheap, Region!Next, Region!Free, Region!Older
<1>5. CASE popheap
  BY <1>5, ResetKeepsOlder DEF popheap, Region!Next, Region!Pop, Region!Older
<1>6. CASE UNCHANGED vars
  BY <1>6 DEF vars, Region!vars
<1> QED BY <1>2, <1>3, <1>4, <1>5, <1>6 DEF Next

\* The heap stack implements the contract at the head of mem.c: memory lives
\* until its own region is freed or popped, and is never handed out twice.
THEOREM Refinement == Spec => RegionContract
<1>1. Init => Region!Init
  BY DEF Init, Region!Init
<1> QED BY <1>1, Invariance, StepRefines, PTL DEF Spec, RegionContract, Region!Spec
=============================================================================
