----------------------------- MODULE RegionStack -----------------------------
(***************************************************************************)
(* What the heap allocator of mem.c promises its callers (the comment at   *)
(* the head of mem.c): memory allocated since the last pushheap() goes     *)
(* away together, at freeheap() or popheap(), everything older stays, and  *)
(* what is handed out overlaps nothing that is still there.                *)
(***************************************************************************)
EXTENDS Integers

VARIABLES
  level,   \* pushheap() calls not yet undone by popheap()
  blocks   \* what is allocated: [heap, lo, hi, region]

vars == <<level, blocks>>

Overlap(b, c) == b.heap = c.heap /\ b.lo < c.hi /\ c.lo < b.hi

Older == {b \in blocks : b.region < level}

Init == level = 0 /\ blocks = {}

Allocate ==
  /\ level' = level
  /\ \E b \in blocks' :
       /\ blocks' = blocks \cup {b}
       /\ b.region = level
       /\ \A c \in blocks : ~ Overlap(b, c)

Push == level' = level + 1 /\ blocks' = blocks

Free == level' = level /\ blocks' = Older

Pop == level > 0 /\ level' = level - 1 /\ blocks' = Older

Next == Allocate \/ Push \/ Free \/ Pop

Spec == Init /\ [][Next]_vars
=============================================================================
