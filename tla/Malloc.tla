-------------------------------- MODULE Malloc --------------------------------
(* The allocator of mem.c for ZSH_MEM: blocks behind a length, a free list   *)
(* in the order of addresses, arrays of small blocks, and the pools that     *)
(* malloc() takes away from the heap stack when they are empty.  Addresses   *)
(* and sizes are counted in words of M_ISIZE, requests are rounded already.  *)
EXTENDS Integers, Sequences, FiniteSets
LOCAL INSTANCE SequencesExt
LOCAL INSTANCE FiniteSetsExt
LOCAL INSTANCE Lib

CONSTANTS
  M_NSMALL,     \* requests below this are served from arrays
  M_SNUM,       \* blocks in an array
  m_pgsz,
  HEAPSIZE, HEAPFREE,
  Bounds        \* of a behaviour: the sizes asked of zalloc() and of halloc(), the
                \* blocks held at a time, the pools (and the depth of pushheap()),
                \* and the address beyond which sbrk() refuses

VARIABLES
  mem,      \* len, of each block; free, the free list; m_lfree; m_high; small,
            \* the list of arrays of each size; sfree and used of each array;
            \* heaps, the list of pools: at, size, used, sp
  live,     \* the blocks the program holds: at, size
  bounds,   \* one of Bounds
  spoilt    \* a pool was taken away while its caller stood at it

vars == <<mem, live, bounds, spoilt>>

NULL    == 0
m_low   == m_pgsz
M_HSIZE == 4
M_MIN   == 2
Small   == 1 .. M_NSMALL - 1

M_SBLEN(size) == size * M_SNUM + 3
M_BSLEN(len)  == (len - 3) \div M_SNUM

End(m, b) == b + 1 + m.len[b]

-----------------------------------------------------------------------------
(* zfree() *)

\* The array that holds the address.
Holds(m, mt, p) == mt <= p /\ p <= mt + m.len[mt]

Holders(m, i, p) == {k \in DOMAIN m.small[i] : Holds(m, m.small[i][k], p)}

\* A block whose neighbours are free becomes one with them.
putonfreelist(m, b) ==
  LET before == {f \in Range(m.free) : f < b}
      after  == Range(m.free) \ {f \in Range(m.free) : f < b}
  IN  Given(IF before = {} THEN NULL ELSE Max(before), LAMBDA mp :
      Given(IF after = {} THEN NULL ELSE Min(after), LAMBDA mt :
      Given(mt # NULL /\ mt = End(m, b), LAMBDA next :
      Given(mp # NULL /\ b = End(m, mp), LAMBDA prev :
      Given(IF next /\ mt = m.m_lfree THEN b ELSE m.m_lfree, LAMBDA last :
        LET blen == IF next THEN m.len[b] + m.len[mt] + 1 ELSE m.len[b]
            len  == IF prev THEN [m.len EXCEPT ![mp] = @ + blen + 1] ELSE [m.len EXCEPT ![b] = blen]
            gone == (IF next THEN {mt} ELSE {}) \union (IF prev THEN {b} ELSE {})
        IN  [m EXCEPT !.len = But(len, gone),
                      !.free = SelectSeq(m.free, LAMBDA f : f < b)
                               \o (IF prev THEN << >> ELSE <<b>>)
                               \o SelectSeq(m.free, LAMBDA f : f > b /\ ~(next /\ f = mt)),
                      !.m_lfree = IF prev /\ b = last THEN mp
                                  ELSE IF mp = NULL /\ last = NULL THEN b ELSE last])))))

\* A slip: the block that gives the memory back keeps its length.
giveback_KeepsLength(m) ==
  LET n == ((m.len[m.m_lfree] - M_MIN) \div m_pgsz) * m_pgsz
  IN  IF End(m, m.m_lfree) = m.m_high /\ m.len[m.m_lfree] >= m_pgsz + M_MIN
      THEN [m EXCEPT !.m_high = @ - n] ELSE m

\* More than a page that is free at the end goes back to the system.
giveback(m) ==
  LET n == ((m.len[m.m_lfree] - M_MIN) \div m_pgsz) * m_pgsz
  IN  IF End(m, m.m_lfree) = m.m_high /\ m.len[m.m_lfree] >= m_pgsz + M_MIN
      THEN [m EXCEPT !.len[m.m_lfree] = @ - n, !.m_high = @ - n]
      ELSE m

freeblock(m, b) == giveback(putonfreelist(m, b))

\* sz is the size, or less, or 0 for `don't know'.
zfree(m, p, sz) ==
  Given(IF sz < M_NSMALL THEN {i \in Small : Holders(m, i, p) # {}} ELSE {}, LAMBDA searched :
    IF p = NULL THEN m
    ELSE IF searched = {} THEN freeblock(m, p - 1)
    ELSE Given(IF sz \in searched THEN sz ELSE Min(searched), LAMBDA i :
         Given(Min(Holders(m, i, p)), LAMBDA k :
         Given(m.small[i][k], LAMBDA mt :
         Given([m EXCEPT !.sfree[mt] = <<p>> \o @, !.used[mt] = @ - 1], LAMBDA freed :
         Given(RemoveAt(m.small[i], k), LAMBDA rest :
           IF freed.used[mt] > 0
           THEN [freed EXCEPT !.small[i] = <<mt>> \o rest]
           ELSE freeblock([freed EXCEPT !.small[i] = rest, !.sfree = But(@, {mt}),
                                        !.used = But(@, {mt})], mt)))))))

-----------------------------------------------------------------------------
(* malloc() *)

\* The first free block that is large enough.
FirstFit(m, size) ==
  LET fits == {k \in DOMAIN m.free : m.len[m.free[k]] >= size}
  IN  IF fits = {} THEN NULL ELSE m.free[Min(fits)]

\* The empty pool that is taken: the lowest one, if it is below the block found.
Stolen(m, size) ==
  {h \in Range(m.heaps) : /\ h.used = 0
                          /\ FirstFit(m, size) # NULL => h.at < FirstFit(m, size)
                          /\ \A g \in Range(m.heaps) : g.used = 0 => h.at <= g.at}

steal(m, h) ==
  Given(FoldLeft(LAMBDA a, hs : zfree(a, hs.at, 2), m, h.sp), LAMBDA states :
    zfree([states EXCEPT !.heaps = SelectSeq(@, LAMBDA g : g.at # h.at)], h.at, HEAPSIZE))

\* New memory from the system, at the end of the free list.
Grown(m, size) ==
  LET n == ((size + M_HSIZE + m_pgsz - 1) \div m_pgsz) * m_pgsz
      b == m.m_high
      k == Min({i \in DOMAIN m.free : m.free[i] = m.m_lfree})
  IN  [m EXCEPT !.len = With(@, b, n - 1),
                !.m_high = @ + n,
                !.free = IF m.m_lfree = NULL THEN <<b>> ELSE SubSeq(@, 1, k) \o <<b>>,
                !.m_lfree = b]

\* Of the free block b the program gets the first size words.
taken(m, b, size) ==
  LET n    == m.len[b] - size
      rest == b + 1 + size
      k    == Min({i \in DOMAIN m.free : m.free[i] = b})
  IN  IF n > M_MIN
      THEN [m EXCEPT !.len = With([@ EXCEPT ![b] = size], rest, n - 1),
                     !.free = ReplaceAt(@, k, rest),
                     !.m_lfree = IF @ = b THEN rest ELSE @]
      ELSE [m EXCEPT !.free = RemoveAt(@, k),
                     !.m_lfree = IF @ # b THEN @
                                 ELSE IF k > 1 THEN m.free[k - 1]
                                 ELSE IF Len(m.free) > 1 THEN m.free[2] ELSE NULL]

\* sbrk() refuses: a pool that was taken before is not put back.
Refused(m) == [mem |-> m, at |-> NULL]

\* A block of that size: the memory after it, and its header.
block(m, size) ==
  Given(FoldSet(LAMBDA h, a : steal(a, h), m, Stolen(m, size)), LAMBDA stealing :
  Given(FirstFit(stealing, size), LAMBDA found :
  Given(IF found # NULL THEN stealing ELSE Grown(stealing, size), LAMBDA ready :
  Given(IF found # NULL THEN found ELSE ready.m_lfree, LAMBDA b :
    IF ready.m_high > bounds.limit THEN Refused(stealing)
    ELSE [mem |-> taken(ready, b, size), at |-> b]))))

\* The blocks of an array, after the one that is given first.
Others(b, size) == [k \in 1 .. M_SNUM - 1 |-> b + M_HSIZE + k * size]

newarray(m, size) ==
  Given(block(m, M_SBLEN(size)), LAMBDA got :
    IF got.at = NULL THEN got
    ELSE [mem |-> [got.mem EXCEPT !.small[size] = <<got.at>> \o @,
                                  !.sfree = With(@, got.at, Others(got.at, size)),
                                  !.used = With(@, got.at, 1)],
          at  |-> got.at + M_HSIZE])

\* The first array with a free block; when it is full it goes to the end.
fromarray(m, size, k) ==
  LET b    == m.small[size][k]
      full == m.used[b] + 1 = M_SNUM
  IN  [mem |-> [m EXCEPT !.sfree[b] = Tail(@), !.used[b] = @ + 1,
                         !.small[size] = IF full THEN Append(RemoveAt(@, k), b) ELSE @],
       at  |-> Head(m.sfree[b])]

malloc(m, size) ==
  LET room == {k \in DOMAIN m.small[size] : m.sfree[m.small[size][k]] # << >>}
  IN  IF size \notin Small
      THEN Given(block(m, size), LAMBDA got :
             IF got.at = NULL THEN got ELSE [got EXCEPT !.at = @ + 1])
      ELSE IF room # {} THEN fromarray(m, size, Min(room)) ELSE newarray(m, size)

\* realloc() frees the old block when it has the new one.
realloc(m, p, size) ==
  Given(malloc(m, size), LAMBDA r :
    IF r.at = NULL THEN r ELSE [r EXCEPT !.mem = zfree(@, p, 0)])

-----------------------------------------------------------------------------
(* The pools. *)

arena(h) == h.size - 3

At(m, p) == {k \in DOMAIN m.heaps : m.heaps[k].at = p}

\* pushheap() at one pool, which may be the one malloc() takes.
pushone(a, p) ==
  IF a.bad \/ a.none \/ At(a.mem, p) = {} THEN a
  ELSE Given(malloc(a.mem, 2), LAMBDA got :
         IF got.at = NULL THEN [a EXCEPT !.none = TRUE]
         ELSE IF At(got.mem, p) = {} THEN [a EXCEPT !.mem = got.mem, !.bad = TRUE]
         ELSE LET k == Min(At(got.mem, p)) IN
              [a EXCEPT !.mem = [got.mem EXCEPT !.heaps[k].sp =
                                   <<[at |-> got.at, used |-> got.mem.heaps[k].used]>> \o @]])

pushall(m) ==
  FoldLeft(LAMBDA a, h : pushone(a, h.at), [mem |-> m, bad |-> FALSE, none |-> FALSE], m.heaps)

\* popheap() at one pool.
popone(m, h) ==
  LET k == Min(At(m, h.at))
  IN  IF h.sp = << >>
      THEN zfree([m EXCEPT !.heaps = RemoveAt(@, k)], h.at, HEAPSIZE)
      ELSE zfree([m EXCEPT !.heaps[k].sp = Tail(@), !.heaps[k].used = Head(h.sp).used],
                 Head(h.sp).at, 2)

\* halloc() when no pool has room: a large block first, so that the pool is
\* likely to be the last block of the memory.
newheap(m, size) ==
  Given(IF m.called THEN malloc(m, HEAPFREE) ELSE Refused(m), LAMBDA foo :
  Given(IF HEAPSIZE - 3 > size THEN HEAPSIZE - 3 ELSE size, LAMBDA n :
  Given(malloc(foo.mem, n + 3), LAMBDA got :
    LET hp == IF foo.mem.heaps = << >> THEN NULL ELSE Last(foo.mem.heaps).at
    IN  [none |-> got.at = NULL,
         bad  |-> got.at # NULL /\ hp # NULL /\ At(got.mem, hp) = {},
         mem  |-> IF got.at = NULL THEN got.mem
                  ELSE [zfree(got.mem, foo.at, HEAPFREE) EXCEPT !.called = TRUE,
                          !.heaps = Append(@, [at |-> got.at, size |-> n + 3, used |-> size,
                                               sp |-> << >>])]])))

-----------------------------------------------------------------------------
Init ==
  /\ mem = [len |-> << >>, free |-> << >>, m_lfree |-> NULL, m_high |-> m_low,
            small |-> [i \in Small |-> << >>], sfree |-> << >>, used |-> << >>,
            heaps |-> << >>, called |-> FALSE]
  /\ live = {}
  /\ bounds \in Bounds
  /\ spoilt = FALSE

zalloc(size) ==
  /\ ~spoilt /\ Cardinality(live) < bounds.live
  /\ \E r \in {malloc(mem, size)} :
       /\ r.at # NULL
       /\ mem' = r.mem
       /\ live' = live \union {[at |-> r.at, size |-> size]}
  /\ UNCHANGED <<bounds, spoilt>>

Free(b, sz) ==
  /\ ~spoilt
  /\ mem' = zfree(mem, b.at, sz)
  /\ live' = live \ {b}
  /\ UNCHANGED <<bounds, spoilt>>

Realloc(b, size) ==
  /\ ~spoilt
  /\ \E r \in {realloc(mem, b.at, size)} :
       /\ r.at # NULL
       /\ mem' = r.mem
       /\ live' = (live \ {b}) \union {[at |-> r.at, size |-> size]}
  /\ UNCHANGED <<bounds, spoilt>>

Roomy(size) == {k \in DOMAIN mem.heaps : mem.heaps[k].used + size <= HEAPSIZE - 3}

halloc(size) ==
  /\ ~spoilt /\ UNCHANGED <<live, bounds>>
  /\ \/ /\ Roomy(size) # {}
        /\ mem' = [mem EXCEPT !.heaps[Min(Roomy(size))].used = @ + size]
        /\ UNCHANGED spoilt
     \/ /\ Roomy(size) = {} /\ Len(mem.heaps) < bounds.heaps
        /\ \E r \in {newheap(mem, size)} : ~r.none /\ mem' = r.mem /\ spoilt' = r.bad

pushheap ==
  /\ ~spoilt /\ \A h \in Range(mem.heaps) : Len(h.sp) < bounds.heaps
  /\ mem.heaps # << >>
  /\ \E r \in {pushall(mem)} : ~r.none /\ mem' = r.mem /\ spoilt' = r.bad
  /\ UNCHANGED <<live, bounds>>

freeheap ==
  /\ ~spoilt
  /\ mem' = [mem EXCEPT !.heaps =
               [k \in DOMAIN @ |-> [@[k] EXCEPT !.used = IF mem.heaps[k].sp = << >> THEN 0
                                                        ELSE Head(mem.heaps[k].sp).used]]]
  /\ UNCHANGED <<live, bounds, spoilt>>

popheap ==
  /\ ~spoilt
  /\ mem' = FoldLeft(popone, mem, mem.heaps)
  /\ UNCHANGED <<live, bounds, spoilt>>

Next == \/ \E size \in bounds.sizes : zalloc(size)
        \/ \E b \in live : \E sz \in 0 .. b.size : Free(b, sz)
        \/ \E b \in live, size \in bounds.sizes : Realloc(b, size)
        \/ \E size \in bounds.heapsizes : halloc(size)
        \/ pushheap \/ freeheap \/ popheap

Spec == Init /\ [][Next]_vars

-----------------------------------------------------------------------------
(* What the program holds: its blocks, the pools and their saved states. *)
Held == live \union {[at |-> h.at, size |-> h.size] : h \in Range(mem.heaps)}
             \union UNION {{[at |-> hs.at, size |-> 2] : hs \in Range(h.sp)} : h \in Range(mem.heaps)}

Arrays == UNION {Range(mem.small[i]) : i \in Small}

Words(b) == b.at .. b.at + b.size - 1

\* What mem prints of the blocks.
listing ==
  [b \in DOMAIN mem.len |-> IF b \in Range(mem.free) THEN "free"
                            ELSE IF b \in Arrays THEN "small" ELSE "used"]

\* No two blocks that are held have a word in common, and none has a word of a
\* header, of a free block, or of a free block in an array, whatever was asked
\* for, freed, merged, split, taken from the pools and given back.
HeldApart ==
  ~spoilt =>
    \A b \in Held :
      /\ Words(b) \subseteq m_low .. mem.m_high - 1
      /\ \A c \in Held : b # c => Words(b) \cap Words(c) = {}
      /\ Words(b) \cap DOMAIN mem.len = {}
      /\ \A f \in Range(mem.free) : Words(b) \cap (f .. f + mem.len[f]) = {}
      /\ \A a \in Arrays : Words(b) \cap ((a .. a + 3) \union Range(mem.sfree[a])) = {}

\* Blocks follow one another without a gap from the lowest address to the
\* highest (mem and ZSH_SECURE_FREE walk them by their lengths), the free list is
\* in the order of addresses, and an array counts the blocks that are held of it,
\* is never kept when there is none, and stands behind those with room when it
\* is full.
BlocksAddUp ==
  ~spoilt =>
  /\ mem.m_high > m_low => m_low \in DOMAIN mem.len
  /\ \A b \in DOMAIN mem.len :
       /\ End(mem, b) = mem.m_high \/ End(mem, b) \in DOMAIN mem.len
       /\ \A c \in DOMAIN mem.len : b < c => End(mem, b) <= c
  /\ \A i, j \in DOMAIN mem.free : i < j => mem.free[i] < mem.free[j]
  /\ \A b \in {c \in Held : c.size >= M_NSMALL} : listing[b.at - 1] = "used"
  /\ \A i \in Small : \A k \in DOMAIN mem.small[i] :
       LET a == mem.small[i][k] IN
       /\ M_BSLEN(mem.len[a]) = i
       /\ mem.used[a] = Cardinality({b \in Held : Holds(mem, a, b.at)})
       /\ mem.used[a] \in 1 .. M_SNUM
       /\ mem.used[a] + Len(mem.sfree[a]) = M_SNUM
       /\ mem.used[a] = M_SNUM =>
            \A l \in k .. Len(mem.small[i]) : mem.used[mem.small[i][l]] = M_SNUM

\* mem.c:505: m_lfree is "a pointer to the last free block".
LastIsLast ==
  ~spoilt => mem.m_lfree = IF mem.free = << >> THEN NULL ELSE Last(mem.free)
=============================================================================
