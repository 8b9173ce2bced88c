--------------------------- MODULE HashTableProofs ---------------------------
(* A table stays well formed and answers as a dictionary does, for every     *)
(* set of names and every hash of them.                                      *)
EXTENDS HashTable, FunctionTheorems, FiniteSetTheorems, NaturalsInduction,
        WellFoundedInduction, TLAPS

Buckets(t) == 0 .. t.hsize - 1

-----------------------------------------------------------------------------
(* Places, pointwise. *)

\* The places of a table are pairs of a bucket and a position in its chain.
LEMMA PlacesAre ==
  ASSUME NEW t
  PROVE  /\ \A p \in Places(t) : /\ p = <<p[1], p[2]>>
                                 /\ p[1] \in Buckets(t)
                                 /\ p[2] \in DOMAIN t.nodes[p[1]]
         /\ \A b \in Buckets(t) : \A i \in DOMAIN t.nodes[b] : <<b, i>> \in Places(t)
BY DEF Places, Buckets

\* What a table holds, pointwise.
LEMMA ContentsAre ==
  ASSUME NEW t
  PROVE  /\ \A e \in Contents(t) :
              \E b \in Buckets(t) : \E i \in DOMAIN t.nodes[b] : e = t.nodes[b][i]
         /\ \A b \in Buckets(t) : \A i \in DOMAIN t.nodes[b] : t.nodes[b][i] \in Contents(t)
<1>1. ASSUME NEW e \in Contents(t)
      PROVE  \E b \in Buckets(t) : \E i \in DOMAIN t.nodes[b] : e = t.nodes[b][i]
  <2>1. PICK p \in Places(t) : e = NodeAt(t, p)
    BY <1>1 DEF Contents
  <2>2. p[1] \in Buckets(t) /\ p[2] \in DOMAIN t.nodes[p[1]] /\ e = t.nodes[p[1]][p[2]]
    BY <2>1, PlacesAre DEF NodeAt
  <2> QED BY <2>2
<1>2. ASSUME NEW b \in Buckets(t), NEW i \in DOMAIN t.nodes[b]
      PROVE  t.nodes[b][i] \in Contents(t)
  <2>1. <<b, i>> \in Places(t) /\ NodeAt(t, <<b, i>>) = t.nodes[b][i]
    BY PlacesAre DEF NodeAt
  <2> QED BY <2>1 DEF Contents
<1> QED BY <1>1, <1>2

\* A well formed table, said of chains: nodes are in the bucket of their hash,
\* and no chain has a name twice.
InBucket(t) ==
  \A b \in Buckets(t) : \A i \in DOMAIN t.nodes[b] :
    t.nodes[b][i] \in Node /\ BucketOf(t, t.nodes[b][i].nam) = b

Distinct(t) ==
  \A b \in Buckets(t) : \A i \in DOMAIN t.nodes[b], j \in DOMAIN t.nodes[b] :
    t.nodes[b][i].nam = t.nodes[b][j].nam => i = j

Typed(t) ==
  /\ t = [nodes |-> t.nodes, hsize |-> t.hsize, ct |-> t.ct]
  /\ t.hsize \in Nat \ {0}
  /\ t.ct \in Nat
  /\ DOMAIN t.nodes = Buckets(t)
  /\ t.nodes = [b \in Buckets(t) |-> t.nodes[b]]
  /\ \A b \in Buckets(t) : t.nodes[b] \in Seq(Node)

LEMMA TypedIsType ==
  ASSUME NEW t
  PROVE  TypeOf(t) <=> Typed(t)
BY DEF TypeOf, Typed, Buckets

\* The bucket of a name exists.
LEMMA BucketExists ==
  ASSUME NEW t, t.hsize \in Nat \ {0}, NEW n \in Names
  PROVE  BucketOf(t, n) \in Buckets(t)
BY HasherAssumption DEF BucketOf, Buckets

LEMMA Chainwise ==
  ASSUME NEW t, TypeOf(t)
  PROVE  Placed(t) /\ OneForEach(t) <=> InBucket(t) /\ Distinct(t)
<1>t. Typed(t)
  BY TypedIsType
<1>n. \A b \in Buckets(t) : \A i \in DOMAIN t.nodes[b] : t.nodes[b][i] \in Node
  BY <1>t DEF Typed
<1>1. ASSUME Placed(t), OneForEach(t) PROVE InBucket(t) /\ Distinct(t)
  <2>1. ASSUME NEW b \in Buckets(t), NEW i \in DOMAIN t.nodes[b]
        PROVE  t.nodes[b][i] \in Node /\ BucketOf(t, t.nodes[b][i].nam) = b
    <3>1. <<b, i>> \in Places(t) /\ NodeAt(t, <<b, i>>) = t.nodes[b][i]
      BY PlacesAre DEF NodeAt
    <3>2. <<b, i>>[1] = BucketOf(t, NodeAt(t, <<b, i>>).nam)
      BY <1>1, <3>1 DEF Placed
    <3> QED BY <1>n, <3>1, <3>2
  <2>2. ASSUME NEW b \in Buckets(t), NEW i \in DOMAIN t.nodes[b], NEW j \in DOMAIN t.nodes[b],
               t.nodes[b][i].nam = t.nodes[b][j].nam
        PROVE  i = j
    <3>1. <<b, i>> \in Places(t) /\ <<b, j>> \in Places(t)
      BY PlacesAre
    <3>2. NodeAt(t, <<b, i>>).nam = NodeAt(t, <<b, j>>).nam
      BY <2>2 DEF NodeAt
    <3>3. <<b, i>> = <<b, j>>
      BY <1>1, <3>1, <3>2 DEF OneForEach
    <3> QED BY <3>3
  <2> QED BY <2>1, <2>2 DEF InBucket, Distinct
<1>2. ASSUME InBucket(t), Distinct(t) PROVE Placed(t) /\ OneForEach(t)
  <2>1. Placed(t)
    BY <1>2, PlacesAre DEF Placed, InBucket, NodeAt
  <2>2. ASSUME NEW p \in Places(t), NEW q \in Places(t), NodeAt(t, p).nam = NodeAt(t, q).nam
        PROVE  p = q
    <3>1. p[1] = q[1]
      BY <2>1, <2>2 DEF Placed
    <3>2. p[1] \in Buckets(t) /\ p[2] \in DOMAIN t.nodes[p[1]] /\ q[2] \in DOMAIN t.nodes[p[1]]
      BY <3>1, PlacesAre
    <3>3. p[2] = q[2]
      BY <1>2, <2>2, <3>1, <3>2 DEF Distinct, NodeAt
    <3>4. p = <<p[1], p[2]>> /\ q = <<q[1], q[2]>>
      BY PlacesAre
    <3> QED BY <3>1, <3>3, <3>4
  <2> QED BY <2>1, <2>2 DEF OneForEach
<1> QED BY <1>1, <1>2

-----------------------------------------------------------------------------
(* Looking up. *)

\* A set of numbers has a least one.
LEMMA Least ==
  ASSUME NEW T \in SUBSET Nat, T # {}
  PROVE  \E x \in T : \A y \in T : x <= y
<1> DEFINE R == OpToRel(<, Nat)
<1>1. IsWellFoundedOn(R, Nat)
  BY NatLessThanWellFounded
<1>2. \A x, y \in Nat : <<y, x>> \in R <=> y < x
  BY DEF OpToRel
<1> HIDE DEF R
<1>3. PICK x \in T : \A y \in T : ~(<<y, x>> \in R)
  BY <1>1, WFMin
<1>4. ASSUME NEW y \in T PROVE x <= y
  <2>1. x \in Nat /\ y \in Nat /\ ~(<<y, x>> \in R)
    BY <1>3
  <2>2. ~(y < x)
    BY <1>2, <2>1
  <2> QED BY <2>1, <2>2
<1> QED BY <1>4

\* The walk along a chain stops at a node of the name.
LEMMA FoundIs ==
  ASSUME NEW chain \in Seq(Node), NEW n, Has(chain, n)
  PROVE  /\ Found(chain, n) \in DOMAIN chain
         /\ Found(chain, n) \in 1 .. Len(chain)
         /\ chain[Found(chain, n)].nam = n
<1> DEFINE At == {i \in DOMAIN chain : chain[i].nam = n}
<1>1. At \subseteq Nat /\ At # {}
  BY DEF Has
<1>2. PICK i \in At : \A j \in At : i <= j
  BY <1>1, Least
<1>3. i \in DOMAIN chain /\ chain[i].nam = n /\ \A j \in 1 .. i - 1 : chain[j].nam # n
  BY <1>2
<1> QED BY <1>3 DEF Found

\* A lookup answers what the table holds of the name.
LEMMA LookupIs ==
  ASSUME NEW t, WellFormed(t), NEW n \in Names
  PROVE  gethashnode2(t, n) = {e \in Contents(t) : e.nam = n}
<1>t. Typed(t) /\ InBucket(t) /\ Distinct(t)
  BY TypedIsType, Chainwise DEF WellFormed
<1> DEFINE b == BucketOf(t, n)
           chain == t.nodes[b]
<1>b. b \in Buckets(t) /\ chain \in Seq(Node)
  BY <1>t, BucketExists DEF Typed
<1>1. ASSUME NEW e \in Contents(t), e.nam = n
      PROVE  \E i \in DOMAIN chain : e = chain[i]
  <2>1. PICK c \in Buckets(t) : \E i \in DOMAIN t.nodes[c] : e = t.nodes[c][i]
    BY ContentsAre
  <2>2. PICK i \in DOMAIN t.nodes[c] : e = t.nodes[c][i]
    BY <2>1
  <2>3. c = b
    BY <1>t, <1>1, <2>2 DEF InBucket
  <2> QED BY <2>2, <2>3
<1>2. CASE Has(chain, n)
  <2> DEFINE f == Found(chain, n)
  <2>1. f \in DOMAIN chain /\ chain[f].nam = n
    BY <1>2, <1>b, FoundIs
  <2>2. chain[f] \in Contents(t)
    BY <1>b, <2>1, ContentsAre
  <2>3. ASSUME NEW e \in Contents(t), e.nam = n PROVE e = chain[f]
    <3>1. PICK i \in DOMAIN chain : e = chain[i]
      BY <1>1, <2>3
    <3>2. i = f
      BY <1>t, <1>b, <2>1, <2>3, <3>1 DEF Distinct
    <3> QED BY <3>1, <3>2
  <2>4. gethashnode2(t, n) = {chain[f]}
    BY <1>2 DEF gethashnode2, ChainOf
  <2> QED BY <2>1, <2>2, <2>3, <2>4
<1>3. CASE ~Has(chain, n)
  <2>1. gethashnode2(t, n) = {}
    BY <1>3 DEF gethashnode2, ChainOf
  <2>2. \A e \in Contents(t) : e.nam # n
    BY <1>1, <1>3 DEF Has
  <2> QED BY <2>1, <2>2
<1> QED BY <1>2, <1>3

-----------------------------------------------------------------------------
(* One chain changes. *)

Shape(t) == TypeOf(t) /\ Placed(t) /\ OneForEach(t) /\ Counted(t)

\* A chain of nodes of one bucket, without a name twice.
Chain(t, b, chain) ==
  /\ chain \in Seq(Node)
  /\ \A i \in DOMAIN chain : BucketOf(t, chain[i].nam) = b
  /\ \A i \in DOMAIN chain, j \in DOMAIN chain : chain[i].nam = chain[j].nam => i = j

LEMMA WithChainIs ==
  ASSUME NEW t, Shape(t), NEW b \in Buckets(t), NEW chain, Chain(t, b, chain), NEW k \in Nat
  PROVE  LET u == WithChain(t, b, chain, k)
         IN  /\ TypeOf(u) /\ Placed(u) /\ OneForEach(u)
             /\ u.hsize = t.hsize /\ u.ct = k
             /\ Places(u) = {p \in Places(t) : p[1] # b} \cup ({b} \X DOMAIN chain)
             /\ \A e : e \in Contents(u) <=> \/ e \in Contents(t) /\ BucketOf(t, e.nam) # b
                                             \/ \E i \in DOMAIN chain : e = chain[i]
<1> DEFINE u == WithChain(t, b, chain, k)
<1>t. Typed(t) /\ InBucket(t) /\ Distinct(t)
  BY TypedIsType, Chainwise DEF Shape
<1>1. /\ u = [nodes |-> u.nodes, hsize |-> u.hsize, ct |-> u.ct]
      /\ u.nodes = [t.nodes EXCEPT ![b] = chain] /\ u.hsize = t.hsize /\ u.ct = k
  BY DEF WithChain
<1>2. Buckets(u) = Buckets(t)
  BY <1>1 DEF Buckets
<1>3. \A c \in Buckets(t) : u.nodes[c] = IF c = b THEN chain ELSE t.nodes[c]
  BY <1>1, <1>t DEF Typed
<1>4. DOMAIN u.nodes = Buckets(u) /\ u.nodes = [c \in Buckets(u) |-> u.nodes[c]]
  BY <1>1, <1>2, <1>t DEF Typed
<1>5. Typed(u)
  BY <1>1, <1>2, <1>3, <1>4, <1>t DEF Typed, Chain
<1>6. \A n : BucketOf(u, n) = BucketOf(t, n)
  BY <1>1 DEF BucketOf
<1>7. InBucket(u)
  <2> SUFFICES ASSUME NEW c \in Buckets(t), NEW i \in DOMAIN u.nodes[c]
               PROVE  u.nodes[c][i] \in Node /\ BucketOf(t, u.nodes[c][i].nam) = c
    BY <1>2, <1>6 DEF InBucket
  <2>1. CASE c = b
    BY <2>1, <1>3 DEF Chain
  <2>2. CASE c # b
    BY <2>2, <1>3, <1>t DEF InBucket
  <2> QED BY <2>1, <2>2
<1>8. Distinct(u)
  <2> SUFFICES ASSUME NEW c \in Buckets(t), NEW i \in DOMAIN u.nodes[c], NEW j \in DOMAIN u.nodes[c],
                      u.nodes[c][i].nam = u.nodes[c][j].nam
               PROVE  i = j
    BY <1>2 DEF Distinct
  <2>1. CASE c = b
    BY <2>1, <1>3 DEF Chain
  <2>2. CASE c # b
    BY <2>2, <1>3, <1>t DEF Distinct
  <2> QED BY <2>1, <2>2
<1>9. TypeOf(u) /\ Placed(u) /\ OneForEach(u)
  BY <1>5, <1>7, <1>8, TypedIsType, Chainwise
<1>10. Places(u) = {p \in Places(t) : p[1] # b} \cup ({b} \X DOMAIN chain)
  <2> DEFINE P == {p \in Places(t) : p[1] # b} \cup ({b} \X DOMAIN chain)
  <2>1. ASSUME NEW p \in Places(u) PROVE p \in P
    <3>1. p = <<p[1], p[2]>> /\ p[1] \in Buckets(t) /\ p[2] \in DOMAIN u.nodes[p[1]]
      BY <1>2, PlacesAre
    <3>2. CASE p[1] = b
      BY <3>1, <3>2, <1>3
    <3>3. CASE p[1] # b
      <4>1. p[2] \in DOMAIN t.nodes[p[1]]
        BY <3>1, <3>3, <1>3
      <4>2. <<p[1], p[2]>> \in Places(t)
        BY <3>1, <4>1, PlacesAre
      <4> QED BY <3>1, <3>3, <4>2
    <3> QED BY <3>2, <3>3
  <2>2. ASSUME NEW p \in P PROVE p \in Places(u)
    <3>1. CASE p \in Places(t) /\ p[1] # b
      <4>1. p = <<p[1], p[2]>> /\ p[1] \in Buckets(t) /\ p[2] \in DOMAIN t.nodes[p[1]]
        BY <3>1, PlacesAre
      <4>2. p[2] \in DOMAIN u.nodes[p[1]]
        BY <3>1, <4>1, <1>3
      <4>3. <<p[1], p[2]>> \in Places(u)
        BY <4>1, <4>2, <1>2, PlacesAre
      <4> QED BY <4>1, <4>3
    <3>2. CASE p \in {b} \X DOMAIN chain
      <4>1. p = <<b, p[2]>> /\ p[2] \in DOMAIN u.nodes[b]
        BY <3>2, <1>3
      <4>2. <<b, p[2]>> \in Places(u)
        BY <4>1, <1>2, PlacesAre
      <4> QED BY <4>1, <4>2
    <3> QED BY <3>1, <3>2
  <2> QED BY <2>1, <2>2
<1>11. ASSUME NEW e
       PROVE  e \in Contents(u) <=> \/ e \in Contents(t) /\ BucketOf(t, e.nam) # b
                                    \/ \E i \in DOMAIN chain : e = chain[i]
  <2>1. ASSUME e \in Contents(u)
        PROVE  \/ e \in Contents(t) /\ BucketOf(t, e.nam) # b
               \/ \E i \in DOMAIN chain : e = chain[i]
    <3>1. PICK c \in Buckets(t) : \E i \in DOMAIN u.nodes[c] : e = u.nodes[c][i]
      BY <2>1, <1>2, ContentsAre
    <3>2. PICK i \in DOMAIN u.nodes[c] : e = u.nodes[c][i]
      BY <3>1
    <3>3. CASE c = b
      BY <3>2, <3>3, <1>3
    <3>4. CASE c # b
      <4>1. i \in DOMAIN t.nodes[c] /\ e = t.nodes[c][i]
        BY <3>2, <3>4, <1>3
      <4>2. e \in Contents(t)
        BY <4>1, ContentsAre
      <4>3. BucketOf(t, e.nam) = c
        BY <4>1, <1>t DEF InBucket
      <4> QED BY <4>2, <4>3, <3>4
    <3> QED BY <3>3, <3>4
  <2>2. ASSUME e \in Contents(t), BucketOf(t, e.nam) # b PROVE e \in Contents(u)
    <3>1. PICK c \in Buckets(t) : \E i \in DOMAIN t.nodes[c] : e = t.nodes[c][i]
      BY <2>2, ContentsAre
    <3>2. PICK i \in DOMAIN t.nodes[c] : e = t.nodes[c][i]
      BY <3>1
    <3>3. c # b
      BY <2>2, <3>2, <1>t DEF InBucket
    <3>4. i \in DOMAIN u.nodes[c] /\ e = u.nodes[c][i]
      BY <3>2, <3>3, <1>3
    <3> QED BY <3>4, <1>2, ContentsAre
  <2>3. ASSUME NEW i \in DOMAIN chain, e = chain[i] PROVE e \in Contents(u)
    <3>1. i \in DOMAIN u.nodes[b] /\ e = u.nodes[b][i]
      BY <2>3, <1>3
    <3> QED BY <3>1, <1>2, ContentsAre
  <2> QED BY <2>1, <2>2, <2>3
<1> QED BY <1>1, <1>9, <1>10, <1>11

\* The places of a table and those of one of its chains.
LEMMA PlacesOfChain ==
  ASSUME NEW t, NEW b \in Buckets(t)
  PROVE  Places(t) = {p \in Places(t) : p[1] # b} \cup ({b} \X DOMAIN t.nodes[b])
<1>1. ASSUME NEW p \in Places(t), p[1] = b PROVE p \in {b} \X DOMAIN t.nodes[b]
  BY <1>1, PlacesAre
<1>2. ASSUME NEW p \in {b} \X DOMAIN t.nodes[b] PROVE p \in Places(t)
  <2>1. p = <<b, p[2]>> /\ p[2] \in DOMAIN t.nodes[b]
    BY <1>2
  <2>2. <<b, p[2]>> \in Places(t)
    BY <2>1, PlacesAre
  <2> QED BY <2>1, <2>2
<1> QED BY <1>1, <1>2

\* What a well formed table has in the bucket of a name.
LEMMA OwnChain ==
  ASSUME NEW t, Shape(t), NEW n \in Names
  PROVE  LET b == BucketOf(t, n)
         IN  /\ b \in Buckets(t)
             /\ Chain(t, b, t.nodes[b])
             /\ \A e \in Contents(t) : e.nam \in Names
             /\ \A e \in Contents(t) : BucketOf(t, e.nam) = b => \E i \in DOMAIN t.nodes[b] : e = t.nodes[b][i]
             /\ \A i \in DOMAIN t.nodes[b] : t.nodes[b][i] \in Contents(t)
<1> DEFINE b == BucketOf(t, n)
<1>t. Typed(t) /\ InBucket(t) /\ Distinct(t)
  BY TypedIsType, Chainwise DEF Shape
<1>1. b \in Buckets(t)
  BY <1>t, BucketExists DEF Typed
<1>2. Chain(t, b, t.nodes[b])
  BY <1>t, <1>1 DEF Typed, InBucket, Distinct, Chain
<1>3. ASSUME NEW e \in Contents(t)
      PROVE  e.nam \in Names /\ (BucketOf(t, e.nam) = b => \E i \in DOMAIN t.nodes[b] : e = t.nodes[b][i])
  <2>1. PICK c \in Buckets(t) : \E i \in DOMAIN t.nodes[c] : e = t.nodes[c][i]
    BY ContentsAre
  <2>2. PICK i \in DOMAIN t.nodes[c] : e = t.nodes[c][i]
    BY <2>1
  <2>3. e \in Node /\ BucketOf(t, e.nam) = c
    BY <2>2, <1>t DEF InBucket
  <2> QED BY <2>2, <2>3 DEF Node
<1>4. \A i \in DOMAIN t.nodes[b] : t.nodes[b][i] \in Contents(t)
  BY <1>1, ContentsAre
<1> QED BY <1>1, <1>2, <1>3, <1>4

\* A node takes the place of the one with its name.
LEMMA ReplaceIs ==
  ASSUME NEW t, Shape(t), NEW node \in Node,
         Has(ChainOf(t, node.nam), node.nam)
  PROVE  LET b == BucketOf(t, node.nam)
             u == WithChain(t, b, [t.nodes[b] EXCEPT ![Found(t.nodes[b], node.nam)] = node], t.ct)
         IN  /\ Shape(u)
             /\ u.hsize = t.hsize /\ u.ct = t.ct
             /\ Contents(u) = {e \in Contents(t) : e.nam # node.nam} \cup {node}
<1> DEFINE n == node.nam
           b == BucketOf(t, n)
           old == t.nodes[b]
           f == Found(old, n)
           new == [old EXCEPT ![f] = node]
           u == WithChain(t, b, new, t.ct)
<1>n. n \in Names
  BY DEF Node
<1>1. b \in Buckets(t) /\ Chain(t, b, old)
  BY <1>n, OwnChain
<1>2. f \in DOMAIN old /\ f \in 1 .. Len(old) /\ old[f].nam = n
  BY <1>1, FoundIs DEF Chain, ChainOf
<1>3. new \in Seq(Node) /\ DOMAIN new = DOMAIN old
  BY <1>1, <1>2 DEF Chain
<1>4. \A i \in DOMAIN old : new[i] = IF i = f THEN node ELSE old[i]
  BY <1>2
<1>5. Chain(t, b, new)
  <2>1. \A i \in DOMAIN new : BucketOf(t, new[i].nam) = b
    BY <1>1, <1>3, <1>4 DEF Chain
  <2>2. ASSUME NEW i \in DOMAIN new, NEW j \in DOMAIN new, new[i].nam = new[j].nam PROVE i = j
    <3>1. new[i].nam = old[i].nam /\ new[j].nam = old[j].nam
      BY <1>2, <1>3, <1>4
    <3> QED BY <3>1, <2>2, <1>1, <1>3 DEF Chain
  <2> QED BY <2>1, <2>2, <1>3 DEF Chain
<1>7. t.ct \in Nat
  BY DEF Shape, TypeOf
<1> HIDE DEF new, u
<1>8. /\ TypeOf(u) /\ Placed(u) /\ OneForEach(u)
      /\ u.hsize = t.hsize /\ u.ct = t.ct
      /\ Places(u) = {p \in Places(t) : p[1] # b} \cup ({b} \X DOMAIN new)
      /\ \A e : e \in Contents(u) <=> \/ e \in Contents(t) /\ BucketOf(t, e.nam) # b
                                      \/ \E i \in DOMAIN new : e = new[i]
  BY <1>1, <1>5, <1>7, WithChainIs DEF u
<1>9. Places(u) = Places(t)
  BY <1>1, <1>3, <1>8, PlacesOfChain
<1>10. Shape(u)
  BY <1>8, <1>9 DEF Shape, Counted
<1>11. ASSUME NEW e
       PROVE  e \in Contents(u) <=> (e \in Contents(t) /\ e.nam # n) \/ e = node
  <2>1. ASSUME e \in Contents(t), BucketOf(t, e.nam) # b PROVE e.nam # n
    BY <2>1
  <2>2. ASSUME NEW i \in DOMAIN new, e = new[i] PROVE (e \in Contents(t) /\ e.nam # n) \/ e = node
    <3>1. CASE i = f
      BY <3>1, <2>2, <1>2, <1>4
    <3>2. CASE i # f
      <4>1. i \in DOMAIN old /\ e = old[i]
        BY <3>2, <2>2, <1>3, <1>4
      <4>2. e \in Contents(t)
        BY <4>1, <1>n, OwnChain
      <4>3. e.nam # n
        BY <4>1, <3>2, <1>1, <1>2 DEF Chain
      <4> QED BY <4>2, <4>3
    <3> QED BY <3>1, <3>2
  <2>3. ASSUME e \in Contents(t), e.nam # n, BucketOf(t, e.nam) = b PROVE \E i \in DOMAIN new : e = new[i]
    <3>1. PICK i \in DOMAIN old : e = old[i]
      BY <2>3, <1>n, OwnChain
    <3>2. i # f
      BY <2>3, <3>1, <1>2
    <3>3. i \in DOMAIN new /\ e = new[i]
      BY <3>1, <3>2, <1>3, <1>4
    <3> QED BY <3>3
  <2>4. f \in DOMAIN new /\ new[f] = node
    BY <1>2, <1>3, <1>4
  <2> QED BY <1>8, <2>1, <2>2, <2>3, <2>4
<1>12. Contents(u) = {e \in Contents(t) : e.nam # n} \cup {node}
  BY <1>11
<1> QED BY <1>8, <1>10, <1>12 DEF u, new

\* A node with a new name goes to the head of its chain.
LEMMA PushIs ==
  ASSUME NEW t, Shape(t), NEW node \in Node,
         ~Has(ChainOf(t, node.nam), node.nam)
  PROVE  LET b == BucketOf(t, node.nam)
             u == WithChain(t, b, <<node>> \o t.nodes[b], t.ct + 1)
         IN  /\ Shape(u)
             /\ u.hsize = t.hsize /\ u.ct = t.ct + 1
             /\ \A e \in Contents(t) : e.nam # node.nam
             /\ Contents(u) = Contents(t) \cup {node}
<1> DEFINE n == node.nam
           b == BucketOf(t, n)
           old == t.nodes[b]
           new == <<node>> \o old
           u == WithChain(t, b, new, t.ct + 1)
<1>n. n \in Names
  BY DEF Node
<1>1. b \in Buckets(t) /\ Chain(t, b, old)
  BY <1>n, OwnChain
<1>2. old \in Seq(Node) /\ \A i \in DOMAIN old : old[i].nam # n
  BY <1>1 DEF Chain, ChainOf, Has
<1>3. /\ new \in Seq(Node) /\ DOMAIN new = 1 .. Len(old) + 1
      /\ DOMAIN old = 1 .. Len(old) /\ Len(old) \in Nat
      /\ new[1] = node
      /\ \A i \in DOMAIN new : i # 1 => i - 1 \in DOMAIN old /\ new[i] = old[i - 1]
      /\ \A i \in DOMAIN old : i + 1 \in DOMAIN new /\ new[i + 1] = old[i]
  BY <1>2
<1> HIDE DEF new
<1>5. Chain(t, b, new)
  <2>1. \A i \in DOMAIN new : BucketOf(t, new[i].nam) = b
    <3> SUFFICES ASSUME NEW i \in DOMAIN new PROVE BucketOf(t, new[i].nam) = b
      OBVIOUS
    <3>1. CASE i = 1
      BY <3>1, <1>3
    <3>2. CASE i # 1
      BY <3>2, <1>1, <1>3 DEF Chain
    <3> QED BY <3>1, <3>2
  <2>2. ASSUME NEW i \in DOMAIN new, NEW j \in DOMAIN new, new[i].nam = new[j].nam PROVE i = j
    <3>1. CASE i = 1 /\ j # 1
      BY <3>1, <2>2, <1>2, <1>3
    <3>2. CASE i # 1 /\ j = 1
      BY <3>2, <2>2, <1>2, <1>3
    <3>3. CASE i # 1 /\ j # 1
      <4>1. i - 1 \in DOMAIN old /\ j - 1 \in DOMAIN old /\ old[i - 1].nam = old[j - 1].nam
        BY <3>3, <2>2, <1>3
      <4>2. i - 1 = j - 1
        BY <4>1, <1>1 DEF Chain
      <4>3. i \in Nat /\ j \in Nat
        BY <1>3
      <4> QED BY <4>2, <4>3
    <3> QED BY <3>1, <3>2, <3>3
  <2> QED BY <2>1, <2>2, <1>3 DEF Chain
<1>7. t.ct \in Nat /\ t.ct + 1 \in Nat
  BY DEF Shape, TypeOf
<1> HIDE DEF u
<1>8. /\ TypeOf(u) /\ Placed(u) /\ OneForEach(u)
      /\ u.hsize = t.hsize /\ u.ct = t.ct + 1
      /\ Places(u) = {p \in Places(t) : p[1] # b} \cup ({b} \X DOMAIN new)
      /\ \A e : e \in Contents(u) <=> \/ e \in Contents(t) /\ BucketOf(t, e.nam) # b
                                      \/ \E i \in DOMAIN new : e = new[i]
  BY <1>1, <1>5, <1>7, WithChainIs DEF u
<1>9. /\ Places(u) = Places(t) \cup {<<b, Len(old) + 1>>}
      /\ <<b, Len(old) + 1>> \notin Places(t)
  <2>1. DOMAIN new = DOMAIN old \cup {Len(old) + 1} /\ Len(old) + 1 \notin DOMAIN old
    BY <1>3
  <2>2. {b} \X DOMAIN new = ({b} \X DOMAIN old) \cup {<<b, Len(old) + 1>>}
    BY <2>1
  <2>3. <<b, Len(old) + 1>> \notin Places(t)
    <3>1. ASSUME <<b, Len(old) + 1>> \in Places(t) PROVE <<b, Len(old) + 1>>[2] \in DOMAIN t.nodes[<<b, Len(old) + 1>>[1]]
      BY <3>1, PlacesAre
    <3> QED BY <3>1, <2>1
  <2> QED BY <1>1, <1>8, <2>2, <2>3, PlacesOfChain
<1>10. Shape(u)
  <2>1. IsFiniteSet(Places(t)) /\ t.ct = Cardinality(Places(t))
    BY DEF Shape, Counted
  <2> DEFINE x == <<b, Len(old) + 1>>
             P == Places(t)
  <2>2. IsFiniteSet(P) /\ x \notin P
    BY <2>1, <1>9
  <2> HIDE DEF P, x
  <2>3. IsFiniteSet(P \cup {x}) /\ Cardinality(P \cup {x}) = Cardinality(P) + 1
    BY <2>2, FS_AddElement
  <2>4. Places(u) = P \cup {x} /\ u.ct = Cardinality(P) + 1
    BY <1>8, <1>9, <2>1 DEF P, x
  <2>5. IsFiniteSet(Places(u)) /\ u.ct = Cardinality(Places(u))
    BY <2>3, <2>4
  <2> QED BY <1>8, <2>5 DEF Shape, Counted
<1>11. ASSUME NEW e \in Contents(t) PROVE e.nam # n
  BY <1>2, <1>n, OwnChain
<1>12. ASSUME NEW e
       PROVE  e \in Contents(u) <=> e \in Contents(t) \/ e = node
  <2>1. ASSUME NEW i \in DOMAIN new, e = new[i] PROVE e \in Contents(t) \/ e = node
    <3>1. CASE i = 1
      BY <3>1, <2>1, <1>3
    <3>2. CASE i # 1
      <4>1. i - 1 \in DOMAIN old /\ e = old[i - 1]
        BY <3>2, <2>1, <1>3
      <4> QED BY <4>1, <1>n, OwnChain
    <3> QED BY <3>1, <3>2
  <2>2. ASSUME e \in Contents(t), BucketOf(t, e.nam) = b PROVE \E i \in DOMAIN new : e = new[i]
    <3>1. PICK i \in DOMAIN old : e = old[i]
      BY <2>2, <1>n, OwnChain
    <3>2. i + 1 \in DOMAIN new /\ e = new[i + 1]
      BY <3>1, <1>3
    <3> QED BY <3>2
  <2>3. 1 \in DOMAIN new /\ new[1] = node
    BY <1>3
  <2> QED BY <1>8, <2>1, <2>2, <2>3
<1>13. Contents(u) = Contents(t) \cup {node}
  BY <1>12
<1> QED BY <1>8, <1>10, <1>11, <1>13 DEF u, new

\* The node of a name leaves its chain.
LEMMA RemoveIs ==
  ASSUME NEW t, Shape(t), NEW n \in Names, Has(ChainOf(t, n), n)
  PROVE  LET b == BucketOf(t, n)
             u == WithChain(t, b, Without(t.nodes[b], Found(t.nodes[b], n)), t.ct - 1)
         IN  /\ Shape(u)
             /\ u.hsize = t.hsize /\ u.ct < t.ct
             /\ Contents(u) = {e \in Contents(t) : e.nam # n}
<1> DEFINE b == BucketOf(t, n)
           old == t.nodes[b]
           f == Found(old, n)
           new == Without(old, f)
           u == WithChain(t, b, new, t.ct - 1)
<1>1. b \in Buckets(t) /\ Chain(t, b, old)
  BY OwnChain
<1>2. f \in DOMAIN old /\ f \in 1 .. Len(old) /\ old[f].nam = n
  BY <1>1, FoundIs DEF Chain, ChainOf
<1>3. old \in Seq(Node) /\ DOMAIN old = 1 .. Len(old) /\ Len(old) \in Nat \ {0}
  BY <1>1, <1>2 DEF Chain
<1>4. /\ new = [j \in 1 .. Len(old) - 1 |-> IF j < f THEN old[j] ELSE old[j + 1]]
      /\ DOMAIN new = 1 .. Len(old) - 1
      /\ \A i \in DOMAIN new : i < f => i \in DOMAIN old /\ new[i] = old[i]
      /\ \A i \in DOMAIN new : ~(i < f) => i + 1 \in DOMAIN old /\ new[i] = old[i + 1]
  BY <1>2, <1>3 DEF Without
<1>s. new \in Seq(Node)
  <2>0. \A m \in Nat \ {0} : m - 1 \in Nat
    OBVIOUS
  <2>1. PICK n1 \in Nat : n1 = Len(old) - 1
    <3> HIDE DEF old
    <3> QED BY <1>3, <2>0
  <2>2. \A j \in 1 .. n1 : (IF j < f THEN old[j] ELSE old[j + 1]) \in Node
    BY <2>1, <1>2, <1>3
  <2>3. new = [j \in 1 .. n1 |-> IF j < f THEN old[j] ELSE old[j + 1]]
    BY <2>1, <1>4
  <2>4. new \in [1 .. n1 -> Node]
    BY <2>2, <2>3
  <2> HIDE DEF new
  <2> QED BY <2>4
<1> DEFINE at(i) == IF i < f THEN i ELSE i + 1
<1>a. \A i \in DOMAIN new : at(i) \in DOMAIN old /\ at(i) # f /\ new[i] = old[at(i)]
  BY <1>2, <1>3, <1>4
<1>i. \A i \in DOMAIN new, j \in DOMAIN new : at(i) = at(j) => i = j
  BY <1>2, <1>3, <1>4
<1>o. \A i \in DOMAIN old : i # f => \E j \in DOMAIN new : at(j) = i
  <2> SUFFICES ASSUME NEW i \in DOMAIN old, i # f PROVE \E j \in DOMAIN new : at(j) = i
    OBVIOUS
  <2>1. CASE i < f
    <3>1. i \in DOMAIN new /\ at(i) = i
      BY <2>1, <1>2, <1>3, <1>4
    <3> QED BY <3>1
  <2>2. CASE ~(i < f)
    <3>1. i - 1 \in DOMAIN new /\ at(i - 1) = i
      BY <2>2, <1>2, <1>3, <1>4
    <3> QED BY <3>1
  <2> QED BY <2>1, <2>2
<1> HIDE DEF new, at
<1>5. Chain(t, b, new)
  <2>1. \A i \in DOMAIN new : BucketOf(t, new[i].nam) = b
    BY <1>1, <1>a DEF Chain
  <2>2. ASSUME NEW i \in DOMAIN new, NEW j \in DOMAIN new, new[i].nam = new[j].nam PROVE i = j
    <3>1. at(i) = at(j)
      BY <2>2, <1>1, <1>a DEF Chain
    <3> QED BY <3>1, <1>i
  <2> QED BY <2>1, <2>2, <1>s DEF Chain
<1>9. Places(t) = {p \in Places(t) : p[1] # b} \cup ({b} \X DOMAIN old)
  BY <1>1, PlacesOfChain
<1>c. IsFiniteSet(Places(t)) /\ t.ct = Cardinality(Places(t)) /\ t.ct \in Nat
  BY DEF Shape, Counted, TypeOf
<1> DEFINE last == <<b, Len(old)>>
<1>l. last \in Places(t)
  <2>1. Len(old) \in DOMAIN old
    BY <1>3
  <2> QED BY <2>1, <1>1, PlacesAre
<1>p. {p \in Places(t) : p[1] # b} \cup ({b} \X DOMAIN new) = Places(t) \ {last}
  <2>1. DOMAIN new = DOMAIN old \ {Len(old)}
    BY <1>3, <1>4
  <2>2. {b} \X DOMAIN new = ({b} \X DOMAIN old) \ {last}
    BY <2>1
  <2> QED BY <1>9, <2>2
<1>k. /\ IsFiniteSet(Places(t) \ {last})
      /\ Cardinality(Places(t) \ {last}) = t.ct - 1
      /\ t.ct - 1 \in Nat
  <2>1. IsFiniteSet(Places(t) \ {last}) /\ Cardinality(Places(t) \ {last}) = t.ct - 1
    BY <1>c, <1>l, FS_RemoveElement
  <2>2. Cardinality(Places(t) \ {last}) \in Nat
    BY <2>1, FS_CardinalityType
  <2> QED BY <2>1, <2>2
<1> HIDE DEF u
<1>8. /\ TypeOf(u) /\ Placed(u) /\ OneForEach(u)
      /\ u.hsize = t.hsize /\ u.ct = t.ct - 1
      /\ Places(u) = {p \in Places(t) : p[1] # b} \cup ({b} \X DOMAIN new)
      /\ \A e : e \in Contents(u) <=> \/ e \in Contents(t) /\ BucketOf(t, e.nam) # b
                                      \/ \E i \in DOMAIN new : e = new[i]
  BY <1>1, <1>5, <1>k, WithChainIs DEF u
<1>10. Shape(u)
  BY <1>8, <1>p, <1>k DEF Shape, Counted
<1>11. ASSUME NEW e
       PROVE  e \in Contents(u) <=> e \in Contents(t) /\ e.nam # n
  <2>1. ASSUME NEW i \in DOMAIN new, e = new[i] PROVE e \in Contents(t) /\ e.nam # n
    <3>1. at(i) \in DOMAIN old /\ at(i) # f /\ e = old[at(i)]
      BY <2>1, <1>a
    <3>2. e \in Contents(t)
      BY <3>1, OwnChain
    <3>3. e.nam # n
      BY <3>1, <1>1, <1>2 DEF Chain
    <3> QED BY <3>2, <3>3
  <2>2. ASSUME e \in Contents(t), e.nam # n, BucketOf(t, e.nam) = b PROVE \E i \in DOMAIN new : e = new[i]
    <3>1. PICK i \in DOMAIN old : e = old[i]
      BY <2>2, OwnChain
    <3>2. i # f
      BY <2>2, <3>1, <1>2
    <3>3. PICK j \in DOMAIN new : at(j) = i
      BY <3>2, <1>o
    <3> QED BY <3>1, <3>3, <1>a
  <2>3. BucketOf(t, e.nam) # b => e.nam # n
    OBVIOUS
  <2> QED BY <1>8, <2>1, <2>2, <2>3
<1>12. Contents(u) = {e \in Contents(t) : e.nam # n}
  BY <1>11
<1>13. u.ct < t.ct
  BY <1>8, <1>c
<1> QED BY <1>8, <1>10, <1>12, <1>13 DEF u, new

-----------------------------------------------------------------------------
(* Expanding. *)

\* The number of places that are scanned no earlier tells the places apart, and
\* takes every value.
LEMMA RankIs ==
  ASSUME NEW S, IsFiniteSet(S),
         \A p \in S : p = <<p[1], p[2]>> /\ p[1] \in Int /\ p[2] \in Int
  PROVE  /\ Cardinality(S) \in Nat
         /\ \A p \in S : Cardinality(LaterOf(S, p)) \in 1 .. Cardinality(S)
         /\ \A p \in S, q \in S : Cardinality(LaterOf(S, p)) = Cardinality(LaterOf(S, q)) => p = q
         /\ \A k \in 1 .. Cardinality(S) : \E p \in S : Cardinality(LaterOf(S, p)) = k
<1> DEFINE rank == [p \in S |-> Cardinality(LaterOf(S, p))]
<1>0. Cardinality(S) \in Nat
  BY FS_CardinalityType
<1>1. ASSUME NEW p \in S
      PROVE  IsFiniteSet(LaterOf(S, p)) /\ Cardinality(LaterOf(S, p)) \in 1 .. Cardinality(S)
  <2>1. LaterOf(S, p) \subseteq S /\ p \in LaterOf(S, p)
    BY DEF LaterOf
  <2>2. IsFiniteSet(LaterOf(S, p)) /\ Cardinality(LaterOf(S, p)) <= Cardinality(S)
    BY <2>1, FS_Subset
  <2>3. Cardinality(LaterOf(S, p)) \in Nat
    BY <2>2, FS_CardinalityType
  <2>4. Cardinality(LaterOf(S, p)) # 0
    BY <2>1, <2>2, FS_EmptySet
  <2> QED BY <2>2, <2>3, <2>4, <1>0
<1>2. ASSUME NEW p \in S, NEW q \in S, Before(p, q)
      PROVE  Cardinality(LaterOf(S, q)) < Cardinality(LaterOf(S, p))
  <2>1. LaterOf(S, q) \subseteq LaterOf(S, p)
    BY <1>2 DEF LaterOf, Before
  <2>2. p \in LaterOf(S, p) /\ p \notin LaterOf(S, q)
    BY <1>2 DEF LaterOf, Before
  <2>3. LaterOf(S, q) # LaterOf(S, p)
    BY <2>2
  <2>4. Cardinality(LaterOf(S, q)) <= Cardinality(LaterOf(S, p))
    BY <2>1, <1>1, FS_Subset
  <2>5. Cardinality(LaterOf(S, q)) # Cardinality(LaterOf(S, p))
    BY <2>1, <2>3, <1>1, FS_Subset
  <2>6. Cardinality(LaterOf(S, q)) \in Nat /\ Cardinality(LaterOf(S, p)) \in Nat
    BY <1>1, FS_CardinalityType
  <2> QED BY <2>4, <2>5, <2>6
<1>3. ASSUME NEW p \in S, NEW q \in S, Cardinality(LaterOf(S, p)) = Cardinality(LaterOf(S, q))
      PROVE  p = q
  <2>1. Cardinality(LaterOf(S, p)) \in Int /\ Cardinality(LaterOf(S, q)) \in Int
    BY <1>1
  <2>2. ~Before(p, q)
    <3>1. ASSUME Before(p, q) PROVE Cardinality(LaterOf(S, q)) < Cardinality(LaterOf(S, p))
      BY <1>2, <3>1
    <3> QED BY <3>1, <2>1, <1>3
  <2>3. ~Before(q, p)
    <3>1. ASSUME Before(q, p) PROVE Cardinality(LaterOf(S, p)) < Cardinality(LaterOf(S, q))
      BY <1>2, <3>1
    <3> QED BY <3>1, <2>1, <1>3
  <2>4. p[1] = q[1] /\ p[2] = q[2]
    BY <2>2, <2>3 DEF Before
  <2> QED BY <2>4
<1>4. rank \in Injection(S, 1 .. Cardinality(S))
  <2>1. rank \in [S -> 1 .. Cardinality(S)]
    BY <1>1
  <2>2. \A p, q \in S : rank[p] = rank[q] => p = q
    BY <1>3
  <2> HIDE DEF rank
  <2> QED BY <2>1, <2>2 DEF Injection, IsInjective
<1>5. IsFiniteSet(1 .. Cardinality(S)) /\ Cardinality(1 .. Cardinality(S)) = Cardinality(S)
  <2>1. PICK n \in Nat : n = Cardinality(S)
    BY <1>0
  <2>2. IsFiniteSet(1 .. n) /\ Cardinality(1 .. n) = n
    BY FS_Interval
  <2> QED BY <2>1, <2>2
<1>6. rank \in Surjection(S, 1 .. Cardinality(S))
  BY <1>4, <1>5, FS_Injection
<1>7. ASSUME NEW k \in 1 .. Cardinality(S) PROVE \E p \in S : Cardinality(LaterOf(S, p)) = k
  <2>1. \E p \in S : rank[p] = k
    <3> HIDE DEF rank
    <3> QED BY <1>6 DEF Surjection
  <2> QED BY <2>1
<1> QED BY <1>0, <1>1, <1>3, <1>7

\* The place from which the k-th node of a refilled chain comes.
Source(S, k) == CHOOSE p \in S : Cardinality(LaterOf(S, p)) = k

\* A refilled chain has the nodes of its places, each once.
LEMMA ReaddedIs ==
  ASSUME NEW t, Shape(t), NEW S \in SUBSET Places(t)
  PROVE  /\ Cardinality(S) \in Nat
         /\ Readded(t, S) \in Seq(Node)
         /\ DOMAIN Readded(t, S) = 1 .. Cardinality(S)
         /\ \A k \in 1 .. Cardinality(S) :
              Source(S, k) \in S /\ Readded(t, S)[k] = NodeAt(t, Source(S, k))
         /\ \A k \in 1 .. Cardinality(S), m \in 1 .. Cardinality(S) :
              Source(S, k) = Source(S, m) => k = m
         /\ \A p \in S : \E k \in 1 .. Cardinality(S) : Source(S, k) = p
<1>t. Typed(t) /\ InBucket(t)
  BY TypedIsType, Chainwise DEF Shape
<1>f. IsFiniteSet(S)
  BY FS_Subset DEF Shape, Counted
<1>1. \A p \in S : p = <<p[1], p[2]>> /\ p[1] \in Int /\ p[2] \in Int
  <2> SUFFICES ASSUME NEW p \in S PROVE p = <<p[1], p[2]>> /\ p[1] \in Int /\ p[2] \in Int
    OBVIOUS
  <2>1. p = <<p[1], p[2]>> /\ p[1] \in Buckets(t) /\ p[2] \in DOMAIN t.nodes[p[1]]
    BY PlacesAre
  <2>2. t.nodes[p[1]] \in Seq(Node) /\ p[1] \in Int
    BY <2>1, <1>t DEF Typed, Buckets
  <2> QED BY <2>1, <2>2
<1>2. /\ Cardinality(S) \in Nat
      /\ \A p \in S : Cardinality(LaterOf(S, p)) \in 1 .. Cardinality(S)
      /\ \A p \in S, q \in S : Cardinality(LaterOf(S, p)) = Cardinality(LaterOf(S, q)) => p = q
      /\ \A k \in 1 .. Cardinality(S) : \E p \in S : Cardinality(LaterOf(S, p)) = k
  BY <1>1, <1>f, RankIs
<1>3. \A k \in 1 .. Cardinality(S) :
        Source(S, k) \in S /\ Cardinality(LaterOf(S, Source(S, k))) = k
  BY <1>2 DEF Source
<1>4. Readded(t, S) = [k \in 1 .. Cardinality(S) |-> NodeAt(t, Source(S, k))]
  BY DEF Readded, Source
<1>5. \A p \in S : NodeAt(t, p) \in Node
  <2> SUFFICES ASSUME NEW p \in S PROVE NodeAt(t, p) \in Node
    OBVIOUS
  <2>1. p[1] \in Buckets(t) /\ p[2] \in DOMAIN t.nodes[p[1]]
    BY PlacesAre
  <2> QED BY <2>1, <1>t DEF InBucket, NodeAt
<1>6. Readded(t, S) \in Seq(Node)
  <2>1. PICK n \in Nat : n = Cardinality(S)
    BY <1>2
  <2>2. Readded(t, S) \in [1 .. n -> Node]
    BY <2>1, <1>3, <1>4, <1>5
  <2> QED BY <2>2
<1>7. ASSUME NEW p \in S PROVE \E k \in 1 .. Cardinality(S) : Source(S, k) = p
  <2> DEFINE k == Cardinality(LaterOf(S, p))
  <2>1. k \in 1 .. Cardinality(S)
    BY <1>2
  <2>2. Source(S, k) \in S /\ Cardinality(LaterOf(S, Source(S, k))) = k
    BY <1>3, <2>1
  <2>3. Source(S, k) = p
    BY <1>2, <2>2
  <2> QED BY <2>1, <2>3
<1> QED BY <1>2, <1>3, <1>4, <1>6, <1>7

\* Expanding keeps the nodes.
LEMMA ExpandIs ==
  ASSUME NEW t, Shape(t)
  PROVE  LET u == expandhashtable(t)
         IN  /\ Shape(u)
             /\ u.hsize = 4 * t.hsize /\ u.ct = t.ct
             /\ Contents(u) = Contents(t)
<1> DEFINE u == expandhashtable(t)
           size == 4 * t.hsize
           From(b) == GoesTo(t, size, b)
<1>t. Typed(t) /\ InBucket(t) /\ OneForEach(t)
  BY TypedIsType, Chainwise DEF Shape
<1>c. IsFiniteSet(Places(t)) /\ t.ct = Cardinality(Places(t)) /\ t.ct \in Nat
  BY DEF Shape, Counted, TypeOf
<1>s. size \in Nat \ {0}
  BY <1>t DEF Typed
<1>1. /\ u = [nodes |-> u.nodes, hsize |-> u.hsize, ct |-> u.ct]
      /\ u.nodes = [b \in 0 .. size - 1 |-> Readded(t, From(b))]
      /\ u.hsize = size /\ u.ct = t.ct
  BY <1>c DEF expandhashtable
<1>2. Buckets(u) = 0 .. size - 1 /\ \A b \in Buckets(u) : u.nodes[b] = Readded(t, From(b))
  BY <1>1 DEF Buckets
<1>3. ASSUME NEW b
      PROVE  /\ From(b) \in SUBSET Places(t)
             /\ \A p \in From(b) : BucketOf(u, NodeAt(t, p).nam) = b
  BY <1>1 DEF GoesTo, BucketOf
<1>4. ASSUME NEW p \in Places(t)
      PROVE  /\ BucketOf(u, NodeAt(t, p).nam) \in Buckets(u)
             /\ p \in From(BucketOf(u, NodeAt(t, p).nam))
             /\ NodeAt(t, p) \in Node
  <2>1. p[1] \in Buckets(t) /\ p[2] \in DOMAIN t.nodes[p[1]]
    BY PlacesAre
  <2>2. NodeAt(t, p) \in Node
    BY <2>1, <1>t DEF InBucket, NodeAt
  <2>3. NodeAt(t, p).nam \in Names
    BY <2>2 DEF Node
  <2>4. BucketOf(u, NodeAt(t, p).nam) \in Buckets(u)
    BY <2>3, <1>1, <1>s, BucketExists
  <2> QED BY <2>2, <2>4, <1>1 DEF GoesTo, BucketOf
<1> DEFINE card(b) == Cardinality(From(b))
           src(b, k) == Source(From(b), k)
<1>5. ASSUME NEW b \in Buckets(u)
      PROVE  /\ card(b) \in Nat
             /\ u.nodes[b] \in Seq(Node)
             /\ DOMAIN u.nodes[b] = 1 .. card(b)
             /\ \A k \in 1 .. card(b) : src(b, k) \in From(b) /\ u.nodes[b][k] = NodeAt(t, src(b, k))
             /\ \A k \in 1 .. card(b), m \in 1 .. card(b) : src(b, k) = src(b, m) => k = m
             /\ \A p \in From(b) : \E k \in 1 .. card(b) : src(b, k) = p
  BY <1>2, <1>3, ReaddedIs
<1> HIDE DEF u, size, From, card, src
<1>6. Typed(u)
  <2>1. u.nodes = [b \in Buckets(u) |-> u.nodes[b]] /\ DOMAIN u.nodes = Buckets(u)
    <3>1. u.nodes = [b \in Buckets(u) |-> Readded(t, From(b))]
      BY <1>1, <1>2
    <3> QED BY <3>1
  <2> QED BY <2>1, <1>1, <1>c, <1>s, <1>5 DEF Typed
<1>7. InBucket(u)
  <2> SUFFICES ASSUME NEW b \in Buckets(u), NEW i \in DOMAIN u.nodes[b]
               PROVE  u.nodes[b][i] \in Node /\ BucketOf(u, u.nodes[b][i].nam) = b
    BY DEF InBucket
  <2>1. src(b, i) \in From(b) /\ u.nodes[b][i] = NodeAt(t, src(b, i)) /\ u.nodes[b] \in Seq(Node)
    BY <1>5
  <2>2. u.nodes[b][i] \in Node
    BY <2>1
  <2> QED BY <2>1, <2>2, <1>3
<1>8. Distinct(u)
  <2> SUFFICES ASSUME NEW b \in Buckets(u), NEW i \in DOMAIN u.nodes[b], NEW j \in DOMAIN u.nodes[b],
                      u.nodes[b][i].nam = u.nodes[b][j].nam
               PROVE  i = j
    BY DEF Distinct
  <2>1. /\ i \in 1 .. card(b) /\ j \in 1 .. card(b)
        /\ src(b, i) \in From(b) /\ u.nodes[b][i] = NodeAt(t, src(b, i))
        /\ src(b, j) \in From(b) /\ u.nodes[b][j] = NodeAt(t, src(b, j))
    BY <1>5
  <2>2. src(b, i) \in Places(t) /\ src(b, j) \in Places(t)
    BY <2>1, <1>3
  <2>3. src(b, i) = src(b, j)
    BY <2>1, <2>2, <1>t DEF OneForEach
  <2> QED BY <2>1, <2>3, <1>5
<1>9. TypeOf(u) /\ Placed(u) /\ OneForEach(u)
  BY <1>6, <1>7, <1>8, TypedIsType, Chainwise
<1>10. ASSUME NEW b \in Buckets(u), NEW k \in 1 .. card(b) PROVE src(b, k) \in Places(t)
  BY <1>3, <1>5
<1> DEFINE back == [q \in Places(u) |-> src(q[1], q[2])]
<1>11. ASSUME NEW q \in Places(u)
       PROVE  q = <<q[1], q[2]>> /\ q[1] \in Buckets(u) /\ q[2] \in 1 .. card(q[1])
  BY PlacesAre, <1>5
<1>12. back \in [Places(u) -> Places(t)]
  BY <1>10, <1>11
<1>13. ASSUME NEW q \in Places(u), NEW r \in Places(u), back[q] = back[r] PROVE q = r
  <2>1. src(q[1], q[2]) = src(r[1], r[2])
    BY <1>13
  <2>2. src(q[1], q[2]) \in From(q[1]) /\ src(r[1], r[2]) \in From(r[1])
    BY <1>5, <1>11
  <2>3. q[1] = r[1]
    BY <2>1, <2>2, <1>3
  <2>4. q[2] = r[2]
    BY <2>1, <2>3, <1>5, <1>11
  <2> QED BY <2>3, <2>4, <1>11
<1>14. ASSUME NEW p \in Places(t) PROVE \E q \in Places(u) : back[q] = p
  <2>1. PICK b \in Buckets(u) : p \in From(b)
    BY <1>4
  <2>2. PICK k \in 1 .. card(b) : src(b, k) = p
    BY <2>1, <1>5
  <2>3. <<b, k>> \in Places(u)
    BY <1>5, PlacesAre
  <2> QED BY <2>2, <2>3
<1>15. back \in Bijection(Places(u), Places(t))
  <2> HIDE DEF back
  <2> QED BY <1>12, <1>13, <1>14 DEF Bijection, Injection, Surjection, IsInjective
<1>16. IsFiniteSet(Places(u)) /\ Cardinality(Places(u)) = Cardinality(Places(t))
  <2> HIDE DEF back
  <2>1. back \in Injection(Places(u), Places(t)) /\ back \in Surjection(Places(u), Places(t))
    BY <1>15 DEF Bijection
  <2> QED BY <2>1, <1>c, FS_Injection
<1>17. Shape(u)
  BY <1>1, <1>9, <1>16, <1>c DEF Shape, Counted
<1>18. ASSUME NEW e \in Contents(u) PROVE e \in Contents(t)
  <2>1. PICK q \in Places(u) : e = NodeAt(u, q)
    BY DEF Contents
  <2>2. e = NodeAt(t, src(q[1], q[2]))
    BY <2>1, <1>5, <1>11 DEF NodeAt
  <2>3. src(q[1], q[2]) \in Places(t)
    BY <1>10, <1>11
  <2> QED BY <2>2, <2>3 DEF Contents
<1>19. ASSUME NEW e \in Contents(t) PROVE e \in Contents(u)
  <2>1. PICK p \in Places(t) : e = NodeAt(t, p)
    BY DEF Contents
  <2>2. PICK b \in Buckets(u) : p \in From(b)
    BY <1>4
  <2>3. PICK k \in 1 .. card(b) : src(b, k) = p
    BY <2>2, <1>5
  <2>4. k \in DOMAIN u.nodes[b] /\ e = u.nodes[b][k]
    BY <2>1, <2>3, <1>5
  <2> QED BY <2>4, ContentsAre
<1> QED BY <1>1, <1>17, <1>18, <1>19 DEF u, size

-----------------------------------------------------------------------------
(* Every function keeps the table well formed and does to its contents what  *)
(* the dictionary says.                                                      *)

Marked(S, off, e) == IF e.nam \in S THEN [e EXCEPT !.disabled = off] ELSE e

LEMMA NewIs ==
  ASSUME NEW size \in Nat \ {0}
  PROVE  WellFormed(newhashtable(size)) /\ Contents(newhashtable(size)) = {}
<1> DEFINE t == newhashtable(size)
<1>1. /\ t = [nodes |-> t.nodes, hsize |-> t.hsize, ct |-> t.ct]
      /\ t.nodes = [b \in 0 .. size - 1 |-> << >>] /\ t.hsize = size /\ t.ct = 0
  BY DEF newhashtable
<1> HIDE DEF t
<1>2. \A b \in Buckets(t) : t.nodes[b] = << >>
  BY <1>1 DEF Buckets
<1>3. Places(t) = {}
  BY <1>2, PlacesAre
<1>4. Contents(t) = {}
  BY <1>3 DEF Contents
<1>5. TypeOf(t)
  <2>1. << >> \in Seq(Node)
    OBVIOUS
  <2> QED BY <2>1, <1>1 DEF TypeOf
<1>6. Placed(t) /\ OneForEach(t)
  BY <1>3 DEF Placed, OneForEach
<1>7. Counted(t)
  <2>1. IsFiniteSet({}) /\ Cardinality({}) = 0
    BY FS_EmptySet
  <2> QED BY <2>1, <1>1, <1>3 DEF Counted
<1>8. Room(t)
  BY <1>1 DEF Room
<1> QED BY <1>4, <1>5, <1>6, <1>7, <1>8 DEF WellFormed, t

LEMMA AddIs ==
  ASSUME NEW t, WellFormed(t), NEW node \in Node
  PROVE  LET u == addhashnode(t, node)
         IN  WellFormed(u) /\ Contents(u) = {e \in Contents(t) : e.nam # node.nam} \cup {node}
<1> DEFINE n == node.nam
           b == BucketOf(t, n)
           more == WithChain(t, b, <<node>> \o t.nodes[b], t.ct + 1)
           same == WithChain(t, b, [t.nodes[b] EXCEPT ![Found(t.nodes[b], n)] = node], t.ct)
<1>s. Shape(t) /\ Room(t) /\ t.ct \in Nat /\ t.hsize \in Nat \ {0}
  BY DEF WellFormed, Shape, TypeOf
<1>1. CASE Has(ChainOf(t, n), n)
  <2>1. Shape(same) /\ same.hsize = t.hsize /\ same.ct = t.ct
        /\ Contents(same) = {e \in Contents(t) : e.nam # n} \cup {node}
    BY <1>1, <1>s, ReplaceIs
  <2>2. addhashnode(t, node) = same
    BY <1>1 DEF addhashnode, ChainOf
  <2> HIDE DEF same
  <2>3. WellFormed(same)
    BY <2>1, <1>s DEF WellFormed, Shape, Room
  <2> QED BY <2>1, <2>2, <2>3
<1>2. CASE ~Has(ChainOf(t, n), n)
  <2>1. /\ Shape(more) /\ more.hsize = t.hsize /\ more.ct = t.ct + 1
        /\ \A e \in Contents(t) : e.nam # n
        /\ Contents(more) = Contents(t) \cup {node}
    BY <1>2, <1>s, PushIs
  <2>2. addhashnode(t, node) = IF more.ct = more.hsize * 2 THEN expandhashtable(more) ELSE more
    BY <1>2 DEF addhashnode, ChainOf
  <2>3. Contents(more) = {e \in Contents(t) : e.nam # n} \cup {node}
    BY <2>1
  <2> HIDE DEF more
  <2>4. CASE more.ct = more.hsize * 2
    <3> DEFINE u == expandhashtable(more)
    <3>1. Shape(u) /\ u.hsize = 4 * more.hsize /\ u.ct = more.ct /\ Contents(u) = Contents(more)
      BY <2>1, ExpandIs
    <3>2. addhashnode(t, node) = u
      BY <2>2, <2>4
    <3> HIDE DEF u
    <3>3. WellFormed(u)
      BY <3>1, <2>1, <2>4, <1>s DEF WellFormed, Shape, Room
    <3> QED BY <3>1, <3>2, <3>3, <2>3
  <2>5. CASE more.ct # more.hsize * 2
    <3>1. WellFormed(more)
      BY <2>1, <2>5, <1>s DEF WellFormed, Shape, Room
    <3> QED BY <3>1, <2>2, <2>3, <2>5
  <2> QED BY <2>4, <2>5
<1> QED BY <1>1, <1>2

LEMMA TakenIs ==
  ASSUME NEW t, WellFormed(t), NEW n \in Names
  PROVE  LET u == removehashnode(t, n)
         IN  WellFormed(u) /\ Contents(u) = {e \in Contents(t) : e.nam # n}
<1> DEFINE b == BucketOf(t, n)
           less == WithChain(t, b, Without(t.nodes[b], Found(t.nodes[b], n)), t.ct - 1)
<1>s. Shape(t) /\ Room(t) /\ t.ct \in Nat /\ t.hsize \in Nat \ {0}
  BY DEF WellFormed, Shape, TypeOf
<1>1. CASE Has(ChainOf(t, n), n)
  <2>1. Shape(less) /\ less.hsize = t.hsize /\ less.ct < t.ct
        /\ Contents(less) = {e \in Contents(t) : e.nam # n}
    BY <1>1, <1>s, RemoveIs
  <2>2. removehashnode(t, n) = less
    BY <1>1 DEF removehashnode, ChainOf
  <2> HIDE DEF less
  <2>3. less.ct \in Nat
    BY <2>1 DEF Shape, TypeOf
  <2>4. WellFormed(less)
    BY <2>1, <2>3, <1>s DEF WellFormed, Shape, Room
  <2> QED BY <2>1, <2>2, <2>4
<1>2. CASE ~Has(ChainOf(t, n), n)
  <2>1. removehashnode(t, n) = t
    BY <1>2 DEF removehashnode, ChainOf
  <2>2. gethashnode2(t, n) = {}
    BY <1>2 DEF gethashnode2
  <2>3. {e \in Contents(t) : e.nam = n} = {}
    BY <2>2, LookupIs
  <2> QED BY <2>1, <2>3
<1> QED BY <1>1, <1>2

LEMMA MarkIs ==
  ASSUME NEW t, WellFormed(t), NEW S, NEW off \in BOOLEAN
  PROVE  LET u == disablematching(t, S, off)
         IN  WellFormed(u) /\ Contents(u) = {Marked(S, off, e) : e \in Contents(t)}
<1> DEFINE u == disablematching(t, S, off)
<1>t. Typed(t) /\ InBucket(t) /\ Distinct(t)
  BY TypedIsType, Chainwise DEF WellFormed
<1>p. \A e \in Node : Marked(S, off, e) \in Node /\ Marked(S, off, e).nam = e.nam
  BY DEF Marked, Node
<1>1. /\ u = [nodes |-> u.nodes, hsize |-> u.hsize, ct |-> u.ct]
      /\ u.hsize = t.hsize /\ u.ct = t.ct
      /\ u.nodes = [b \in Buckets(t) |-> [i \in DOMAIN t.nodes[b] |-> Marked(S, off, t.nodes[b][i])]]
  <2>1. t = [nodes |-> t.nodes, hsize |-> t.hsize, ct |-> t.ct]
    BY <1>t DEF Typed
  <2> DEFINE ns == [b \in Buckets(t) |-> [i \in DOMAIN t.nodes[b] |-> Marked(S, off, t.nodes[b][i])]]
  <2>2. u = [t EXCEPT !.nodes = ns]
    BY DEF disablematching, Marked, Buckets
  <2> HIDE DEF u, ns
  <2>3. u = [nodes |-> ns, hsize |-> t.hsize, ct |-> t.ct]
    BY <2>1, <2>2
  <2> QED BY <2>3 DEF ns
<1> HIDE DEF u
<1>2. Buckets(u) = Buckets(t)
  BY <1>1 DEF Buckets
<1>3. ASSUME NEW b \in Buckets(t)
      PROVE  /\ u.nodes[b] \in Seq(Node)
             /\ DOMAIN u.nodes[b] = DOMAIN t.nodes[b]
             /\ \A i \in DOMAIN t.nodes[b] : /\ u.nodes[b][i] = Marked(S, off, t.nodes[b][i])
                                             /\ u.nodes[b][i].nam = t.nodes[b][i].nam
                                             /\ u.nodes[b][i] \in Node
                                             /\ BucketOf(u, u.nodes[b][i].nam) = b
  <2>1. u.nodes[b] = [i \in DOMAIN t.nodes[b] |-> Marked(S, off, t.nodes[b][i])]
    BY <1>1
  <2>2. \A i \in DOMAIN t.nodes[b] : t.nodes[b][i] \in Node /\ BucketOf(u, t.nodes[b][i].nam) = b
    BY <1>t, <1>1 DEF InBucket, BucketOf
  <2>3. PICK n \in Nat : n = Len(t.nodes[b]) /\ DOMAIN t.nodes[b] = 1 .. n
    BY <1>t DEF Typed
  <2>4. u.nodes[b] \in [1 .. n -> Node]
    BY <2>1, <2>2, <2>3, <1>p
  <2>5. u.nodes[b] \in Seq(Node)
    BY <2>4
  <2> QED BY <2>1, <2>2, <2>5, <1>p
<1>4. Typed(u) /\ InBucket(u)
  <2>1. DOMAIN u.nodes = Buckets(u) /\ u.nodes = [b \in Buckets(u) |-> u.nodes[b]]
    BY <1>1, <1>2
  <2>2. Typed(u)
    BY <2>1, <1>t, <1>1, <1>2, <1>3 DEF Typed
  <2>3. InBucket(u)
    BY <1>2, <1>3 DEF InBucket
  <2> QED BY <2>2, <2>3
<1>5. Distinct(u)
  BY <1>2, <1>3, <1>t DEF Distinct
<1>6. Placed(u) /\ OneForEach(u) /\ TypeOf(u)
  BY <1>4, <1>5, TypedIsType, Chainwise
<1>7. Places(u) = Places(t)
  <2>1. ASSUME NEW p \in Places(u) PROVE p \in Places(t)
    BY <1>2, <1>3, PlacesAre
  <2>2. ASSUME NEW p \in Places(t) PROVE p \in Places(u)
    BY <1>2, <1>3, PlacesAre
  <2> QED BY <2>1, <2>2
<1>8. WellFormed(u)
  BY <1>1, <1>6, <1>7 DEF WellFormed, Counted, Room
<1>9. Contents(u) = {Marked(S, off, e) : e \in Contents(t)}
  <2>1. ASSUME NEW p \in Places(t) PROVE NodeAt(u, p) = Marked(S, off, NodeAt(t, p))
    <3>1. p[1] \in Buckets(t) /\ p[2] \in DOMAIN t.nodes[p[1]]
      BY PlacesAre
    <3> QED BY <3>1, <1>3 DEF NodeAt
  <2> QED BY <2>1, <1>7 DEF Contents
<1> QED BY <1>8, <1>9 DEF u

-----------------------------------------------------------------------------
(* The specification. *)

\* What a table holds are nodes.
LEMMA ContentsTyped ==
  ASSUME NEW t, WellFormed(t)
  PROVE  Contents(t) \subseteq Node
<1>1. TypeOf(t) /\ Typed(t) /\ InBucket(t)
  BY TypedIsType, Chainwise DEF WellFormed
<1>2. ASSUME NEW e \in Contents(t) PROVE e \in Node
  <2>1. PICK b \in Buckets(t) : \E i \in DOMAIN t.nodes[b] : e = t.nodes[b][i]
    BY ContentsAre
  <2> QED BY <2>1, <1>1 DEF InBucket
<1> QED BY <1>2

LEMMA StepKeepsTable ==
  ASSUME TableWellFormed, [Next]_vars
  PROVE  TableWellFormed'
<1>w. WellFormed(ht) /\ got \subseteq Node
  BY DEF TableWellFormed
<1>k. \A n \in Names : gethashnode2(ht, n) \subseteq Node
  BY <1>w, LookupIs, ContentsTyped
<1>g. WellFormed(ht') /\ got' \subseteq Node => TableWellFormed'
  BY DEF TableWellFormed, WellFormed, TypeOf, Placed, OneForEach, Counted, Room, Places, NodeAt, BucketOf
<1>1. ASSUME NEW node \in Node, Add(node) PROVE TableWellFormed'
  BY <1>1, <1>w, <1>g, AddIs DEF Add
<1>2. ASSUME NEW n \in Names, Get(n) PROVE TableWellFormed'
  BY <1>2, <1>w, <1>g, <1>k DEF Get, gethashnode
<1>3. ASSUME NEW n \in Names, Get2(n) PROVE TableWellFormed'
  BY <1>3, <1>w, <1>g, <1>k DEF Get2
<1>4. ASSUME NEW n \in Names, Delete(n) PROVE TableWellFormed'
  BY <1>4, <1>w, <1>g, <1>k, TakenIs DEF Delete
<1>5. ASSUME NEW S \in SUBSET Names, NEW off \in BOOLEAN, Mark(S, off) PROVE TableWellFormed'
  <2>1. WellFormed(ht')
    BY <1>5, <1>w, MarkIs DEF Mark
  <2>2. got' \subseteq Node
    BY <1>5, <2>1, ContentsTyped DEF Mark
  <2> QED BY <2>1, <2>2, <1>g
<1>6. ASSUME NEW off \in BOOLEAN, List(off) PROVE TableWellFormed'
  BY <1>6, <1>w, <1>g, ContentsTyped DEF List, scanhashtable
<1>7. CASE Empty
  <2>1. WellFormed(newhashtable(InitialSize))
    BY SizeAssumption, NewIs
  <2> QED BY <1>7, <2>1, <1>g DEF Empty, emptyhashtable
<1>8. CASE UNCHANGED vars
  BY <1>8, <1>w, <1>g DEF vars
<1> QED BY <1>1, <1>2, <1>3, <1>4, <1>5, <1>6, <1>7, <1>8 DEF Next

\* Whatever the hashes and the first size: every node stays in the bucket of
\* its name, no name has two, the count is right, and the expansion is due
\* when the count reaches its limit and never later.
THEOREM TableStaysWellFormed == Spec => []TableWellFormed
<1>1. Init => TableWellFormed
  <2>1. WellFormed(newhashtable(InitialSize))
    BY SizeAssumption, NewIs
  <2> QED BY <2>1 DEF Init, TableWellFormed
<1>2. TableWellFormed /\ [Next]_vars => TableWellFormed'
  BY StepKeepsTable
<1> QED BY <1>1, <1>2, PTL DEF Spec

LEMMA StepAnswers ==
  ASSUME TableWellFormed, [Next]_vars
  PROVE  [Dict!Next]_<<Contents(ht), asked, got>>
<1> DEFINE C == Contents(ht)
<1>w. WellFormed(ht)
  BY DEF TableWellFormed
<1>e. Dict!Entry = Node
  BY DEF Dict!Entry, Node
<1>p. Contents(ht)' = Contents(ht')
  BY DEF Contents, Places, NodeAt
<1>l. \A n \in Names : gethashnode2(ht, n) = Dict!Of(n)
  BY <1>w, LookupIs DEF Dict!Of
<1>1. ASSUME NEW node \in Node, Add(node) PROVE Dict!Add(node)
  <2>1. ht' = addhashnode(ht, node) /\ asked' = <<"Add", node>> /\ got' = {}
    BY <1>1 DEF Add
  <2>2. Contents(ht') = {e \in C : e.nam # node.nam} \cup {node}
    BY <2>1, <1>w, AddIs
  <2>3. {e \in C : e.nam # node.nam} = C \ Dict!Of(node.nam)
    BY DEF Dict!Of
  <2> QED BY <2>1, <2>2, <2>3, <1>p DEF Dict!Add
<1>2. ASSUME NEW n \in Names, Get(n) PROVE Dict!Get(n)
  BY <1>2, <1>p, <1>l DEF Get, Dict!Get, gethashnode
<1>3. ASSUME NEW n \in Names, Get2(n) PROVE Dict!Get2(n)
  BY <1>3, <1>p, <1>l DEF Get2, Dict!Get2
<1>4. ASSUME NEW n \in Names, Delete(n) PROVE Dict!Delete(n)
  <2>1. ht' = removehashnode(ht, n) /\ asked' = <<"Delete", n>> /\ got' = gethashnode2(ht, n)
    BY <1>4 DEF Delete
  <2>2. Contents(ht') = {e \in C : e.nam # n}
    BY <2>1, <1>w, TakenIs
  <2>3. {e \in C : e.nam # n} = C \ Dict!Of(n)
    BY DEF Dict!Of
  <2> QED BY <2>1, <2>2, <2>3, <1>p, <1>l DEF Dict!Delete
<1>5. ASSUME NEW S \in SUBSET Names, NEW off \in BOOLEAN, Mark(S, off) PROVE Dict!Mark(S, off)
  <2>1. /\ ht' = disablematching(ht, S, off) /\ asked' = <<"Mark", S, off>>
       /\ got' = {e \in Contents(ht') : e.nam \in S}
    BY <1>5 DEF Mark
  <2>2. Contents(ht') = {Marked(S, off, e) : e \in C}
    BY <2>1, <1>w, MarkIs
  <2> QED BY <2>1, <2>2, <1>p DEF Dict!Mark, Marked
<1>6. ASSUME NEW off \in BOOLEAN, List(off) PROVE Dict!List(off)
  BY <1>6, <1>p DEF List, Dict!List, scanhashtable
<1>7. ASSUME Empty PROVE Dict!Empty
  <2>1. Contents(newhashtable(InitialSize)) = {}
    BY SizeAssumption, NewIs
  <2> QED BY <2>1, <1>7, <1>p DEF Empty, Dict!Empty, emptyhashtable
<1>8. CASE UNCHANGED vars
  BY <1>8, <1>p DEF vars
<1> QED BY <1>e, <1>1, <1>2, <1>3, <1>4, <1>5, <1>6, <1>7, <1>8 DEF Next, Dict!Next

\* The table implements the dictionary: chains, hashes and expansions never
\* show in what a lookup, a removal or a scan answers.
THEOREM TableImplementsDictionary == Spec => Answers
<1>1. Init => Dict!Init
  <2>1. Contents(newhashtable(InitialSize)) = {}
    BY SizeAssumption, NewIs
  <2> QED BY <2>1 DEF Init, Dict!Init
<1>2. TableWellFormed /\ [Next]_vars => [Dict!Next]_<<Contents(ht), asked, got>>
  BY StepAnswers
<1> QED BY <1>1, <1>2, TableStaysWellFormed, PTL DEF Spec, Answers, Dict!Spec
=============================================================================
