------------------------------ MODULE HashTable ------------------------------
(* hashtable.c: chains of nodes, an array of them indexed by the hash of a  *)
(* name, and a count by which the array is expanded.                        *)
EXTENDS Integers, FiniteSets, Sequences

CONSTANTS Names,          \* keys
          Values,         \* what a node says of its name
          hasher,         \* the hash of each name
          InitialSize     \* of the array

ASSUME HasherAssumption == hasher \in [Names -> Nat]
ASSUME SizeAssumption   == InitialSize \in Nat \ {0}

VARIABLES ht,     \* the table: nodes, an array of chains; hsize; ct
          asked,  \* the last function that was called, and its arguments
          got     \* what it answered: {} is NULL

vars == <<ht, asked, got>>

Node == [nam : Names, val : Values, disabled : BOOLEAN]

-----------------------------------------------------------------------------
(* Places in a table. *)

Places(t) == UNION {{b} \X DOMAIN t.nodes[b] : b \in 0 .. t.hsize - 1}

NodeAt(t, p) == t.nodes[p[1]][p[2]]

Contents(t) == {NodeAt(t, p) : p \in Places(t)}

\* The order of a scan: bucket by bucket, each chain from its head.
Before(p, q) == p[1] < q[1] \/ (p[1] = q[1] /\ p[2] < q[2])

BucketOf(t, n) == hasher[n] % t.hsize

ChainOf(t, n) == t.nodes[BucketOf(t, n)]

Has(chain, n) == \E i \in DOMAIN chain : chain[i].nam = n

\* Where the walk along a chain stops.
Found(chain, n) ==
  CHOOSE i \in DOMAIN chain : chain[i].nam = n /\ \A j \in 1 .. i - 1 : chain[j].nam # n

-----------------------------------------------------------------------------
(* The functions of a table. *)

newhashtable(size) == [nodes |-> [b \in 0 .. size - 1 |-> << >>], hsize |-> size, ct |-> 0]

\* The places from which a bucket of the table with `size' buckets is filled.
GoesTo(t, size, b) == {p \in Places(t) : hasher[NodeAt(t, p).nam] % size = b}

\* Nodes are added again in the order of a scan, each at the head of its
\* chain: the place that is at k has k - 1 places of its bucket after it.
LaterOf(S, p) == {q \in S : q = p \/ Before(p, q)}

Readded(t, S) ==
  [k \in 1 .. Cardinality(S) |->
     NodeAt(t, CHOOSE p \in S : Cardinality(LaterOf(S, p)) = k)]

\* A slip: the array grows and nobody hashes the nodes again.
expandhashtable_Stays(t) ==
  [t EXCEPT !.nodes = [b \in 0 .. 4 * t.hsize - 1 |-> IF b < t.hsize THEN t.nodes[b] ELSE << >>],
            !.hsize = 4 * @]

expandhashtable(t) ==
  LET size == 4 * t.hsize
  IN  [nodes |-> [b \in 0 .. size - 1 |-> Readded(t, GoesTo(t, size, b))],
       hsize |-> size,
       ct    |-> Cardinality(Places(t))]

WithChain(t, b, chain, ct) ==
  [nodes |-> [t.nodes EXCEPT ![b] = chain], hsize |-> t.hsize, ct |-> ct]

\* In place of the node of that name, or else at the head of the chain.
addhashnode(t, node) ==
  LET b     == BucketOf(t, node.nam)
      chain == t.nodes[b]
      more  == WithChain(t, b, <<node>> \o chain, t.ct + 1)
  IN  IF Has(chain, node.nam)
      THEN WithChain(t, b, [chain EXCEPT ![Found(chain, node.nam)] = node], t.ct)
      ELSE IF more.ct = more.hsize * 2 THEN expandhashtable(more) ELSE more

gethashnode2(t, n) ==
  LET chain == ChainOf(t, n)
  IN  IF Has(chain, n) THEN {chain[Found(chain, n)]} ELSE {}

gethashnode(t, n) == {node \in gethashnode2(t, n) : ~node.disabled}

Without(chain, i) ==
  [j \in 1 .. Len(chain) - 1 |-> IF j < i THEN chain[j] ELSE chain[j + 1]]

removehashnode(t, n) ==
  LET b     == BucketOf(t, n)
      chain == t.nodes[b]
  IN  IF Has(chain, n)
      THEN WithChain(t, b, Without(chain, Found(chain, n)), t.ct - 1)
      ELSE t

\* scanmatchtable() with disablehashnode() or enablehashnode(), for a pattern
\* that matches the names in S.
disablematching(t, S, off) ==
  [t EXCEPT !.nodes =
     [b \in 0 .. t.hsize - 1 |->
        [i \in DOMAIN t.nodes[b] |->
           IF t.nodes[b][i].nam \in S THEN [t.nodes[b][i] EXCEPT !.disabled = off]
                                      ELSE t.nodes[b][i]]]]

\* The nodes that scanhashtable() gives to its function: with DISABLED in
\* flags1, or in flags2.
scanhashtable(t, off) == {node \in Contents(t) : node.disabled = off}

emptyhashtable(newsize) == newhashtable(newsize)

-----------------------------------------------------------------------------
Init == ht = newhashtable(InitialSize) /\ asked = <<"Empty">> /\ got = {}

Add(node) == ht' = addhashnode(ht, node) /\ asked' = <<"Add", node>> /\ got' = {}

Get(n)  == asked' = <<"Get", n>> /\ got' = gethashnode(ht, n) /\ UNCHANGED ht
Get2(n) == asked' = <<"Get2", n>> /\ got' = gethashnode2(ht, n) /\ UNCHANGED ht

Delete(n) ==
  asked' = <<"Delete", n>> /\ got' = gethashnode2(ht, n) /\ ht' = removehashnode(ht, n)

Mark(S, off) ==
  /\ asked' = <<"Mark", S, off>>
  /\ ht' = disablematching(ht, S, off)
  /\ got' = {node \in Contents(ht') : node.nam \in S}

List(off) == asked' = <<"List", off>> /\ got' = scanhashtable(ht, off) /\ UNCHANGED ht

Empty == ht' = emptyhashtable(InitialSize) /\ asked' = <<"Empty">> /\ got' = {}

Next == \/ \E node \in Node : Add(node)
        \/ \E n \in Names : Get(n) \/ Get2(n) \/ Delete(n)
        \/ \E S \in SUBSET Names, off \in BOOLEAN : Mark(S, off)
        \/ \E off \in BOOLEAN : List(off)
        \/ Empty

Spec == Init /\ [][Next]_vars

-----------------------------------------------------------------------------
TypeOf(t) ==
  /\ t = [nodes |-> t.nodes, hsize |-> t.hsize, ct |-> t.ct]
  /\ t.hsize \in Nat \ {0}
  /\ t.ct \in Nat
  /\ t.nodes \in [0 .. t.hsize - 1 -> Seq(Node)]

Placed(t) == \A p \in Places(t) : p[1] = BucketOf(t, NodeAt(t, p).nam)

OneForEach(t) ==
  \A p \in Places(t), q \in Places(t) : NodeAt(t, p).nam = NodeAt(t, q).nam => p = q

Counted(t) == IsFiniteSet(Places(t)) /\ t.ct = Cardinality(Places(t))

\* addhashnode() expands when the count equals the limit: it must never have
\* passed it.
Room(t) == t.ct < 2 * t.hsize

WellFormed(t) == TypeOf(t) /\ Placed(t) /\ OneForEach(t) /\ Counted(t) /\ Room(t)

\* Whatever was added, removed and expanded: every node is in the bucket of
\* its hash, no name has two, the count is the number of nodes (the sorted
\* scan allocates by it), and the next expansion is ahead.
TableWellFormed == WellFormed(ht) /\ got \subseteq Node

\* The table answers as a dictionary does (the comments at the functions).
Dict == INSTANCE Dictionary WITH dict <- Contents(ht)
Answers == Dict!Spec
=============================================================================
