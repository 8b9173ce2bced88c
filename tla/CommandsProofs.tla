--------------------------- MODULE CommandsProofs ---------------------------
(***************************************************************************)
(* The first command on path is run, whatever was hashed: proofs about     *)
(* Commands for any path, names, files and sequence of lookups, fillings,  *)
(* removals and assignments to path.                                       *)
(*                                                                         *)
(* What the table of commands must know is not only that its entries lead  *)
(* to the first of the directories, but for those that are tried before it *)
(* or may be passed over, which is what the lookup needs, but also what it *)
(* means that a name has no entry: then no directory that was hashed hides *)
(* one behind it.  That lets hashcmd() begin at pathchecked.               *)
(***************************************************************************)
EXTENDS Commands, NaturalsInduction, WellFoundedInduction, TLAPS

Kinds == {"absolute", "dotted", "closed", "drive", "dot", "relative"}

\* The places an entry may lead to, and those that filling enters.
Rooted == {i \in DOMAIN path : Kind(path[i]) # "relative"}
Hashable == {i \in DOMAIN path : Kind(path[i]) \in {"absolute", "drive", "dot"}}

\* path is a list of directories, and the stem of a file is a command of its own
\* directory only: hashdir() enters stems without looking them up.
Tidy ==
  /\ path \in Seq(DOMAIN shell.kind)
  /\ \A i \in DOMAIN path : Kind(path[i]) \in Kinds
  /\ \A i \in Hashable, j \in Rooted : \A f \in files[path[i]] :
       Stem[f] # "" /\ iscom(path[j], Stem[f]) => i = j

\* An entry for place i may be found although j, before it, has the command: because
\* j is tried before it, or because hashcmd() or filling did not see j.
Passes(i, j) ==
  \/ Kind(path[j]) \in {"relative", "dot", "dotted", "closed"}
  \/ Kind(path[j]) = "drive" /\ Slashed(path[i])

Leads(i, n) ==
  /\ i \in Rooted /\ iscom(path[i], n)
  /\ \A j \in DOMAIN path : j < i /\ iscom(path[j], n) => Passes(i, j)

EntriesLead(tab) ==
  \A n \in DOMAIN tab \ {""} : "cmd" \notin DOMAIN tab[n] => Leads(tab[n].at, n)

\* A name without an entry that is in a directory hashed before place k is in no later one.
NothingHidden(tab, k) ==
  \A i \in Hashable : i < k =>
    \A f \in files[path[i]] : \A n \in NamesOf(f) \ DOMAIN tab :
      \A j \in Rooted : i < j => ~iscom(path[j], n)

Known(T) == EntriesLead(T.tab) /\ NothingHidden(T.tab, T.checked)

Placed == pathchecked \in 1 .. Len(path) + 1

Inv == stale = {} => Placed /\ Known(Table)

-----------------------------------------------------------------------------
(* Places, and what the helpers make.                                       *)

\* Induction on the natural numbers, for a property given as a set.
LEMMA SetInduction ==
  ASSUME NEW S, 0 \in S, \A n \in Nat : n \in S => n + 1 \in S
  PROVE  Nat \subseteq S
  <1> DEFINE T == Nat \ S
             R == OpToRel(<, Nat)
  <1>1. SUFFICES ASSUME T # {} PROVE FALSE
    OBVIOUS
  <1>2. IsWellFoundedOn(R, Nat)
    BY NatLessThanWellFounded
  <1>3. \A x, y \in Nat : <<y, x>> \in R <=> y < x
    BY DEF OpToRel
  <1> HIDE DEF R
  <1>4. PICK x \in T : \A y \in T : ~(<<y, x>> \in R)
    BY <1>1, <1>2, WFMin
  <1>5. x \in Nat /\ x # 0
    OBVIOUS
  <1>6. x - 1 \in Nat /\ x - 1 < x
    BY <1>5
  <1>7. <<x - 1, x>> \in R
    BY <1>3, <1>5, <1>6
  <1>8. x - 1 \in S
    BY <1>4, <1>6, <1>7
  <1>9. x - 1 + 1 \in S
    BY <1>6, <1>8
  <1> QED BY <1>5, <1>9

\* The smallest of a set of places.
LEMMA Smallest ==
  ASSUME NEW S \in SUBSET Nat, S # {}
  PROVE  Min(S) \in S /\ \A i \in S : Min(S) <= i
  <1> DEFINE R == OpToRel(<, Nat)
  <1>1. IsWellFoundedOn(R, Nat)
    BY NatLessThanWellFounded
  <1>2. \A x, y \in Nat : <<y, x>> \in R <=> y < x
    BY DEF OpToRel
  <1> HIDE DEF R
  <1>3. PICK x \in S : \A y \in S : ~(<<y, x>> \in R)
    BY <1>1, WFMin
  <1>4. \A y \in S : x <= y
    <2> SUFFICES ASSUME NEW y \in S PROVE x <= y
      OBVIOUS
    <2>1. x \in Nat /\ y \in Nat
      OBVIOUS
    <2>2. ~(y < x)
      BY <1>2, <1>3, <2>1
    <2> QED BY <2>1, <2>2
  <1> QED BY <1>4 DEF Min

LEMMA AtOf ==
  ASSUME NEW e, NEW k, e = [at |-> k]
  PROVE  e.at = k
  OBVIOUS

LEMMA NotBefore ==
  ASSUME NEW k, NEW j \in Nat, j < k
  PROVE  k # j
  OBVIOUS

LEMMA PlacesAre ==
  ASSUME Tidy
  PROVE  /\ Len(path) \in Nat /\ DOMAIN path = 1 .. Len(path)
         /\ Hashable \subseteq Rooted /\ Rooted \subseteq DOMAIN path
         /\ \A n : Having(n) \in SUBSET Nat
         /\ \A i \in DOMAIN path :
              /\ i \in Hashable <=> ~(isrelative(path[i]) \/ Kind(path[i]) = "closed")
              /\ i \in Hashable \/ Kind(path[i]) \in {"relative", "dotted", "closed"}
              /\ Slashed(path[i]) => i \in Rooted
              /\ Kind(path[i]) = "absolute" => Slashed(path[i]) /\ i \in Hashable
  <1>1. path \in Seq(DOMAIN shell.kind)
    BY DEF Tidy
  <1>2. Len(path) \in Nat /\ DOMAIN path = 1 .. Len(path)
    BY <1>1
  <1>3. \A n : Having(n) \in SUBSET Nat
    BY <1>2 DEF Having
  <1>4. Hashable \subseteq Rooted /\ Rooted \subseteq DOMAIN path
    BY DEF Hashable, Rooted
  <1>5. ASSUME NEW i \in DOMAIN path
        PROVE  /\ i \in Hashable <=> ~(isrelative(path[i]) \/ Kind(path[i]) = "closed")
               /\ i \in Hashable \/ Kind(path[i]) \in {"relative", "dotted", "closed"}
               /\ Slashed(path[i]) => i \in Rooted
               /\ Kind(path[i]) = "absolute" => Slashed(path[i]) /\ i \in Hashable
    <2>1. Kind(path[i]) \in Kinds
      BY DEF Tidy
    <2>2. i \in Hashable <=> Kind(path[i]) \in {"absolute", "drive", "dot"}
      BY DEF Hashable
    <2>3. i \in Rooted <=> Kind(path[i]) # "relative"
      BY DEF Rooted
    <2> QED BY <2>1, <2>2, <2>3 DEF Kinds, isrelative, Slashed
  <1> QED BY <1>2, <1>3, <1>4, <1>5

-----------------------------------------------------------------------------
(* One directory more.                                                      *)

\* What a directory enters, and what it leaves.
LEMMA HashdirIs ==
  ASSUME NEW tab, NEW k
  PROVE  LET new   == {f \in files[path[k]] : f \notin DOMAIN tab}
             names == UNION {{f, Stem[f]} : f \in new}
             more  == hashdir(tab, k)
         IN  IF isrelative(path[k]) \/ Kind(path[k]) = "closed" THEN more = tab
             ELSE /\ DOMAIN more = DOMAIN tab \union names
                  /\ \A n \in DOMAIN more : more[n] = IF n \in names THEN [at |-> k] ELSE tab[n]
  BY DEF hashdir

\* Entries of b that are not those of a lead to places.
Extends(a, b) ==
  /\ DOMAIN a \subseteq DOMAIN b
  /\ \A n \in DOMAIN b : (n \in DOMAIN a /\ b[n] = a[n]) \/ \E k \in Nat : b[n] = [at |-> k]

LEMMA HashdirExtends ==
  ASSUME NEW tab, NEW k \in Nat
  PROVE  Extends(tab, hashdir(tab, k))
  <1> DEFINE new   == {f \in files[path[k]] : f \notin DOMAIN tab}
             names == UNION {{f, Stem[f]} : f \in new}
             more  == hashdir(tab, k)
  <1>1. CASE isrelative(path[k]) \/ Kind(path[k]) = "closed"
    BY <1>1, HashdirIs DEF Extends
  <1>2. CASE ~(isrelative(path[k]) \/ Kind(path[k]) = "closed")
    <2>1. /\ DOMAIN more = DOMAIN tab \union names
          /\ \A n \in DOMAIN more : more[n] = IF n \in names THEN [at |-> k] ELSE tab[n]
      BY <1>2, HashdirIs
    <2> HIDE DEF names, more
    <2>2. \A n \in DOMAIN more : (n \in DOMAIN tab /\ more[n] = tab[n]) \/ more[n] = [at |-> k]
      BY <2>1
    <2> QED BY <2>1, <2>2 DEF Extends, more
  <1> QED BY <1>1, <1>2

LEMMA HashdirKnows ==
  ASSUME Tidy, NEW k \in DOMAIN path, NEW tab, EntriesLead(tab), NothingHidden(tab, k)
  PROVE  EntriesLead(hashdir(tab, k)) /\ NothingHidden(hashdir(tab, k), k + 1)
  <1> DEFINE new   == {f \in files[path[k]] : f \notin DOMAIN tab}
             names == UNION {{f, Stem[f]} : f \in new}
             more  == hashdir(tab, k)
  <1>1. k \in Nat /\ Hashable \subseteq Nat /\ Rooted \subseteq Nat /\ Hashable \subseteq Rooted
    BY PlacesAre
  <1>2. EntriesLead(tab) /\ NothingHidden(tab, k)
    OBVIOUS
  <1>3. CASE k \notin Hashable
    <2>1. more = tab
      BY <1>3, HashdirIs, PlacesAre
    <2>2. NothingHidden(tab, k + 1)
      <3>1. \A i \in Hashable : i < k + 1 => i < k
        BY <1>1, <1>3
      <3> QED BY <1>2, <3>1 DEF NothingHidden
    <2> QED BY <1>2, <2>1, <2>2
  <1>4. CASE k \in Hashable
    <2>1. /\ DOMAIN more = DOMAIN tab \union names
          /\ \A n \in DOMAIN more : more[n] = IF n \in names THEN [at |-> k] ELSE tab[n]
      BY <1>4, HashdirIs, PlacesAre
    <2>2. \A f \in new : /\ f \in files[path[k]] /\ f \notin DOMAIN tab /\ f \in names /\ Stem[f] \in names
      OBVIOUS
    <2>3. \A n \in names : \E f \in new : n = f \/ n = Stem[f]
      OBVIOUS
    <2> HIDE DEF new, names, more
    <2>4. ASSUME NEW n \in DOMAIN more \ {""}, "cmd" \notin DOMAIN more[n]
          PROVE  Leads(more[n].at, n)
      <3>1. CASE n \notin names
        BY <1>2, <2>1, <2>4, <3>1 DEF EntriesLead
      <3>2. CASE n \in names
        <4>9. more[n] = [at |-> k]
          BY <2>1, <3>2
        <4>1. more[n].at = k
          BY <4>9, AtOf
        <4>2. PICK f \in new : n = f \/ n = Stem[f]
          BY <2>3, <3>2
        <4>3. f \in files[path[k]] /\ f \notin DOMAIN tab
          BY <2>2
        <4>4. n \in NamesOf(f)
          BY <4>2, <2>4 DEF NamesOf
        <4>5. iscom(path[k], n)
          BY <4>3, <4>4 DEF iscom
        <4>6. ASSUME NEW j \in Hashable, j < k, iscom(path[j], n) PROVE FALSE
          <5>1. CASE n = f
            <6>1. PICK g \in files[path[j]] : n \in NamesOf(g)
              BY <4>6 DEF iscom
            <6>2. n \notin DOMAIN tab
              BY <4>3, <5>1
            <6> QED BY <1>1, <1>2, <1>4, <4>5, <4>6, <6>1, <6>2 DEF NothingHidden
          <5>2. CASE n = Stem[f]
            <6>1. k = j
              BY <1>1, <1>4, <2>4, <4>3, <4>6, <5>2 DEF Tidy
            <6>2. k # j
              BY <1>1, <4>6, NotBefore
            <6> QED BY <6>1, <6>2
          <5> QED BY <4>2, <5>1, <5>2
        <4>7. \A j \in DOMAIN path : j < k /\ iscom(path[j], n) => Passes(k, j)
          BY <4>6, PlacesAre DEF Passes
        <4> QED BY <1>1, <1>4, <4>1, <4>5, <4>7 DEF Leads
      <3> QED BY <3>1, <3>2
    <2>5. ASSUME NEW i \in Hashable, i < k + 1, NEW f \in files[path[i]], NEW n \in NamesOf(f) \ DOMAIN more,
                 NEW j \in Rooted, i < j, iscom(path[j], n)
          PROVE  FALSE
      <3>1. n \notin DOMAIN tab
        BY <2>1, <2>5
      <3>2. CASE i < k
        BY <1>2, <2>5, <3>1, <3>2 DEF NothingHidden
      <3>3. CASE i = k
        <4>1. f \in DOMAIN more
          <5>1. f \in DOMAIN tab \/ f \in new
            BY <3>3 DEF new
          <5> QED BY <2>1, <2>2, <5>1
        <4>2. n = Stem[f] /\ Stem[f] # ""
          BY <2>5, <4>1 DEF NamesOf
        <4>3. i = j
          BY <2>5, <4>2 DEF Tidy
        <4> QED BY <1>1, <2>5, <4>3
      <3> QED BY <1>1, <2>5, <3>2, <3>3
    <2>6. EntriesLead(more)
      BY <2>4 DEF EntriesLead
    <2>7. NothingHidden(more, k + 1)
      BY <2>5 DEF NothingHidden
    <2> QED BY <2>6, <2>7 DEF more
  <1> QED BY <1>3, <1>4

-----------------------------------------------------------------------------
(* Several directories more: the function that HashDirs defines exists.      *)

\* g hashes the directories as far as D goes.
Hashes(g, tab, from, D) == g = [i \in D |-> IF i < from THEN tab ELSE hashdir(g[i - 1], i)]

LEMMA HashesIs ==
  ASSUME NEW g, NEW tab, NEW from, NEW D, Hashes(g, tab, from, D), NEW i \in D
  PROVE  g[i] = IF i < from THEN tab ELSE hashdir(g[i - 1], i)
  BY DEF Hashes

LEMMA HashesBegin ==
  ASSUME NEW tab, NEW from \in Nat \ {0}
  PROVE  \E g : Hashes(g, tab, from, 0 .. 0)
  <1> DEFINE g == [i \in 0 .. 0 |-> tab]
  <1>1. \A i \in 0 .. 0 : i < from
    OBVIOUS
  <1>2. Hashes(g, tab, from, 0 .. 0)
    BY <1>1 DEF Hashes
  <1> QED BY <1>2

LEMMA HashesOneMore ==
  ASSUME NEW tab, NEW from \in Nat \ {0}, NEW n \in Nat, NEW g, Hashes(g, tab, from, 0 .. n)
  PROVE  \E h : Hashes(h, tab, from, 0 .. n + 1)
  <1> DEFINE h == [i \in 0 .. n + 1 |-> IF i <= n THEN g[i]
                                       ELSE IF i < from THEN tab ELSE hashdir(g[n], i)]
  <1>1. \A i \in 0 .. n : g[i] = IF i < from THEN tab ELSE hashdir(g[i - 1], i)
    BY HashesIs
  <1>2. \A i \in 0 .. n + 1 : h[i] = IF i <= n THEN g[i] ELSE IF i < from THEN tab ELSE hashdir(g[n], i)
    OBVIOUS
  <1>3. h = [i \in 0 .. n + 1 |-> h[i]]
    OBVIOUS
  <1> HIDE DEF h
  <1>4. ASSUME NEW i \in 0 .. n + 1
        PROVE  h[i] = IF i < from THEN tab ELSE hashdir(h[i - 1], i)
    <2>1. CASE i < from
      BY <1>1, <1>2, <2>1
    <2>2. CASE ~(i < from) /\ i <= n
      <3>1. i \in 0 .. n /\ i - 1 \in 0 .. n + 1 /\ i - 1 <= n
        BY <2>2
      <3>2. h[i] = g[i] /\ h[i - 1] = g[i - 1]
        BY <1>2, <2>2, <3>1
      <3>3. g[i] = hashdir(g[i - 1], i)
        BY <1>1, <2>2, <3>1
      <3> QED BY <2>2, <3>2, <3>3
    <2>3. CASE ~(i < from) /\ ~(i <= n)
      <3>1. i - 1 = n /\ n \in 0 .. n + 1 /\ n <= n
        BY <2>3
      <3>2. h[i] = hashdir(g[n], i) /\ h[n] = g[n]
        BY <1>2, <2>3, <3>1
      <3> QED BY <2>3, <3>1, <3>2
    <2> QED BY <2>1, <2>2, <2>3
  <1>5. h = [i \in 0 .. n + 1 |-> IF i < from THEN tab ELSE hashdir(h[i - 1], i)]
    BY <1>3, <1>4
  <1> QED BY <1>5 DEF Hashes

LEMMA HashesAgree ==
  ASSUME NEW tab, NEW from \in Nat \ {0}, NEW n \in Nat, NEW m \in Nat, n <= m,
         NEW g, Hashes(g, tab, from, 0 .. n), NEW h, Hashes(h, tab, from, 0 .. m)
  PROVE  \A i \in 0 .. n : g[i] = h[i]
  <1> DEFINE A == {i \in Nat : i <= n => g[i] = h[i]}
  <1>1. \A i \in 0 .. n : g[i] = IF i < from THEN tab ELSE hashdir(g[i - 1], i)
    BY HashesIs
  <1>2. \A i \in 0 .. m : h[i] = IF i < from THEN tab ELSE hashdir(h[i - 1], i)
    <2> SUFFICES ASSUME NEW i \in 0 .. m PROVE h[i] = IF i < from THEN tab ELSE hashdir(h[i - 1], i)
      OBVIOUS
    <2> DEFINE D == 0 .. m
    <2>1. Hashes(h, tab, from, D) /\ i \in D
      OBVIOUS
    <2> HIDE DEF D
    <2> QED BY <2>1, HashesIs
  <1>3. 0 \in A
    <2>1. 0 \in 0 .. n /\ 0 \in 0 .. m /\ 0 < from
      OBVIOUS
    <2> QED BY <1>1, <1>2, <2>1
  <1>4. ASSUME NEW i \in Nat, i \in A PROVE i + 1 \in A
    <2>1. SUFFICES ASSUME i + 1 <= n PROVE g[i + 1] = h[i + 1]
      OBVIOUS
    <2>2. i + 1 \in 0 .. n /\ i + 1 \in 0 .. m /\ i + 1 - 1 = i /\ i <= n
      BY <2>1
    <2>3. g[i] = h[i]
      BY <1>4, <2>2
    <2>4. CASE i + 1 < from
      BY <1>1, <1>2, <2>2, <2>4
    <2>5. CASE ~(i + 1 < from)
      <3>1. g[i + 1] = hashdir(g[i], i + 1)
        BY <1>1, <2>2, <2>5
      <3>2. h[i + 1] = hashdir(h[i], i + 1)
        BY <1>2, <2>2, <2>5
      <3> QED BY <2>3, <3>1, <3>2
    <2> QED BY <2>4, <2>5
  <1> HIDE DEF A
  <1>5. Nat \subseteq A
    BY <1>3, <1>4, SetInduction
  <1> QED BY <1>5 DEF A

LEMMA HashesExist ==
  ASSUME NEW tab, NEW from \in Nat \ {0}
  PROVE  \E g : Hashes(g, tab, from, Nat)
  <1> DEFINE A == {n \in Nat : \E g : Hashes(g, tab, from, 0 .. n)}
             G(n) == CHOOSE g : Hashes(g, tab, from, 0 .. n)
             g == [i \in Nat |-> G(i)[i]]
  <1>1. 0 \in A
    BY HashesBegin
  <1>2. ASSUME NEW n \in Nat, n \in A PROVE n + 1 \in A
    <2>1. PICK f : Hashes(f, tab, from, 0 .. n)
      BY <1>2
    <2> QED BY <2>1, HashesOneMore
  <1>3. Nat \subseteq A
    <2> HIDE DEF A
    <2> QED BY <1>1, <1>2, SetInduction
  <1>4. \A n \in Nat : Hashes(G(n), tab, from, 0 .. n)
    BY <1>3
  <1>5. \A i \in Nat : g[i] = G(i)[i]
    OBVIOUS
  <1>6. g = [i \in Nat |-> g[i]]
    OBVIOUS
  <1> HIDE DEF G, g
  <1>7. ASSUME NEW i \in Nat
        PROVE  g[i] = IF i < from THEN tab ELSE hashdir(g[i - 1], i)
    <2>0. i \in 0 .. i
      OBVIOUS
    <2>1. G(i)[i] = IF i < from THEN tab ELSE hashdir(G(i)[i - 1], i)
      <3>1. Hashes(G(i), tab, from, 0 .. i)
        BY <1>4
      <3> QED BY <2>0, <3>1, HashesIs
    <2>2. CASE i < from
      BY <1>5, <2>1, <2>2
    <2>3. CASE ~(i < from)
      <3>1. i - 1 \in Nat /\ i - 1 <= i /\ i - 1 \in 0 .. i - 1
        BY <2>3
      <3>2. G(i - 1)[i - 1] = G(i)[i - 1]
        BY <1>4, <3>1, HashesAgree
      <3>3. g[i - 1] = G(i - 1)[i - 1] /\ g[i] = G(i)[i]
        BY <1>5, <3>1
      <3>4. G(i)[i] = hashdir(G(i)[i - 1], i)
        BY <2>1, <2>3
      <3> QED BY <2>3, <3>2, <3>3, <3>4
    <2> QED BY <2>2, <2>3
  <1>8. g = [i \in Nat |-> IF i < from THEN tab ELSE hashdir(g[i - 1], i)]
    BY <1>6, <1>7
  <1> QED BY <1>8 DEF Hashes

\* g[i] is the table behind the directory i.
Chain(g, tab, from) ==
  /\ \A i : HashDirs(tab, from, i) = g[i]
  /\ \A i \in Nat : g[i] = IF i < from THEN tab ELSE hashdir(g[i - 1], i)

LEMMA HashDirsIs ==
  ASSUME NEW tab, NEW from \in Nat \ {0}
  PROVE  \E g : Chain(g, tab, from)
  <1> DEFINE g == CHOOSE g : Hashes(g, tab, from, Nat)
  <1>1. Hashes(g, tab, from, Nat)
    BY HashesExist
  <1>2. \A i : HashDirs(tab, from, i) = g[i]
    BY DEF HashDirs, Hashes
  <1> HIDE DEF g
  <1>3. \A i \in Nat : g[i] = IF i < from THEN tab ELSE hashdir(g[i - 1], i)
    BY <1>1, HashesIs
  <1> QED BY <1>2, <1>3 DEF Chain

-----------------------------------------------------------------------------
(* What the directories that are hashed leave known.                         *)

LEMMA NothingExtends ==
  ASSUME NEW a
  PROVE  Extends(a, a)
  BY DEF Extends

LEMMA ExtendsFurther ==
  ASSUME NEW a, NEW b, NEW c, Extends(a, b), Extends(b, c)
  PROVE  Extends(a, c)
  BY DEF Extends

LEMMA HashDirsKnow ==
  ASSUME Tidy, NEW tab, NEW from \in 1 .. Len(path) + 1, NEW to \in 0 .. Len(path),
         EntriesLead(tab), NothingHidden(tab, from)
  PROVE  /\ EntriesLead(HashDirs(tab, from, to))
         /\ NothingHidden(HashDirs(tab, from, to), to + 1)
         /\ Extends(tab, HashDirs(tab, from, to))
  <1>1. Len(path) \in Nat /\ DOMAIN path = 1 .. Len(path) /\ Hashable \subseteq Nat
    BY PlacesAre
  <1>2. from \in Nat \ {0} /\ to \in Nat
    BY <1>1
  <1>9. PICK g : Chain(g, tab, from)
    BY <1>2, HashDirsIs
  <1>3. /\ \A j : HashDirs(tab, from, j) = g[j]
        /\ \A i \in Nat : g[i] = IF i < from THEN tab ELSE hashdir(g[i - 1], i)
    BY <1>9 DEF Chain
  <1>4. CASE to < from
    <2>1. g[to] = tab
      BY <1>2, <1>3, <1>4
    <2>2. \A i \in Hashable : i < to + 1 => i < from
      BY <1>1, <1>2, <1>4
    <2>3. NothingHidden(tab, to + 1)
      BY <2>2 DEF NothingHidden
    <2> QED BY <1>3, <2>1, <2>3, NothingExtends
  <1>5. CASE ~(to < from)
    <2> DEFINE Fine(i) == EntriesLead(g[i]) /\ NothingHidden(g[i], i + 1) /\ Extends(tab, g[i])
               A == {i \in Nat : from <= i + 1 /\ i <= Len(path) => i + 1 = from \/ Fine(i)}
    <2>1. 0 \in A
      <3>1. from <= 0 + 1 => 0 + 1 = from
        BY <1>2
      <3> QED BY <3>1
    <2>2. ASSUME NEW i \in Nat, i \in A PROVE i + 1 \in A
      <3>1. SUFFICES ASSUME from <= i + 1, i + 1 <= Len(path) PROVE Fine(i + 1)
        BY <1>1, <1>2
      <3>2. i + 1 \in DOMAIN path /\ i + 1 \in Nat /\ ~(i + 1 < from) /\ i + 1 - 1 = i /\ i <= Len(path)
        BY <1>1, <1>2, <3>1
      <3>3. g[i + 1] = hashdir(g[i], i + 1)
        BY <1>3, <3>2
      <3>4. EntriesLead(g[i]) /\ NothingHidden(g[i], i + 1) /\ Extends(tab, g[i])
        <4>1. CASE i + 1 = from
          <5>1. g[i] = tab
            BY <1>2, <1>3, <4>1
          <5> QED BY <4>1, <5>1, NothingExtends
        <4>2. CASE Fine(i)
          BY <4>2
        <4>3. i + 1 = from \/ Fine(i)
          <5> HIDE DEF Fine
          <5> QED BY <2>2, <3>1, <3>2
        <4> QED BY <4>1, <4>2, <4>3
      <3>5. EntriesLead(g[i + 1]) /\ NothingHidden(g[i + 1], i + 1 + 1)
        BY <3>2, <3>3, <3>4, HashdirKnows
      <3>6. Extends(g[i], g[i + 1])
        BY <3>2, <3>3, HashdirExtends
      <3>7. Extends(tab, g[i + 1])
        BY <3>4, <3>6, ExtendsFurther
      <3> QED BY <3>5, <3>7
    <2> HIDE DEF Fine
    <2>3. Nat \subseteq A
      <3> HIDE DEF A
      <3> QED BY <2>1, <2>2, SetInduction
    <2>4. from <= to + 1 /\ to <= Len(path) /\ to + 1 # from
      BY <1>1, <1>2, <1>5
    <2>5. Fine(to)
      BY <1>2, <2>3, <2>4
    <2> QED BY <1>3, <2>5 DEF Fine
  <1> QED BY <1>4, <1>5

LEMMA hashcmdKnows ==
  ASSUME Tidy, NEW T, DOMAIN T = {"tab", "checked"}, T.checked \in 1 .. Len(path) + 1,
         EntriesLead(T.tab), NothingHidden(T.tab, T.checked),
         NEW n, n \notin DOMAIN T.tab, NEW from, from = 1 \/ from = T.checked
  PROVE  LET U == hashcmd(T, n, from)
         IN  /\ EntriesLead(U.tab) /\ NothingHidden(U.tab, U.checked)
             /\ U.checked \in 1 .. Len(path) + 1
             /\ Extends(T.tab, U.tab)
  <1> DEFINE has == {i \in from .. Len(path) : Slashed(path[i]) /\ iscom(path[i], n)}
             i   == Min(has)
             tab == With(T.tab, n, [at |-> i])
             U   == hashcmd(T, n, from)
  <1>1. Len(path) \in Nat /\ DOMAIN path = 1 .. Len(path)
    BY PlacesAre
  <1>2. from \in 1 .. Len(path) + 1
    BY <1>1
  <1>3. CASE has = {}
    <2>1. U = T
      BY <1>3 DEF hashcmd
    <2> QED BY <2>1, NothingExtends
  <1>4. CASE has # {}
    <2>1. has \in SUBSET Nat
      BY <1>1, <1>2
    <2>2. i \in has /\ \A k \in has : i <= k
      BY <1>4, <2>1, Smallest
    <2>3. i \in DOMAIN path /\ Slashed(path[i]) /\ iscom(path[i], n)
      BY <1>1, <1>2, <2>2
    <2> HIDE DEF i, has
    <2>4. /\ DOMAIN tab = DOMAIN T.tab \union {n}
          /\ \A m \in DOMAIN tab : tab[m] = IF m = n THEN [at |-> i] ELSE T.tab[m]
      BY DEF With
    <2>5. i \in Rooted /\ i \in Nat
      BY <1>1, <2>3, PlacesAre
    <2>6. ASSUME NEW j \in DOMAIN path, j < i, iscom(path[j], n) PROVE Kind(path[j]) # "absolute"
      <3>1. SUFFICES ASSUME Kind(path[j]) = "absolute" PROVE FALSE
        OBVIOUS
      <3>4. j \in Nat /\ j \in Hashable /\ Slashed(path[j])
        BY <1>1, <3>1, PlacesAre
      <3>2. CASE from <= j
        <4>1. j \in has
          BY <1>1, <1>2, <2>6, <3>4, <3>2 DEF has
        <4>2. j \notin has
          BY <2>2, <2>5, <2>6, <3>4
        <4> QED BY <4>1, <4>2
      <3>3. CASE j < from
        <4>1. j < T.checked
          BY <1>1, <3>4, <3>3
        <4>2. PICK f \in files[path[j]] : n \in NamesOf(f)
          BY <2>6 DEF iscom
        <4> QED BY <2>3, <2>5, <2>6, <3>4, <4>1, <4>2 DEF NothingHidden
      <3> QED BY <1>2, <3>4, <3>2, <3>3
    <2>13. ASSUME NEW j \in DOMAIN path, j < i, iscom(path[j], n) PROVE Passes(i, j)
      <3>1. Kind(path[j]) \in Kinds /\ Kind(path[j]) # "absolute"
        BY <2>6, <2>13 DEF Tidy
      <3> QED BY <2>3, <3>1 DEF Kinds, Passes
    <2>7. Leads(i, n)
      BY <2>3, <2>5, <2>13 DEF Leads
    <2> HIDE DEF tab
    <2>8. EntriesLead(tab)
      <3> SUFFICES ASSUME NEW m \in DOMAIN tab \ {""}, "cmd" \notin DOMAIN tab[m]
                   PROVE  Leads(tab[m].at, m)
        BY DEF EntriesLead
      <3>1. CASE m = n
        BY <2>4, <2>7, <3>1, AtOf
      <3>2. CASE m # n
        BY <2>4, <3>2 DEF EntriesLead
      <3> QED BY <3>1, <3>2
    <2>9. NothingHidden(tab, T.checked)
      BY <2>4 DEF NothingHidden
    <2>10. Extends(T.tab, tab)
      BY <2>4, <2>5 DEF Extends
    <2>11. CASE ~isset("HASHDIRS")
      <3>1. U = [T EXCEPT !.tab = tab]
        BY <1>4, <2>11 DEF hashcmd, has, i, tab
      <3> HIDE DEF U
      <3>2. U.tab = tab /\ U.checked = T.checked
        BY <3>1
      <3> QED BY <2>8, <2>9, <2>10, <3>2 DEF U
    <2>12. CASE isset("HASHDIRS")
      <3>1. U = [tab |-> HashDirs(tab, T.checked, i), checked |-> i + 1]
        BY <1>4, <2>12 DEF hashcmd, has, i, tab
      <3> HIDE DEF U
      <3>2. U.tab = HashDirs(tab, T.checked, i) /\ U.checked = i + 1
        BY <3>1
      <3>3. i \in 0 .. Len(path) /\ i + 1 \in 1 .. Len(path) + 1
        BY <1>1, <2>3
      <3>4. /\ EntriesLead(HashDirs(tab, T.checked, i))
            /\ NothingHidden(HashDirs(tab, T.checked, i), i + 1)
            /\ Extends(tab, HashDirs(tab, T.checked, i))
        BY <2>8, <2>9, <3>3, HashDirsKnow
      <3>5. Extends(T.tab, U.tab)
        BY <2>10, <3>2, <3>4, ExtendsFurther
      <3> QED BY <3>2, <3>3, <3>4, <3>5 DEF U
    <2> QED BY <2>11, <2>12
  <1> QED BY <1>3, <1>4

-----------------------------------------------------------------------------
(* The invariant.                                                           *)

LEMMA TableIs ==
  /\ Table.tab = cmdnamtab /\ Table.checked = pathchecked
  /\ DOMAIN Table = {"tab", "checked"}
  BY DEF Table

\* The table of the next state is known, path and its directories being as before.
LEMMA KnownThen ==
  ASSUME UNCHANGED <<shell, files, path>>, EntriesLead(cmdnamtab'), NothingHidden(cmdnamtab', pathchecked')
  PROVE  Known(Table)'
  <1>1. EntriesLead(cmdnamtab)'
    BY DEF EntriesLead, Leads, Passes, Slashed, Rooted, Kind, iscom
  <1>2. NothingHidden(cmdnamtab, pathchecked)'
    BY DEF NothingHidden, Hashable, Rooted, Kind, iscom
  <1> QED BY <1>1, <1>2 DEF Known, Table

\* What may become of the table while nothing else changes.
Learnt(U) ==
  /\ EntriesLead(U.tab) /\ NothingHidden(U.tab, U.checked)
  /\ U.checked \in 1 .. Len(path) + 1
  /\ Extends(cmdnamtab, U.tab)

LEMMA InvIs ==
  ASSUME Inv, stale = {}
  PROVE  /\ pathchecked \in 1 .. Len(path) + 1
         /\ EntriesLead(cmdnamtab) /\ NothingHidden(cmdnamtab, pathchecked)
         /\ Learnt(Table)
  BY TableIs, NothingExtends DEF Inv, Placed, Known, Learnt

LEMMA SearchLearns ==
  ASSUME Tidy, Inv, stale = {}, NEW n, n \notin DOMAIN cmdnamtab, NEW from, from = 1 \/ from = pathchecked
  PROVE  Learnt(hashcmd(Table, n, from))
  BY InvIs, TableIs, hashcmdKnows DEF Learnt

LEMMA FillLearns ==
  ASSUME Tidy, Inv, stale = {}
  PROVE  Learnt(fillcmdnamtable(Table))
  <1> DEFINE U == fillcmdnamtable(Table)
  <1>1. Len(path) \in Nat
    BY PlacesAre
  <1>2. U = [tab |-> HashDirs(cmdnamtab, pathchecked, Len(path)), checked |-> Len(path) + 1]
    BY TableIs DEF fillcmdnamtable
  <1> HIDE DEF U
  <1>3. U.tab = HashDirs(cmdnamtab, pathchecked, Len(path)) /\ U.checked = Len(path) + 1
    BY <1>2
  <1>4. Len(path) \in 0 .. Len(path) /\ Len(path) + 1 \in 1 .. Len(path) + 1
    BY <1>1
  <1>5. /\ EntriesLead(HashDirs(cmdnamtab, pathchecked, Len(path)))
        /\ NothingHidden(HashDirs(cmdnamtab, pathchecked, Len(path)), Len(path) + 1)
        /\ Extends(cmdnamtab, HashDirs(cmdnamtab, pathchecked, Len(path)))
    BY <1>4, InvIs, HashDirsKnow
  <1> QED BY <1>3, <1>4, <1>5 DEF Learnt, U

LEMMA ExternalLearns ==
  ASSUME Tidy, Inv, stale = {}, NEW n
  PROVE  Learnt(External(n))
  <1>1. CASE n \notin DOMAIN cmdnamtab /\ isset("HASHCMDS")
    BY <1>1, SearchLearns DEF External
  <1>2. CASE ~(n \notin DOMAIN cmdnamtab /\ isset("HASHCMDS"))
    BY <1>2, InvIs DEF External
  <1> QED BY <1>1, <1>2

LEMMA findcmdLearns ==
  ASSUME Tidy, Inv, stale = {}, NEW n
  PROVE  Learnt(findcmd(Table, n).T)
  <1> DEFINE U == IF n \notin DOMAIN Table.tab /\ isset("HASHCMDS") THEN hashcmd(Table, n, 1) ELSE Table
  <1>1. findcmd(Table, n).T = U
    BY DEF findcmd
  <1>2. CASE n \notin DOMAIN cmdnamtab /\ isset("HASHCMDS")
    BY <1>1, <1>2, SearchLearns, TableIs
  <1>3. CASE ~(n \notin DOMAIN cmdnamtab /\ isset("HASHCMDS"))
    BY <1>1, <1>3, InvIs, TableIs
  <1> QED BY <1>2, <1>3

\* A step after which the table is what was learnt.
LEMMA LearntThen ==
  ASSUME UNCHANGED <<shell, files, path, stale>>, Inv, stale = {} => Learnt([tab |-> cmdnamtab', checked |-> pathchecked'])
  PROVE  Inv'
  <1> SUFFICES ASSUME stale = {} PROVE Placed' /\ Known(Table)'
    BY DEF Inv
  <1>1. /\ EntriesLead(cmdnamtab') /\ NothingHidden(cmdnamtab', pathchecked')
        /\ pathchecked' \in 1 .. Len(path) + 1
    BY DEF Learnt
  <1>2. Placed'
    BY <1>1 DEF Placed
  <1> QED BY <1>1, <1>2, KnownThen

LEMMA TabledThen ==
  ASSUME UNCHANGED <<shell, files, path, stale>>, Inv, NEW U, Tabled(U), stale = {} => Learnt(U)
  PROVE  Inv'
  <1>1. stale = {} => Learnt([tab |-> cmdnamtab', checked |-> pathchecked'])
    BY DEF Tabled, Learnt
  <1> QED BY <1>1, LearntThen

\* ... and one that leaves the table alone.
LEMMA SameThen ==
  ASSUME UNCHANGED <<shell, files, path, stale, cmdnamtab, pathchecked>>, Inv
  PROVE  Inv'
  <1>1. Tabled(Table)
    BY TableIs DEF Tabled
  <1>2. stale = {} => Learnt(Table)
    BY InvIs
  <1> QED BY <1>1, <1>2, TabledThen

\* The empty table knows what it is said to know.
LEMMA EmptyThen ==
  ASSUME Tidy', cmdnamtab' = << >>, pathchecked' = 1
  PROVE  Inv'
  <1>1. path' \in Seq(DOMAIN shell.kind')
    BY DEF Tidy
  <1>2. Len(path') \in Nat /\ DOMAIN path' = 1 .. Len(path')
    BY <1>1
  <1>3. Placed'
    BY <1>2 DEF Placed
  <1>4. EntriesLead(cmdnamtab)'
    BY DEF EntriesLead
  <1>5. \A i \in Hashable' : ~(i < 1)
    BY <1>2 DEF Hashable
  <1>6. NothingHidden(cmdnamtab, pathchecked)'
    BY <1>5 DEF NothingHidden
  <1> QED BY <1>3, <1>4, <1>6 DEF Inv, Known, Table

LEMMA Initially ==
  ASSUME CommandsInit, Tidy
  PROVE  Inv
  <1>1. path \in Seq(DOMAIN shell.kind)
    BY DEF Tidy
  <1>2. Len(path) \in Nat /\ DOMAIN path = 1 .. Len(path)
    BY <1>1
  <1>3. cmdnamtab = << >> /\ pathchecked = 1
    BY DEF CommandsInit
  <1>4. Placed
    BY <1>2, <1>3 DEF Placed
  <1>5. EntriesLead(cmdnamtab)
    BY <1>3 DEF EntriesLead
  <1>6. \A i \in Hashable : ~(i < 1)
    BY <1>2 DEF Hashable
  <1>7. NothingHidden(cmdnamtab, pathchecked)
    BY <1>3, <1>6 DEF NothingHidden
  <1> QED BY <1>4, <1>5, <1>7 DEF Inv, Known, Table

-----------------------------------------------------------------------------
(* The steps, one by one.                                                   *)

LEMMA CommandStep ==
  ASSUME Tidy, Inv, NEW n, NEW prefix, Command(n, prefix)
  PROVE  Inv'
  <1>1. UNCHANGED <<shell, files, path, stale>>
    BY DEF Command, Others
  <1>2. CASE IsFunction(n, prefix)
    BY <1>1, <1>2, SameThen DEF Command
  <1>3. CASE ~IsFunction(n, prefix) /\ (IsBuiltin(n, prefix) \/ prefix = "builtin")
    <2>1. Tabled(Table)
      BY <1>3 DEF Command
    <2> QED BY <1>1, <2>1, InvIs, TabledThen
  <1>4. CASE ~IsFunction(n, prefix) /\ ~(IsBuiltin(n, prefix) \/ prefix = "builtin")
    <2>1. Tabled(External(n))
      BY <1>4 DEF Command
    <2> QED BY <1>1, <2>1, ExternalLearns, TabledThen
  <1> QED BY <1>2, <1>3, <1>4

LEMMA WhenceStep ==
  ASSUME Tidy, Inv, NEW n, bin_whence(n)
  PROVE  Inv'
  <1>1. UNCHANGED <<shell, files, path, stale>>
    BY DEF bin_whence, Tables
  <1>2. CASE whence(n)[1] \in {"alias", "function", "builtin"}
    <2>1. Tabled(Table)
      BY <1>2 DEF bin_whence
    <2> QED BY <1>1, <2>1, InvIs, TabledThen
  <1>3. CASE whence(n)[1] \notin {"alias", "function", "builtin"}
    <2>1. Tabled(findcmd(Table, n).T)
      BY <1>3 DEF bin_whence
    <2> QED BY <1>1, <2>1, findcmdLearns, TabledThen
  <1> QED BY <1>2, <1>3

LEMMA FillStep ==
  ASSUME Tidy, Inv, whence_m \/ hash_f
  PROVE  Inv'
  <1>1. UNCHANGED <<shell, files, path, stale>> /\ Tabled(fillcmdnamtable(Table))
    BY DEF whence_m, hash_f, Tables
  <1> QED BY <1>1, FillLearns, TabledThen

LEMMA ForgetStep ==
  ASSUME Tidy', hash_r \/ \E p \in shell.paths : setpath(p)
  PROVE  Inv'
  <1>1. Tabled(emptycmdnamtable)
    BY DEF hash_r, setpath
  <1>2. cmdnamtab' = << >> /\ pathchecked' = 1
    BY <1>1 DEF Tabled, emptycmdnamtable
  <1> QED BY <1>2, EmptyThen

LEMMA hashStep ==
  ASSUME Tidy, Inv, NEW n, hash(n)
  PROVE  Inv'
  <1>1. UNCHANGED <<shell, files, path, stale>> /\ n \notin DOMAIN cmdnamtab /\ Tabled(hashcmd(Table, n, 1))
    BY DEF hash, Tables
  <1> QED BY <1>1, SearchLearns, TabledThen

LEMMA hash_asStep ==
  ASSUME Tidy, Inv, NEW n, NEW d, NEW m, hash_as(n, d, m)
  PROVE  Inv'
  <1> DEFINE U == [Table EXCEPT !.tab = With(@, n, [cmd |-> <<d, m>>])]
             tab == With(cmdnamtab, n, [cmd |-> <<d, m>>])
  <1>1. UNCHANGED <<shell, files, path, stale>> /\ Tabled(U)
    BY DEF hash_as, Tables
  <1>2. U.tab = tab /\ U.checked = pathchecked
    BY TableIs
  <1> HIDE DEF U
  <1>3. cmdnamtab' = tab /\ pathchecked' = pathchecked
    BY <1>1, <1>2 DEF Tabled
  <1>4. /\ DOMAIN tab = DOMAIN cmdnamtab \union {n}
        /\ \A k \in DOMAIN tab : k # n => tab[k] = cmdnamtab[k]
        /\ tab[n] = [cmd |-> <<d, m>>]
    BY DEF With
  <1>5. "cmd" \in DOMAIN tab[n]
    BY <1>4
  <1> HIDE DEF tab
  <1>6. CASE stale = {}
    <2>1. EntriesLead(tab)
      BY <1>4, <1>5, <1>6, InvIs DEF EntriesLead
    <2>2. NothingHidden(tab, pathchecked)
      BY <1>4, <1>6, InvIs DEF NothingHidden
    <2>3. Known(Table)'
      BY <1>1, <1>3, <2>1, <2>2, KnownThen
    <2>4. Placed'
      BY <1>1, <1>3, <1>6, InvIs DEF Placed
    <2> QED BY <2>3, <2>4 DEF Inv
  <1>7. CASE stale # {}
    BY <1>1, <1>7 DEF Inv
  <1> QED BY <1>6, <1>7

LEMMA unhashStep ==
  ASSUME Tidy, Inv, NEW S, unhash(S)
  PROVE  Inv'
  <1> SUFFICES ASSUME stale' = {} PROVE Placed' /\ Known(Table)'
    BY DEF Inv
  <1>1. /\ UNCHANGED <<shell, files, path>>
        /\ cmdnamtab' = But(cmdnamtab, S) /\ pathchecked' = pathchecked
        /\ stale' = stale \union {path[i] : i \in 1 .. pathchecked - 1}
    BY DEF unhash, Tables
  <1>2. stale = {} /\ ~ \E i \in 1 .. pathchecked - 1 : TRUE
    BY <1>1
  <1>3. Len(path) \in Nat /\ Hashable \subseteq Nat /\ pathchecked \in 1 .. Len(path) + 1
    BY <1>2, InvIs, PlacesAre
  <1>4. pathchecked = 1
    <2>1. pathchecked # 1 => 1 \in 1 .. pathchecked - 1
      BY <1>3
    <2> QED BY <1>2, <2>1
  <1>5. \A i \in Hashable : ~(i < 1)
    BY <1>3, PlacesAre
  <1>6. NothingHidden(But(cmdnamtab, S), 1)
    BY <1>5 DEF NothingHidden
  <1>7. EntriesLead(But(cmdnamtab, S))
    BY <1>2, InvIs DEF EntriesLead, But
  <1>8. Known(Table)'
    BY <1>1, <1>4, <1>6, <1>7, KnownThen
  <1>9. Placed'
    BY <1>1, <1>3 DEF Placed
  <1> QED BY <1>8, <1>9

LEMMA ChangeStep ==
  ASSUME NEW d, NEW f, Change(d, f)
  PROVE  Inv'
  <1>1. stale' = stale \union {d}
    BY DEF Change
  <1>2. stale' # {}
    BY <1>1
  <1> QED BY <1>2 DEF Inv

\* Functions, builtins and aliases come and go without the table.
LEMMA OtherTablesStep ==
  ASSUME Inv,
         \/ \E S \in SUBSET CommandWords : unfunction(S) \/ unalias(S) \/ \E off \in BOOLEAN : bin_enable(S, off)
         \/ \E n \in CommandWords : bin_alias(n) \/ execfuncdef(n) \/ autoload(n)
  PROVE  Inv'
  <1>1. UNCHANGED <<shell, files, path, stale, cmdnamtab, pathchecked>>
    <2>1. CASE \E S \in SUBSET CommandWords : unfunction(S) \/ unalias(S)
      BY <2>1 DEF unfunction, unalias, Others
    <2>2. CASE \E S \in SUBSET CommandWords, off \in BOOLEAN : bin_enable(S, off)
      BY <2>2 DEF bin_enable
    <2>3. CASE \E n \in CommandWords : bin_alias(n)
      BY <2>3 DEF bin_alias
    <2>4. CASE \E n \in CommandWords : execfuncdef(n) \/ autoload(n)
      BY <2>4 DEF execfuncdef, autoload, Others
    <2> QED BY <2>1, <2>2, <2>3, <2>4
  <1> QED BY <1>1, SameThen

\* Every step keeps the invariant.
LEMMA Steps ==
  ASSUME Inv, Tidy, Tidy', [CommandsNext]_CommandsVars
  PROVE  Inv'
  <1>1. CASE \E n \in CommandWords, prefix \in {"", "command", "builtin"} : Acts("run") /\ Command(n, prefix)
    BY <1>1, CommandStep
  <1>2. CASE \E n \in CommandWords : Acts("hash") /\ (bin_whence(n) \/ hash(n))
    BY <1>2, WhenceStep, hashStep
  <1>3. CASE Acts("hash") /\ (whence_m \/ hash_f \/ hash_r)
    BY <1>3, FillStep, ForgetStep
  <1>4. CASE \E n \in CommandWords, m \in CommandWords, d \in DOMAIN files : Acts("hash") /\ hash_as(n, d, m)
    BY <1>4, hash_asStep
  <1>5. CASE \E S \in SUBSET CommandWords : Acts("hash") /\ unhash(S)
    BY <1>5, unhashStep
  <1>6. CASE \/ \E S \in SUBSET CommandWords : Acts("tables") /\ (unfunction(S) \/ unalias(S) \/ \E off \in BOOLEAN : bin_enable(S, off))
             \/ \E n \in CommandWords : Acts("tables") /\ (bin_alias(n) \/ execfuncdef(n) \/ autoload(n))
    BY <1>6, OtherTablesStep
  <1>7. CASE \E p \in shell.paths : Acts("path") /\ setpath(p)
    BY <1>7, ForgetStep
  <1>8. CASE \E c \in shell.changes : Acts("files") /\ Change(c[1], c[2])
    BY <1>8, ChangeStep
  <1>9. CASE UNCHANGED CommandsVars
    BY <1>9, SameThen DEF CommandsVars
  <1> QED BY <1>1, <1>2, <1>3, <1>4, <1>5, <1>6, <1>7, <1>8, <1>9 DEF CommandsNext

-----------------------------------------------------------------------------
(* What the lookup finds.                                                   *)

\* The first of the candidates is the first on path, if every place before that of
\* the entry that can be hashed lacks the command.
LEMMA LeastStays ==
  ASSUME NEW H \in SUBSET Nat, NEW a \in H, NEW S \in SUBSET H, a \in S,
         \A j \in H : j < a => j \in S
  PROVE  Min(S) = Min(H)
  <1>1. Min(S) \in S /\ \A i \in S : Min(S) <= i
    BY Smallest
  <1>2. Min(H) \in H /\ \A i \in H : Min(H) <= i
    BY Smallest
  <1>3. Min(S) \in Nat /\ Min(H) \in Nat /\ a \in Nat
    BY <1>1, <1>2
  <1>4. Min(H) <= Min(S)
    BY <1>1, <1>2
  <1>5. Min(H) \in S
    <2>1. Min(H) <= a
      BY <1>2
    <2>2. CASE Min(H) = a
      BY <2>2
    <2>3. CASE Min(H) < a
      BY <1>2, <2>3
    <2> QED BY <1>3, <2>1, <2>2, <2>3
  <1>6. Min(S) <= Min(H)
    BY <1>1, <1>5
  <1> QED BY <1>3, <1>4, <1>6

\* Something is found when it is there.
LEMMA FoundIfThere ==
  ASSUME NEW n, n # "", NEW S, S # {}
  PROVE  FirstOf(S, n) # NotFound
  BY DEF FirstOf, NotFound

\* The command that an entry finds is the first but for those it may pass over.
LEMMA EntryFindsFirst ==
  ASSUME Tidy, NEW tab, EntriesLead(tab), NEW n, n # "", n \in DOMAIN tab, "cmd" \notin DOMAIN tab[n]
  PROVE  /\ \E S \in SUBSET PassedOver(n) : /\ Having(n) \ S # {}
                                            /\ ByEntry(tab, n, ABSOLUTEP) = FirstOf(Having(n) \ S, n)
         /\ \E S \in SUBSET PassedOver(n) : /\ Having(n) \ S # {}
                                            /\ ByEntry(tab, n, Slashed) = FirstOf(Having(n) \ S, n)
  <1> DEFINE a == tab[n].at
             H == Having(n)
             A == {i \in H : i = a \/ (i < a /\ ~ABSOLUTEP(path[i]))}
             B == {i \in H : i = a \/ (i < a /\ ~Slashed(path[i]))}
             P == {i \in H : i < a /\ ABSOLUTEP(path[i])}
             Q == {i \in H : i < a /\ Slashed(path[i])}
  <1>1. Leads(a, n)
    BY DEF EntriesLead
  <1>2. Rooted \subseteq DOMAIN path /\ H \in SUBSET Nat
    BY PlacesAre
  <1>3. \A i : i \in H <=> i \in DOMAIN path /\ iscom(path[i], n)
    BY DEF Having
  <1>4. ByEntry(tab, n, ABSOLUTEP) = FirstOf(A, n) /\ ByEntry(tab, n, Slashed) = FirstOf(B, n)
    BY DEF ByEntry
  <1> HIDE DEF H, a
  <1>5. a \in H /\ a \in Nat /\ Kind(path[a]) # "relative"
    BY <1>1, <1>2, <1>3 DEF Leads, Rooted
  <1>6. ASSUME NEW i \in H, i < a, ABSOLUTEP(path[i]) PROVE i \in PassedOver(n)
    <2>1. Passes(a, i)
      BY <1>1, <1>3, <1>6 DEF Leads
    <2>2. \/ Kind(path[i]) = "drive" /\ Slashed(path[a])
          \/ Kind(path[i]) \in {"dotted", "closed"} /\ Kind(path[a]) # "relative"
      BY <1>5, <1>6, <2>1 DEF Passes, ABSOLUTEP
    <2> QED BY <1>5, <1>6, <2>2 DEF PassedOver, H
  <1>7. \A d : Slashed(d) => ABSOLUTEP(d)
    BY DEF Slashed, ABSOLUTEP
  <1>8. P \in SUBSET PassedOver(n) /\ Q \in SUBSET PassedOver(n)
    BY <1>6, <1>7
  <1>9. /\ ~(a < a)
        /\ \A i : i \in A <=> i \in H /\ (i = a \/ (i < a /\ ~ABSOLUTEP(path[i])))
        /\ \A i : i \in B <=> i \in H /\ (i = a \/ (i < a /\ ~Slashed(path[i])))
        /\ \A i : i \in P <=> i \in H /\ i < a /\ ABSOLUTEP(path[i])
        /\ \A i : i \in Q <=> i \in H /\ i < a /\ Slashed(path[i])
    <2>1. ~(a < a)
      BY <1>5, NotBefore
    <2> QED BY <2>1
  <1>10. /\ A \in SUBSET (H \ P) /\ a \in A /\ \A j \in H \ P : j < a => j \in A
         /\ B \in SUBSET (H \ Q) /\ a \in B /\ \A j \in H \ Q : j < a => j \in B
    <2> HIDE DEF A, B, P, Q
    <2> QED BY <1>5, <1>9
  <1> HIDE DEF A, B, P, Q
  <1>11. H \ P \in SUBSET Nat /\ a \in H \ P /\ H \ Q \in SUBSET Nat /\ a \in H \ Q
    BY <1>2, <1>5, <1>9
  <1>12. Min(A) = Min(H \ P)
    <2> DEFINE G == H \ P
    <2>1. G \in SUBSET Nat /\ a \in G /\ A \in SUBSET G /\ a \in A /\ \A j \in G : j < a => j \in A
      BY <1>10, <1>11
    <2> HIDE DEF G
    <2>2. Min(A) = Min(G)
      BY <2>1, LeastStays
    <2> QED BY <2>2 DEF G
  <1>13. Min(B) = Min(H \ Q)
    <2> DEFINE G == H \ Q
    <2>1. G \in SUBSET Nat /\ a \in G /\ B \in SUBSET G /\ a \in B /\ \A j \in G : j < a => j \in B
      BY <1>10, <1>11
    <2> HIDE DEF G
    <2>2. Min(B) = Min(G)
      BY <2>1, LeastStays
    <2> QED BY <2>2 DEF G
  <1>14. FirstOf(A, n) = FirstOf(H \ P, n)
    BY <1>10, <1>11, <1>12 DEF FirstOf
  <1>15. FirstOf(B, n) = FirstOf(H \ Q, n)
    BY <1>10, <1>11, <1>13 DEF FirstOf
  <1> QED BY <1>4, <1>8, <1>11, <1>14, <1>15 DEF H

\* What is learnt has an entry of the user's only where there was one.
LEMMA LearntFinds ==
  ASSUME Tidy, NEW U, Learnt(U), NEW n, n # "", ~Hashed(n)
  PROVE  /\ \E S \in SUBSET PassedOver(n) :
              Or(ByEntry(U.tab, n, ABSOLUTEP), FirstOf(Having(n), n)) = FirstOf(Having(n) \ S, n)
         /\ \E S \in SUBSET PassedOver(n) :
              Or(ByEntry(U.tab, n, Slashed), FirstOf(Having(n), n)) = FirstOf(Having(n) \ S, n)
  <1>1. CASE n \in DOMAIN U.tab
    <2>1. "cmd" \notin DOMAIN U.tab[n]
      <3>1. (n \in DOMAIN cmdnamtab /\ U.tab[n] = cmdnamtab[n]) \/ \E k \in Nat : U.tab[n] = [at |-> k]
        BY <1>1 DEF Learnt, Extends
      <3>2. CASE n \in DOMAIN cmdnamtab /\ U.tab[n] = cmdnamtab[n]
        BY <3>2 DEF Hashed
      <3>3. CASE \E k \in Nat : U.tab[n] = [at |-> k]
        BY <3>3
      <3> QED BY <3>1, <3>2, <3>3
    <2>2. /\ \E S \in SUBSET PassedOver(n) : /\ Having(n) \ S # {}
                                             /\ ByEntry(U.tab, n, ABSOLUTEP) = FirstOf(Having(n) \ S, n)
          /\ \E S \in SUBSET PassedOver(n) : /\ Having(n) \ S # {}
                                             /\ ByEntry(U.tab, n, Slashed) = FirstOf(Having(n) \ S, n)
      BY <1>1, <2>1, EntryFindsFirst DEF Learnt
    <2>3. \A S : Having(n) \ S # {} => FirstOf(Having(n) \ S, n) # NotFound
      BY FoundIfThere
    <2> QED BY <2>2, <2>3 DEF Or
  <1>2. CASE n \notin DOMAIN U.tab
    <2>1. ByEntry(U.tab, n, ABSOLUTEP) = NotFound /\ ByEntry(U.tab, n, Slashed) = NotFound
      BY <1>2 DEF ByEntry
    <2>2. Having(n) = Having(n) \ {} /\ {} \in SUBSET PassedOver(n)
      OBVIOUS
    <2> QED BY <2>1, <2>2 DEF Or
  <1> QED BY <1>1, <1>2

LEMMA FirstIsRun ==
  ASSUME Tidy, Inv
  PROVE  RunsTheFirst
  <1> SUFFICES ASSUME NEW n \in CommandWords \ {""}
               PROVE  LET runs == execute(External(n).tab, n) IN
                      /\ Having(n) # {} => runs # NotFound
                      /\ stale = {} /\ ~Hashed(n) =>
                           \E S \in SUBSET PassedOver(n) : runs = FirstOf(Having(n) \ S, n)
    BY DEF RunsTheFirst
  <1>1. execute(External(n).tab, n) = Or(ByEntry(External(n).tab, n, ABSOLUTEP), FirstOf(Having(n), n))
    BY DEF execute
  <1>2. ASSUME Having(n) # {} PROVE execute(External(n).tab, n) # NotFound
    <2>1. FirstOf(Having(n), n) # NotFound
      BY <1>2, FoundIfThere
    <2> QED BY <1>1, <2>1 DEF Or
  <1>3. ASSUME stale = {}, ~Hashed(n)
        PROVE  \E S \in SUBSET PassedOver(n) : execute(External(n).tab, n) = FirstOf(Having(n) \ S, n)
    <2>1. Learnt(External(n))
      BY <1>3, ExternalLearns
    <2> QED BY <1>1, <1>3, <2>1, LearntFinds
  <1> QED BY <1>2, <1>3

\* Both lookups find the first, so they find the same.
LEMMA WhenceTells ==
  ASSUME Tidy, Inv
  PROVE  WhenceTellsWhatRuns
  <1> SUFFICES ASSUME stale = {}, NEW n \in CommandWords \ {""}, ~Enabled(aliastab, n),
                      Hashed(n) => execute(cmdnamtab, n) = cmdnamtab[n].cmd,
                      PassedOver(n) = {}
               PROVE  whence(n) = resolved(n, "")
    BY DEF WhenceTellsWhatRuns
  <1>1. CASE Enabled(shfunctab, n)
    BY <1>1 DEF whence, resolved, IsFunction
  <1>2. CASE ~Enabled(shfunctab, n) /\ Enabled(builtintab, n)
    BY <1>2 DEF whence, resolved, IsFunction, IsBuiltin
  <1>3. CASE ~Enabled(shfunctab, n) /\ ~Enabled(builtintab, n)
    <2>1. resolved(n, "") = execute(External(n).tab, n)
      BY <1>3 DEF resolved, IsFunction, IsBuiltin
    <2>2. CASE Hashed(n)
      <3>1. whence(n) = cmdnamtab[n].cmd
        BY <1>3, <2>2 DEF whence, Hashed
      <3>2. External(n).tab = cmdnamtab
        BY <2>2, TableIs DEF External, Hashed
      <3> QED BY <2>1, <2>2, <3>1, <3>2
    <2>3. CASE ~Hashed(n)
      <3>1. whence(n) = findcmd(Table, n).found
        BY <1>3, <2>3 DEF whence, Hashed
      <3>2. findcmd(Table, n).found = Or(ByEntry(findcmd(Table, n).T.tab, n, Slashed), FirstOf(Having(n), n))
        BY DEF findcmd
      <3>3. execute(External(n).tab, n) = Or(ByEntry(External(n).tab, n, ABSOLUTEP), FirstOf(Having(n), n))
        BY DEF execute
      <3>4. Learnt(findcmd(Table, n).T) /\ Learnt(External(n))
        BY findcmdLearns, ExternalLearns
      <3>5. \A S \in SUBSET PassedOver(n) : Having(n) \ S = Having(n)
        OBVIOUS
      <3>6. /\ findcmd(Table, n).found = FirstOf(Having(n), n)
            /\ execute(External(n).tab, n) = FirstOf(Having(n), n)
        BY <2>3, <3>2, <3>3, <3>4, <3>5, LearntFinds
      <3> QED BY <2>1, <3>1, <3>6
    <2> QED BY <2>2, <2>3
  <1> QED BY <1>1, <1>2, <1>3

\* While path is tidy, the table knows what the lookup relies on: the inductive
\* invariant, for every path, set of names and sequence of steps.
THEOREM TableIsKnown == CommandsSpec /\ []Tidy => []Inv
  <1>1. CommandsInit /\ Tidy => Inv
    BY Initially
  <1>2. Inv /\ Tidy /\ Tidy' /\ [CommandsNext]_CommandsVars => Inv'
    BY Steps
  <1> QED BY <1>1, <1>2, PTL DEF CommandsSpec

\* The first command of the name on path is run but for those that may be passed
\* over, whatever was hashed, filled, looked up and taken out before; one that is on
\* path is found although files came and went; and whence names what would run.
THEOREM FirstOnPathRuns == CommandsSpec /\ []Tidy => []CommandsAreFound
  <1>1. Tidy /\ Inv => CommandsAreFound
    BY FirstIsRun, WhenceTells DEF CommandsAreFound
  <1> QED BY <1>1, TableIsKnown, PTL

=============================================================================
