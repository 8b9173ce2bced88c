------------------------- MODULE DirectoriesProofs --------------------------
(***************************************************************************)
(* Proofs about Directories for any directories, names, values and         *)
(* sequence of commands.                                                   *)
(*                                                                         *)
(* The cache of finddir() is never stale.  Every step clears it, or leaves *)
(* alone all that the answer depends on: the table, HOME and the options.  *)
(* That a step which says that it did not change the table left it alone   *)
(* needs that the table is a function: removing a name that it lacks then  *)
(* gives the same table.                                                   *)
(*                                                                         *)
(* The stack is the one that the manual describes.  What cd_get_dest()     *)
(* does to the list is followed from the argument to the change of         *)
(* directory, and from there what cd_new_pwd() does, for pushd, cd, popd   *)
(* that goes and popd that stays; each is what Meant() says, with the      *)
(* directory found put in front.                                           *)
(***************************************************************************)
EXTENDS Directories, NaturalsInduction, WellFoundedInduction, TLAPS

IsTable(tab) == tab = [n \in DOMAIN tab |-> tab[n]]

Inv == IsTable(nameddirtab) /\ CacheTellsTheTable

-----------------------------------------------------------------------------
(* Tables.                                                                  *)

LEMMA WithIsTable ==
  ASSUME NEW tab, NEW n, NEW t
  PROVE  IsTable(With(tab, n, t)) /\ n \in DOMAIN With(tab, n, t)
  BY DEF IsTable, With

LEMMA ButIsTable ==
  ASSUME NEW tab, NEW n
  PROVE  IsTable(But(tab, {n}))
  BY DEF IsTable, But

LEMMA ButNothing ==
  ASSUME NEW tab, IsTable(tab), NEW n, n \notin DOMAIN tab
  PROVE  But(tab, {n}) = tab
  BY DEF IsTable, But

LEMMA UserDirIsTable ==
  ASSUME NEW tab, IsTable(tab), NEW n, NEW t, NEW always
  PROVE  /\ IsTable(adduserdir(tab, n, t, always))
         /\ n \notin DOMAIN tab \union DOMAIN adduserdir(tab, n, t, always) =>
              adduserdir(tab, n, t, always) = tab
  <1> DEFINE new == adduserdir(tab, n, t, always)
  <1>1. CASE ~always /\ ~Option("AUTONAMEDIRS") /\ n \notin DOMAIN tab
    BY <1>1 DEF adduserdir
  <1>2. CASE ~(~always /\ ~Option("AUTONAMEDIRS") /\ n \notin DOMAIN tab) /\ Absolute(t)
    <2>1. new = With(tab, n, t)
      BY <1>2 DEF adduserdir
    <2> QED BY <2>1, WithIsTable
  <1>3. CASE ~(~always /\ ~Option("AUTONAMEDIRS") /\ n \notin DOMAIN tab) /\ ~Absolute(t)
    <2>1. new = But(tab, {n})
      BY <1>3 DEF adduserdir
    <2> QED BY <2>1, ButIsTable, ButNothing
  <1> QED BY <1>1, <1>2, <1>3

LEMMA NamedDirIsTable ==
  ASSUME IsTable(nameddirtab), NEW n
  PROVE  IsTable(getnameddir(n).tab)
  <1>1. CASE n \in DOMAIN nameddirtab
    BY <1>1 DEF getnameddir
  <1>2. CASE n \notin DOMAIN nameddirtab /\ n \in DOMAIN params /\ Absolute(params[n])
    <2>1. getnameddir(n).tab = adduserdir(nameddirtab, n, params[n], TRUE)
      BY <1>2 DEF getnameddir
    <2> QED BY <2>1, UserDirIsTable
  <1>3. CASE n \notin DOMAIN nameddirtab /\ ~(n \in DOMAIN params /\ Absolute(params[n]))
    BY <1>3 DEF getnameddir
  <1> QED BY <1>1, <1>2, <1>3

\* The change of directory may enter a name for CDABLEVARS.
LEMMA ChdirIsTable ==
  ASSUME IsTable(nameddirtab), NEW dest
  PROVE  IsTable(cd_do_chdir(dest).tab)
  BY NamedDirIsTable DEF cd_do_chdir, Given

LEMMA DestIsTable ==
  ASSUME IsTable(nameddirtab), NEW func, NEW arg
  PROVE  IsTable(cd_get_dest(func, arg).tab)
  BY ChdirIsTable DEF cd_get_dest, Given

-----------------------------------------------------------------------------
(* The cache.                                                               *)

\* What the answer depends on.
LEMMA AnswerStays ==
  ASSUME UNCHANGED <<world, home, nameddirtab, found>>, Inv
  PROVE  Inv'
  <1>1. ASSUME NEW s PROVE Shortest(nameddirtab, s)' = Shortest(nameddirtab, s)
    BY DEF Shortest, dircmp, Option
  <1> QED BY <1>1 DEF Inv, CacheTellsTheTable

LEMMA AnswerIsForgotten ==
  ASSUME IsTable(nameddirtab'), found' = Forgotten
  PROVE  Inv'
  BY DEF Inv, CacheTellsTheTable, Forgotten

LEMMA EnteredThen ==
  ASSUME Inv, UNCHANGED <<world, home>>, NEW tab, IsTable(tab), NEW changed \in BOOLEAN,
         ~changed => tab = nameddirtab, Entered(tab, changed)
  PROVE  Inv'
  <1>1. CASE changed
    BY <1>1, AnswerIsForgotten DEF Entered
  <1>2. CASE ~changed
    BY <1>2, AnswerStays DEF Entered
  <1> QED BY <1>1, <1>2

-----------------------------------------------------------------------------
(* The steps, one by one.                                                   *)

LEMMA Initially ==
  ASSUME DirectoriesInit
  PROVE  Inv
  <1>1. nameddirtab = << >> /\ found = Forgotten
    BY DEF DirectoriesInit
  <1>2. IsTable(nameddirtab)
    BY <1>1 DEF IsTable
  <1> QED BY <1>1, <1>2 DEF Inv, CacheTellsTheTable, Forgotten

LEMMA CdStep ==
  ASSUME Inv, NEW func, NEW arg, bin_cd(func, arg)
  PROVE  Inv'
  <1> DEFINE got == cd_get_dest(func, arg)
  <1>1. UNCHANGED <<world, home>> /\ Entered(got.tab, got.tab # nameddirtab)
    BY DEF bin_cd
  <1>2. IsTable(got.tab)
    BY DestIsTable DEF Inv
  <1> HIDE DEF got
  <1> QED BY <1>1, <1>2, EnteredThen

LEMMA AssignStep ==
  ASSUME Inv, NEW n, NEW t, strsetfn(n, t)
  PROVE  Inv'
  <1> DEFINE tab == adduserdir(nameddirtab, n, t, FALSE)
             changed == n \in DOMAIN nameddirtab \union DOMAIN tab
  <1>1. UNCHANGED <<world, home>> /\ Entered(tab, changed)
    BY DEF strsetfn, Elsewhere
  <1>2. IsTable(tab) /\ (n \notin DOMAIN nameddirtab \union DOMAIN tab => tab = nameddirtab)
    BY UserDirIsTable DEF Inv
  <1>3. changed \in BOOLEAN
    OBVIOUS
  <1>4. ~changed => tab = nameddirtab
    BY <1>2
  <1> HIDE DEF tab, changed
  <1> QED BY <1>1, <1>2, <1>3, <1>4, EnteredThen

LEMMA TildeStep ==
  ASSUME Inv, NEW n, Tilde(n)
  PROVE  Inv'
  <1> DEFINE tab == getnameddir(n).tab
  <1>1. UNCHANGED <<world, home>> /\ Entered(tab, tab # nameddirtab)
    BY DEF Tilde, Elsewhere
  <1>2. IsTable(tab)
    BY NamedDirIsTable DEF Inv
  <1> HIDE DEF tab
  <1> QED BY <1>1, <1>2, EnteredThen

\* hash -d name=value, unhash -d and hash -dr.
LEMMA TableStep ==
  ASSUME \/ \E n, t : hash_d(n, t)
         \/ \E n : unhash_d(n)
         \/ hash_dr
  PROVE  Inv'
  <1>1. PICK tab : IsTable(tab) /\ Entered(tab, TRUE)
    <2>1. CASE \E n, t : hash_d(n, t)
      BY <2>1, WithIsTable DEF hash_d
    <2>2. CASE \E n : unhash_d(n)
      BY <2>2, ButIsTable DEF unhash_d
    <2>3. CASE hash_dr
      <3>1. IsTable(<< >>)
        BY DEF IsTable
      <3> QED BY <2>3, <3>1 DEF hash_dr
    <2> QED BY <2>1, <2>2, <2>3
  <1>2. IsTable(nameddirtab') /\ found' = Forgotten
    BY <1>1 DEF Entered
  <1> QED BY <1>2, AnswerIsForgotten

LEMMA HomeStep ==
  ASSUME Inv, NEW t, homesetfn(t)
  PROVE  Inv'
  BY AnswerIsForgotten DEF homesetfn, Inv

\* The answer is looked up, or the one that is kept is given.
LEMMA FindStep ==
  ASSUME Inv, NEW s, finddir(s)
  PROVE  Inv'
  <1>1. UNCHANGED <<world, home, nameddirtab>>
    BY DEF finddir, Elsewhere
  <1>2. CASE s = found.full
    BY <1>1, <1>2, AnswerStays DEF finddir
  <1>3. CASE s # found.full
    <2>1. PICK n \in Shortest(nameddirtab, s) : found' = [full |-> s, last |-> n]
      BY <1>3 DEF finddir
    <2>2. Shortest(nameddirtab, s)' = Shortest(nameddirtab, s)
      BY <1>1 DEF Shortest, dircmp, Option
    <2>3. found'.last \in Shortest(nameddirtab, found.full)'
      BY <2>1, <2>2
    <2> QED BY <1>1, <2>3 DEF Inv, CacheTellsTheTable
  <1> QED BY <1>2, <1>3

\* Every step keeps the invariant.
LEMMA Steps ==
  ASSUME Inv, [DirectoriesNext]_DirectoriesVars
  PROVE  Inv'
  <1>1. CASE \E func \in {"cd", "pushd", "popd"}, arg \in world.args : bin_cd(func, arg)
    BY <1>1, CdStep
  <1>2. CASE \E list \in world.lists : bin_dirs(list)
    <2>1. UNCHANGED <<world, home, nameddirtab, found>>
      BY <1>2 DEF bin_dirs
    <2> QED BY <2>1, AnswerStays
  <1>3. CASE \E n \in world.names, t \in world.values : strsetfn(n, t) \/ hash_d(n, t)
    BY <1>3, AssignStep, TableStep
  <1>4. CASE \E n \in world.names : Tilde(n) \/ unhash_d(n)
    BY <1>4, TildeStep, TableStep
  <1>5. CASE hash_dr \/ finddir(pwd) \/ \E t \in world.values : homesetfn(t)
    BY <1>5, TableStep, FindStep, HomeStep
  <1>6. CASE \E d \in world.gone : Vanish(d)
    <2>1. UNCHANGED <<world, home, nameddirtab, found>>
      BY <1>6 DEF Vanish
    <2> QED BY <2>1, AnswerStays
  <1>7. CASE UNCHANGED DirectoriesVars
    BY <1>7, AnswerStays DEF DirectoriesVars
  <1> QED BY <1>1, <1>2, <1>3, <1>4, <1>5, <1>6, <1>7 DEF DirectoriesNext

\* The name that finddir() keeps for a directory is one that it would find now,
\* whatever was assigned, hashed, taken out or entered by a lookup since.
THEOREM CacheIsFresh == DirectoriesSpec => []CacheTellsTheTable
  <1>1. DirectoriesInit => Inv
    BY Initially
  <1>2. Inv /\ [DirectoriesNext]_DirectoriesVars => Inv'
    BY Steps
  <1>3. Inv => CacheTellsTheTable
    BY DEF Inv
  <1> QED BY <1>1, <1>2, <1>3, PTL DEF DirectoriesSpec

-----------------------------------------------------------------------------
(* Lists: an entry taken out, put in, moved to the front.                   *)

LEMMA Smallest ==
  ASSUME NEW S \in SUBSET Nat, S # {}
  PROVE  Min(S) \in S /\ \A i \in S : Min(S) <= i
  <1> DEFINE R == OpToRel(<, Nat)
  <1>1. IsWellFoundedOn(R, Nat)
    BY NatLessThanWellFounded
  <1>2. \A x, y \in Nat : <<y, x>> \in R <=> y < x
    BY DEF OpToRel
  <1> HIDE DEF R
  <1>3. PICK x \in S : \A y \in S : ~(<<y, x>> \in R)
    BY <1>1, WFMin
  <1>4. \A y \in S : x <= y
    <2> SUFFICES ASSUME NEW y \in S PROVE x <= y
      OBVIOUS
    <2>1. x \in Nat /\ y \in Nat
      OBVIOUS
    <2>2. ~(y < x)
      BY <1>2, <1>3, <2>1
    <2> QED BY <2>1, <2>2
  <1> QED BY <1>4 DEF Min

\* A sequence, whatever it holds.
IsSeq(s) == \E E : s \in Seq(E)

LEMMA JoinedIs ==
  ASSUME NEW E, NEW s \in Seq(E), NEW t \in Seq(E)
  PROVE  /\ s \o t \in Seq(E) /\ Len(s \o t) = Len(s) + Len(t)
         /\ \A j \in 1 .. Len(s) : (s \o t)[j] = s[j]
         /\ \A j \in 1 .. Len(t) : (s \o t)[Len(s) + j] = t[j]
  OBVIOUS

\* Taking out the i-th entry.
LEMMA RemovedIs ==
  ASSUME NEW E, NEW s \in Seq(E), NEW i \in 1 .. Len(s)
  PROVE  /\ remnode(s, i) \in Seq(E)
         /\ Len(remnode(s, i)) = Len(s) - 1
         /\ \A j \in 1 .. Len(s) - 1 : remnode(s, i)[j] = IF j < i THEN s[j] ELSE s[j + 1]
  <1> DEFINE a == SubSeq(s, 1, i - 1)
             b == SubSeq(s, i + 1, Len(s))
  <1>1. a \in Seq(E) /\ Len(a) = i - 1 /\ \A j \in 1 .. i - 1 : a[j] = s[j]
    OBVIOUS
  <1>2. b \in Seq(E) /\ Len(b) = Len(s) - i /\ \A j \in 1 .. Len(s) - i : b[j] = s[j + i]
    OBVIOUS
  <1>3. remnode(s, i) = a \o b
    BY DEF remnode
  <1> HIDE DEF a, b
  <1>4. a \o b \in Seq(E) /\ Len(a \o b) = Len(s) - 1
    <2>1. a \o b \in Seq(E) /\ Len(a \o b) = Len(a) + Len(b)
      BY <1>1, <1>2, JoinedIs
    <2>2. Len(a) + Len(b) = Len(s) - 1
      BY <1>1, <1>2
    <2> QED BY <2>1, <2>2
  <1>5. ASSUME NEW j \in 1 .. Len(s) - 1
        PROVE  (a \o b)[j] = IF j < i THEN s[j] ELSE s[j + 1]
    <2>1. CASE j < i
      BY <1>1, <1>2, <2>1
    <2>2. CASE ~(j < i)
      <3>1. (a \o b)[j] = b[j - (i - 1)]
        BY <1>1, <1>2, <2>2
      <3>2. j - (i - 1) \in 1 .. Len(s) - i /\ j - (i - 1) + i = j + 1
        BY <2>2
      <3> QED BY <1>2, <2>2, <3>1, <3>2
    <2> QED BY <2>1, <2>2
  <1> QED BY <1>3, <1>4, <1>5

\* Sequences with the same entries are the same.
LEMMA SameEntries ==
  ASSUME NEW E, NEW s \in Seq(E), NEW F, NEW t \in Seq(F), Len(s) = Len(t),
         \A j \in 1 .. Len(s) : s[j] = t[j]
  PROVE  s = t
  OBVIOUS

LEMMA FirstRemoved ==
  ASSUME NEW E, NEW s \in Seq(E), s # << >>
  PROVE  remnode(s, 1) = Tail(s)
  <1>1. /\ remnode(s, 1) \in Seq(E) /\ Len(remnode(s, 1)) = Len(s) - 1
        /\ \A j \in 1 .. Len(s) - 1 : remnode(s, 1)[j] = s[j + 1]
    BY RemovedIs
  <1>2. Tail(s) \in Seq(E) /\ Len(Tail(s)) = Len(s) - 1 /\ \A j \in 1 .. Len(s) - 1 : Tail(s)[j] = s[j + 1]
    OBVIOUS
  <1> QED BY <1>1, <1>2, SameEntries

\* t is s with another entry at place i.
Changed(t, s, i, to) == t = [s EXCEPT ![i] = to]

LEMMA ChangedIs ==
  ASSUME NEW E, NEW s \in Seq(E), NEW i \in 1 .. Len(s), NEW to \in E,
         NEW t, Changed(t, s, i, to)
  PROVE  t \in Seq(E) /\ Len(t) = Len(s) /\ \A j \in 1 .. Len(s) : t[j] = IF j = i THEN to ELSE s[j]
  BY DEF Changed

\* An entry that is put in before it is taken out leaves no trace.
LEMMA ChangedRemoved ==
  ASSUME NEW E, NEW s \in Seq(E), NEW i \in 1 .. Len(s), NEW to \in E,
         NEW t, Changed(t, s, i, to)
  PROVE  /\ t \in Seq(E) /\ Len(t) = Len(s)
         /\ t[i] = to /\ remnode(t, i) = remnode(s, i)
  <1>1. t \in Seq(E) /\ Len(t) = Len(s) /\ \A j \in 1 .. Len(s) : t[j] = IF j = i THEN to ELSE s[j]
    BY ChangedIs
  <1>2. /\ remnode(t, i) \in Seq(E) /\ Len(remnode(t, i)) = Len(s) - 1
        /\ \A j \in 1 .. Len(s) - 1 : remnode(t, i)[j] = IF j < i THEN t[j] ELSE t[j + 1]
    BY <1>1, RemovedIs
  <1>3. /\ remnode(s, i) \in Seq(E) /\ Len(remnode(s, i)) = Len(s) - 1
        /\ \A j \in 1 .. Len(s) - 1 : remnode(s, i)[j] = IF j < i THEN s[j] ELSE s[j + 1]
    BY RemovedIs
  <1>4. \A j \in 1 .. Len(s) - 1 : remnode(t, i)[j] = remnode(s, i)[j]
    BY <1>1, <1>2, <1>3
  <1>5. remnode(t, i) = remnode(s, i)
    BY <1>2, <1>3, <1>4, SameEntries
  <1> QED BY <1>1, <1>5

\* pushd +n: the list from its place on, then what was before it.
LEMMA RolledIs ==
  ASSUME NEW E, NEW s \in Seq(E), NEW i \in 1 .. Len(s), NEW to \in E,
         NEW t, Changed(t, s, i, to)
  PROVE  /\ rolllist(s, i) \in Seq(E) /\ rolllist(s, i) # << >>
         /\ rolllist(t, i)[1] = to
         /\ remnode(rolllist(t, i), 1) = Tail(rolllist(s, i))
  <1> DEFINE R(x) == SubSeq(x, i, Len(s)) \o SubSeq(x, 1, i - 1)
  <1>1. t \in Seq(E) /\ Len(t) = Len(s) /\ \A j \in 1 .. Len(s) : t[j] = IF j = i THEN to ELSE s[j]
    BY ChangedIs
  <1>2. ASSUME NEW x \in Seq(E), Len(x) = Len(s)
        PROVE  /\ R(x) \in Seq(E) /\ Len(R(x)) = Len(s)
               /\ \A j \in 1 .. Len(s) : R(x)[j] = IF j + i - 1 <= Len(s) THEN x[j + i - 1] ELSE x[j + i - 1 - Len(s)]
    <2> DEFINE a == SubSeq(x, i, Len(s))
               b == SubSeq(x, 1, i - 1)
    <2>1. a \in Seq(E) /\ Len(a) = Len(s) - i + 1 /\ \A j \in 1 .. Len(s) - i + 1 : a[j] = x[j + i - 1]
      BY <1>2
    <2>2. b \in Seq(E) /\ Len(b) = i - 1 /\ \A j \in 1 .. i - 1 : b[j] = x[j]
      BY <1>2
    <2> HIDE DEF a, b
    <2>3. a \o b \in Seq(E) /\ Len(a \o b) = Len(s)
      BY <2>1, <2>2
    <2>4. ASSUME NEW j \in 1 .. Len(s)
          PROVE  (a \o b)[j] = IF j + i - 1 <= Len(s) THEN x[j + i - 1] ELSE x[j + i - 1 - Len(s)]
      <3>1. CASE j + i - 1 <= Len(s)
        <4>1. j \in 1 .. Len(a) /\ j \in 1 .. Len(s) - i + 1
          BY <2>1, <3>1
        <4>2. (a \o b)[j] = a[j]
          BY <2>1, <2>2, <4>1, JoinedIs
        <4> QED BY <2>1, <3>1, <4>1, <4>2
      <3>2. CASE ~(j + i - 1 <= Len(s))
        <4>1. (a \o b)[j] = b[j - (Len(s) - i + 1)]
          BY <2>1, <2>2, <3>2
        <4>2. j - (Len(s) - i + 1) \in 1 .. i - 1 /\ j - (Len(s) - i + 1) = j + i - 1 - Len(s)
          BY <3>2
        <4> QED BY <2>2, <3>2, <4>1, <4>2
      <3> QED BY <3>1, <3>2
    <2> QED BY <2>3, <2>4 DEF a, b
  <1>3. rolllist(s, i) = R(s) /\ rolllist(t, i) = R(t)
    BY <1>1 DEF rolllist
  <1> HIDE DEF R
  <1>4. R(s) \in Seq(E) /\ Len(R(s)) = Len(s) /\ R(t) \in Seq(E) /\ Len(R(t)) = Len(s)
    BY <1>1, <1>2
  <1>5. R(s) # << >> /\ R(t) # << >>
    BY <1>4
  <1>6. R(t)[1] = to
    BY <1>1, <1>2
  <1>7. ASSUME NEW j \in 1 .. Len(s) - 1 PROVE R(t)[j + 1] = R(s)[j + 1]
    <2>1. j + 1 \in 1 .. Len(s)
      OBVIOUS
    <2>2. CASE j + 1 + i - 1 <= Len(s)
      <3>1. R(t)[j + 1] = t[j + 1 + i - 1] /\ R(s)[j + 1] = s[j + 1 + i - 1]
        BY <1>1, <1>2, <2>1, <2>2
      <3>2. j + 1 + i - 1 \in 1 .. Len(s) /\ j + 1 + i - 1 # i
        BY <2>2
      <3> QED BY <1>1, <3>1, <3>2
    <2>3. CASE ~(j + 1 + i - 1 <= Len(s))
      <3>1. R(t)[j + 1] = t[j + 1 + i - 1 - Len(s)] /\ R(s)[j + 1] = s[j + 1 + i - 1 - Len(s)]
        BY <1>1, <1>2, <2>1, <2>3
      <3>2. j + 1 + i - 1 - Len(s) \in 1 .. Len(s) /\ j + 1 + i - 1 - Len(s) # i
        BY <2>3
      <3> QED BY <1>1, <3>1, <3>2
    <2> QED BY <2>2, <2>3
  <1>8. Tail(R(t)) = Tail(R(s))
    <2>1. Tail(R(t)) \in Seq(E) /\ Len(Tail(R(t))) = Len(s) - 1 /\ \A j \in 1 .. Len(s) - 1 : Tail(R(t))[j] = R(t)[j + 1]
      BY <1>4, <1>5
    <2>2. Tail(R(s)) \in Seq(E) /\ Len(Tail(R(s))) = Len(s) - 1 /\ \A j \in 1 .. Len(s) - 1 : Tail(R(s))[j] = R(s)[j + 1]
      BY <1>4, <1>5
    <2> QED BY <1>7, <2>1, <2>2, SameEntries
  <1>9. remnode(R(t), 1) = Tail(R(t))
    BY <1>4, <1>5, FirstRemoved
  <1> QED BY <1>3, <1>4, <1>5, <1>6, <1>8, <1>9

LEMMA NotRolled ==
  ASSUME NEW E, NEW s \in Seq(E)
  PROVE  rolllist(s, 1) = s
  BY DEF rolllist

\* A directory that is put in front.
LEMMA PushedIs ==
  ASSUME NEW E, NEW s \in Seq(E), NEW d \in E
  PROVE  /\ <<d>> \o s \in Seq(E) /\ Len(<<d>> \o s) = Len(s) + 1 /\ <<d>> \o s # << >>
         /\ (<<d>> \o s)[1] = d /\ Tail(<<d>> \o s) = s
         /\ \A j \in 1 .. Len(s) : (<<d>> \o s)[j + 1] = s[j]
  <1> DEFINE t == <<d>> \o s
  <1>1. t \in Seq(E) /\ Len(t) = Len(s) + 1 /\ t[1] = d /\ \A j \in 1 .. Len(s) : t[j + 1] = s[j]
    OBVIOUS
  <1> HIDE DEF t
  <1>2. t # << >>
    BY <1>1
  <1>3. Tail(t) \in Seq(E) /\ Len(Tail(t)) = Len(s) /\ \A j \in 1 .. Len(s) : Tail(t)[j] = t[j + 1]
    BY <1>1, <1>2
  <1>4. Tail(t) = s
    BY <1>1, <1>3, SameEntries
  <1> QED BY <1>1, <1>2, <1>4 DEF t

LEMMA NoneIsSeq ==
  ASSUME NEW E
  PROVE  << >> \in Seq(E)
  OBVIOUS

LEMMA IsSeqIs ==
  ASSUME NEW E, NEW s \in Seq(E)
  PROVE  IsSeq(s)
  BY DEF IsSeq

\* What is cut is still a sequence.
LEMMA CutIs ==
  ASSUME world \in Worlds, NEW E, NEW s \in Seq(E), NEW d
  PROVE  Cut(Undoubled(s, d)) \in Seq(E)
  <1> DEFINE is == {i \in DOMAIN s : s[i] = d}
             u == Undoubled(s, d)
             size == IF world.DIRSTACKSIZE < 2 THEN 2 ELSE world.DIRSTACKSIZE
  <1>1. u \in Seq(E)
    <2>1. CASE Option("PUSHDIGNOREDUPS") /\ is # {}
      <3>1. is \in SUBSET Nat
        OBVIOUS
      <3>2. Min(is) \in is
        BY <2>1, <3>1, Smallest
      <3>3. Min(is) \in 1 .. Len(s)
        BY <3>2
      <3>4. u = remnode(s, Min(is))
        BY <2>1 DEF Undoubled
      <3> QED BY <3>3, <3>4, RemovedIs
    <2>2. CASE ~(Option("PUSHDIGNOREDUPS") /\ is # {})
      BY <2>2 DEF Undoubled
    <2> QED BY <2>1, <2>2
  <1>2. world.DIRSTACKSIZE \in Int
    BY WorldsAssumption
  <1> HIDE DEF u, is
  <1>3. CASE world.DIRSTACKSIZE <= 0
    BY <1>1, <1>3 DEF Cut, u
  <1>4. CASE ~(world.DIRSTACKSIZE <= 0)
    <2> DEFINE m == Min({Len(u), size - 1})
    <2>1. Len(u) \in Nat /\ size - 1 \in Nat
      BY <1>1, <1>2
    <2>2. m \in {Len(u), size - 1} /\ m <= Len(u)
      BY <2>1, Smallest
    <2>3. m \in Nat /\ m <= Len(u)
      BY <2>1, <2>2
    <2>4. Cut(u) = SubSeq(u, 1, m)
      BY <1>4 DEF Cut
    <2> HIDE DEF m
    <2>5. SubSeq(u, 1, m) \in Seq(E)
      BY <1>1, <2>3
    <2> QED BY <2>4, <2>5 DEF u
  <1> QED BY <1>2, <1>3, <1>4

-----------------------------------------------------------------------------
(* Where a change of directory ends.                                        *)

\* The first of the candidates that is a directory.
First(s) ==
  LET is == {i \in DOMAIN s : IsDirectory(s[i])}
  IN  IF is = {} THEN None ELSE Resolved(s[Min(is)])

LEMMA FirstIs ==
  ASSUME NEW E, NEW s \in Seq(E), First(s) # None
  PROVE  Cased(First(s)) \in dirs
  <1> DEFINE is == {i \in DOMAIN s : IsDirectory(s[i])}
  <1>1. is # {}
    BY DEF First
  <1>2. is \in SUBSET Nat
    OBVIOUS
  <1>3. Min(is) \in is
    BY <1>1, <1>2, Smallest
  <1>4. First(s) = Resolved(s[Min(is)])
    BY <1>1 DEF First
  <1>5. IsDirectory(s[Min(is)])
    BY <1>3
  <1> QED BY <1>4, <1>5 DEF IsDirectory

LEMMA ChdirGoes ==
  ASSUME world \in Worlds, NEW dest, cd_do_chdir(dest).to # None
  PROVE  Cased(cd_do_chdir(dest).to) \in dirs
  <1> DEFINE nocdpath == dest[1] \in {".", ".."}
             hasdot   == ~nocdpath /\ \E i \in DOMAIN world.cdpath : world.cdpath[i] \in {None, <<".">>}
             here     == IF hasdot THEN << >> ELSE <<dest>>
             there    == IF nocdpath \/ Absolute(dest) THEN << >>
                         ELSE [i \in DOMAIN world.cdpath |-> world.cdpath[i] \o dest]
             tried    == IF Absolute(dest) THEN <<dest>> ELSE here \o there
             named    == getnameddir(dest[1])
             places   == [i \in DOMAIN world.cdpath |-> world.cdpath[i] \o dest]
             E        == {dest} \union {places[i] : i \in DOMAIN world.cdpath}
  <1>1. DOMAIN world.cdpath = 1 .. Len(world.cdpath) /\ Len(world.cdpath) \in Nat
    <2>1. world.cdpath \in Seq(Seq(DOMAIN Disk))
      BY WorldsAssumption
    <2> QED BY <2>1
  <1>2. here \in Seq(E)
    <2>1. dest \in E
      OBVIOUS
    <2> HIDE DEF E
    <2>2. <<dest>> \in Seq(E) /\ << >> \in Seq(E)
      BY <2>1
    <2> QED BY <2>2
  <1>3. there \in Seq(E)
    <2>1. \A i \in DOMAIN world.cdpath : places[i] \in E
      OBVIOUS
    <2>2. places = [i \in 1 .. Len(world.cdpath) |-> places[i]]
      BY <1>1
    <2>3. there = << >> \/ there = places
      OBVIOUS
    <2> HIDE DEF E, places, there
    <2>4. places \in Seq(E)
      BY <1>1, <2>1, <2>2
    <2>5. << >> \in Seq(E)
      OBVIOUS
    <2> QED BY <2>3, <2>4, <2>5
  <1>4. tried \in Seq(E)
    <2>1. <<dest>> \in Seq(E)
      OBVIOUS
    <2> HIDE DEF here, there, E
    <2>2. here \o there \in Seq(E)
      BY <1>2, <1>3, JoinedIs
    <2> QED BY <2>1, <2>2
  <1>5. \/ cd_do_chdir(dest).to = First(tried)
        \/ named.dir # None /\ cd_do_chdir(dest).to = First(<<named.dir \o Tail(dest)>>)
    BY DEF cd_do_chdir, Given, First
  <1> HIDE DEF tried, named, E, places
  <1>6. CASE cd_do_chdir(dest).to = First(tried)
    BY <1>4, <1>6, FirstIs
  <1>7. CASE cd_do_chdir(dest).to = First(<<named.dir \o Tail(dest)>>)
    <2>1. <<named.dir \o Tail(dest)>> \in Seq({named.dir \o Tail(dest)})
      OBVIOUS
    <2> QED BY <1>7, <2>1, FirstIs
  <1> QED BY <1>5, <1>6, <1>7

-----------------------------------------------------------------------------
(* What cd_get_dest() finds.                                                *)

Where(s, i) == cd_do_chdir(s[i]).to

LEMMA GotOfError ==
  ASSUME NEW func, NEW arg, ~Chosen(func, arg).ok
  PROVE  LET c == Chosen(func, arg)  got == cd_get_dest(func, arg)
         IN  ~got.ok /\ got.s = c.s
  BY DEF cd_get_dest, Given

LEMMA GotOfCd ==
  ASSUME NEW func, NEW arg, func # "popd", Chosen(func, arg).ok
  PROVE  LET c   == Chosen(func, arg)
             got == cd_get_dest(func, arg)
             at  == IF c.dir = 0 THEN 1 ELSE c.dir
             to  == Where(c.s, at)
         IN  /\ to = None => ~got.ok /\ got.s = IF c.dir = 0 THEN Tail(c.s) ELSE c.s
             /\ to # None => got.ok /\ Changed(got.s, c.s, at, to) /\ got.dir = at /\ got.cwd = to
  BY DEF cd_get_dest, Given, Where, Changed

LEMMA GotOfPopd ==
  ASSUME NEW arg, Chosen("popd", arg).ok, Chosen("popd", arg).dir \in {0, 1},
         NEW at, at = IF Len(Chosen("popd", arg).s) = 1 THEN 1 ELSE 2
  PROVE  LET c   == Chosen("popd", arg)
             got == cd_get_dest("popd", arg)
             to  == Where(c.s, at)
         IN  /\ to = None => ~got.ok /\ got.s = remnode(c.s, at)
             /\ to # None => got.ok /\ Changed(got.s, c.s, at, to) /\ got.dir = 1 /\ got.cwd = to
  <1> DEFINE c == Chosen("popd", arg)
             got == cd_get_dest("popd", arg)
             target == IF c.dir = 0 THEN 1 ELSE c.dir
             next == IF target = Len(c.s) THEN 0 ELSE target + 1
             dir == IF next = 0 THEN 1 ELSE next
             there == cd_do_chdir(c.s[dir])
  <1>1. target = 1
    OBVIOUS
  <1>2. dir = at
    <2> HIDE DEF c, target
    <2>1. next = IF Len(c.s) = 1 THEN 0 ELSE 2
      BY <1>1
    <2> HIDE DEF next
    <2>2. dir = IF Len(c.s) = 1 THEN 1 ELSE 2
      BY <2>1
    <2> QED BY <2>2 DEF c
  <1>3. got = IF there.to = None
              THEN [ok |-> FALSE, s |-> remnode(c.s, dir), dir |-> 0, cwd |-> cwd, tab |-> there.tab]
              ELSE [ok |-> TRUE, s |-> [c.s EXCEPT ![dir] = there.to], dir |-> target,
                    cwd |-> there.to, tab |-> there.tab]
    <2>1. target # 0 /\ ~(target # 1)
      BY <1>1
    <2> QED BY <2>1 DEF cd_get_dest, Given
  <1> HIDE DEF dir, target, c, got, there
  <1>4. there.to = Where(c.s, at)
    BY <1>2 DEF there, Where
  <1>5. CASE there.to = None
    <2>1. ~got.ok /\ got.s = remnode(c.s, dir)
      BY <1>3, <1>5
    <2> QED BY <1>2, <1>4, <1>5, <2>1 DEF c, got
  <1>6. CASE there.to # None
    <2>1. got.ok /\ got.dir = target /\ got.cwd = there.to
      BY <1>3, <1>6
    <2>2. Changed(got.s, c.s, dir, there.to)
      BY <1>3, <1>6 DEF Changed
    <2> QED BY <1>1, <1>2, <1>4, <1>6, <2>1, <2>2 DEF c, got
  <1> QED BY <1>5, <1>6

LEMMA GotOfExtraction ==
  ASSUME NEW arg, Chosen("popd", arg).ok, Chosen("popd", arg).dir \notin {0, 1}
  PROVE  LET c == Chosen("popd", arg)  got == cd_get_dest("popd", arg)
         IN  got.ok /\ got.s = c.s /\ got.dir = c.dir /\ got.cwd = cwd
  BY DEF cd_get_dest, Given

-----------------------------------------------------------------------------
(* What cd_new_pwd() makes of the stack.                                    *)

LEMMA NewOfPushd ==
  ASSUME NEW E, NEW s \in Seq(E), NEW at \in 1 .. Len(s), NEW to \in E,
         NEW t, Changed(t, s, at, to)
  PROVE  LET new == cd_new_pwd("pushd", t, at)
         IN  new.new = to /\ new.s = Cut(Undoubled(Tail(rolllist(s, at)), to))
  <1>1. rolllist(t, at)[1] = to /\ remnode(rolllist(t, at), 1) = Tail(rolllist(s, at))
    BY RolledIs
  <1>2. /\ cd_new_pwd("pushd", t, at).new = rolllist(t, at)[1]
        /\ cd_new_pwd("pushd", t, at).s = Cut(Undoubled(remnode(rolllist(t, at), 1), rolllist(t, at)[1]))
    BY DEF cd_new_pwd, Given
  <1> QED BY <1>1, <1>2

\* cd takes one entry more, unless it pushes.
Rest(s) == IF s # << >> /\ ~Option("AUTOPUSHD") THEN Tail(s) ELSE s

LEMMA NewOfCd ==
  ASSUME NEW E, NEW s \in Seq(E), NEW at \in 1 .. Len(s), NEW to \in E,
         NEW t, Changed(t, s, at, to)
  PROVE  LET new == cd_new_pwd("cd", t, at)
         IN  new.new = to /\ new.s = Cut(Undoubled(Rest(remnode(s, at)), to))
  <1>1. t[at] = to /\ remnode(t, at) = remnode(s, at)
    BY ChangedRemoved
  <1>2. /\ cd_new_pwd("cd", t, at).new = t[at]
        /\ cd_new_pwd("cd", t, at).s = Cut(Undoubled(Rest(remnode(t, at)), t[at]))
    BY DEF cd_new_pwd, Given, Rest
  <1> QED BY <1>1, <1>2

LEMMA TailIs ==
  ASSUME NEW E, NEW s \in Seq(E), s # << >>
  PROVE  Tail(s) \in Seq(E) /\ Len(Tail(s)) = Len(s) - 1 /\ \A j \in 1 .. Len(s) - 1 : Tail(s)[j] = s[j + 1]
  OBVIOUS

LEMMA TwiceTail ==
  ASSUME NEW E, NEW s \in Seq(E), Len(s) > 1
  PROVE  /\ Tail(s) \in Seq(E) /\ Tail(s) # << >> /\ Tail(s)[1] = s[2]
         /\ Tail(Tail(s)) \in Seq(E) /\ Len(Tail(Tail(s))) = Len(s) - 2
         /\ \A j \in 1 .. Len(s) - 2 : Tail(Tail(s))[j] = s[j + 2]
  <1>1. s # << >> /\ Len(s) \in Nat
    OBVIOUS
  <1> DEFINE t == Tail(s)
  <1>2. t \in Seq(E) /\ Len(t) = Len(s) - 1 /\ \A j \in 1 .. Len(s) - 1 : t[j] = s[j + 1]
    BY <1>1, TailIs
  <1> HIDE DEF t
  <1>3. t # << >>
    <2>1. Len(t) # 0
      BY <1>1, <1>2
    <2> QED BY <2>1
  <1>4. t[1] = s[2]
    <2>1. 1 \in 1 .. Len(s) - 1 /\ 1 + 1 = 2
      BY <1>1
    <2> QED BY <1>2, <2>1
  <1>5. Tail(t) \in Seq(E) /\ Len(Tail(t)) = Len(t) - 1 /\ \A j \in 1 .. Len(t) - 1 : Tail(t)[j] = t[j + 1]
    BY <1>2, <1>3, TailIs
  <1>6. \A j \in 1 .. Len(s) - 2 : Tail(t)[j] = s[j + 2]
    <2> TAKE j \in 1 .. Len(s) - 2
    <2>1. j + 1 \in 1 .. Len(s) - 1 /\ j \in 1 .. Len(t) - 1 /\ j + 1 + 1 = j + 2
      BY <1>1, <1>2
    <2>2. Tail(t)[j] = t[j + 1]
      BY <1>5, <2>1
    <2>3. t[j + 1] = s[j + 1 + 1]
      BY <1>2, <2>1
    <2> QED BY <2>1, <2>2, <2>3
  <1>7. Len(Tail(t)) = Len(s) - 2
    BY <1>1, <1>2, <1>5
  <1> QED BY <1>2, <1>3, <1>4, <1>5, <1>6, <1>7 DEF t

LEMMA PlaceIs ==
  ASSUME NEW n \in Nat, n # 0
  PROVE  (IF n = 1 THEN 1 ELSE 2) \in 1 .. n
  OBVIOUS

LEMMA NotEmpty ==
  ASSUME NEW E, NEW s \in Seq(E)
  PROVE  Len(s) \in Nat /\ (s = << >> <=> Len(s) = 0)
  OBVIOUS

LEMMA NewOfPopd ==
  ASSUME NEW E, NEW s \in Seq(E), s # << >>, NEW to \in E,
         NEW at, at = IF Len(s) = 1 THEN 1 ELSE 2, NEW t, Changed(t, s, at, to)
  PROVE  LET new == cd_new_pwd("popd", t, 1)
         IN  new.new = to /\ new.s = Cut(Undoubled(IF Len(s) = 1 THEN << >> ELSE Tail(Tail(s)), to))
  <1>1. Len(s) \in Nat \ {0} /\ at \in 1 .. Len(s)
    <2>1. Len(s) \in Nat /\ Len(s) # 0
      BY NotEmpty
    <2> QED BY <2>1, PlaceIs
  <1>2. /\ t \in Seq(E) /\ Len(t) = Len(s)
        /\ \A j \in 1 .. Len(s) : t[j] = IF j = at THEN to ELSE s[j]
    BY <1>1, ChangedIs
  <1>3. t # << >>
    <2>1. Len(t) # 0
      BY <1>1, <1>2
    <2> QED BY <2>1
  <1>4. remnode(t, 1) = Tail(t)
    BY <1>2, <1>3, FirstRemoved
  <1>5. CASE Len(s) = 1
    <2>1. Tail(t) = << >>
      <3>1. Tail(t) \in Seq(E) /\ Len(Tail(t)) = Len(t) - 1
        BY <1>2, <1>3, TailIs
      <3>2. Len(Tail(t)) = 0
        BY <1>2, <1>5, <3>1
      <3> QED BY <3>1, <3>2, NotEmpty
    <2>2. /\ cd_new_pwd("popd", t, 1).new = t[1]
          /\ cd_new_pwd("popd", t, 1).s = Cut(Undoubled(<< >>, t[1]))
      BY <1>4, <2>1 DEF cd_new_pwd, Given
    <2>3. t[1] = to
      BY <1>2, <1>5
    <2> QED BY <1>5, <2>2, <2>3
  <1>6. CASE Len(s) # 1
    <2>1. Len(s) > 1 /\ at = 2
      BY <1>1, <1>6
    <2>2. Tail(t) # << >> /\ Tail(t)[1] = to
      <3>1. Tail(t) # << >> /\ Tail(t)[1] = t[2]
        BY <1>2, <2>1, TwiceTail
      <3>2. 2 \in 1 .. Len(s)
        BY <1>1, <2>1
      <3>3. t[2] = to
        BY <1>2, <2>1, <3>2
      <3> QED BY <3>1, <3>3
    <2>3. Tail(Tail(t)) = Tail(Tail(s))
      <3>1. /\ Tail(Tail(t)) \in Seq(E) /\ Len(Tail(Tail(t))) = Len(s) - 2
            /\ \A j \in 1 .. Len(s) - 2 : Tail(Tail(t))[j] = t[j + 2]
        BY <1>2, <2>1, TwiceTail
      <3>2. /\ Tail(Tail(s)) \in Seq(E) /\ Len(Tail(Tail(s))) = Len(s) - 2
            /\ \A j \in 1 .. Len(s) - 2 : Tail(Tail(s))[j] = s[j + 2]
        BY <2>1, TwiceTail
      <3>3. \A j \in 1 .. Len(s) - 2 : t[j + 2] = s[j + 2]
        BY <1>1, <1>2, <2>1
      <3> DEFINE a == Tail(Tail(t))
                 b == Tail(Tail(s))
      <3> HIDE DEF a, b
      <3>4. a \in Seq(E) /\ b \in Seq(E) /\ Len(a) = Len(b) /\ Len(a) = Len(s) - 2
        BY <3>1, <3>2 DEF a, b
      <3>5. \A j \in 1 .. Len(a) : a[j] = b[j]
        BY <3>1, <3>2, <3>3, <3>4 DEF a, b
      <3>6. a = b
        BY <3>4, <3>5, SameEntries
      <3> QED BY <3>6 DEF a, b
    <2>4. /\ cd_new_pwd("popd", t, 1).new = Tail(t)[1]
          /\ cd_new_pwd("popd", t, 1).s = Cut(Undoubled(Tail(Tail(t)), Tail(t)[1]))
      BY <1>4, <2>2 DEF cd_new_pwd, Given
    <2> QED BY <1>6, <2>2, <2>3, <2>4
  <1> QED BY <1>5, <1>6

LEMMA NewOfExtraction ==
  ASSUME NEW E, NEW s \in Seq(E), NEW i \in 2 .. Len(s)
  PROVE  LET new == cd_new_pwd("popd", s, i)
         IN  new.new = s[1] /\ new.s = Cut(Undoubled(Tail(remnode(s, i)), s[1]))
  <1> DEFINE out == remnode(s, i)
  <1>1. out \in Seq(E) /\ Len(out) = Len(s) - 1 /\ out[1] = s[1]
    <2>1. i \in 1 .. Len(s) /\ 1 \in 1 .. Len(s) - 1 /\ 1 < i
      OBVIOUS
    <2> QED BY <2>1, RemovedIs
  <1>2. out # << >>
    BY <1>1
  <1>3. /\ cd_new_pwd("popd", s, i).new = out[1]
        /\ cd_new_pwd("popd", s, i).s = Cut(Undoubled(Tail(out), out[1]))
    BY <1>2 DEF cd_new_pwd, Given
  <1> QED BY <1>1, <1>3

-----------------------------------------------------------------------------
(* What the argument chooses.                                               *)

Kinds == {"none", "count", "dash", "dir", "subst"}

LEMMA WithEntries ==
  ASSUME NEW s, IsSeq(s), NEW x, NEW y
  PROVE  \E E : s \in Seq(E) /\ x \in E /\ y \in E
  <1>1. PICK E : s \in Seq(E)
    BY DEF IsSeq
  <1> DEFINE F == E \union {x, y}
  <1>2. E \subseteq F /\ x \in F /\ y \in F
    OBVIOUS
  <1> HIDE DEF F
  <1>3. s \in Seq(F)
    BY <1>1, <1>2
  <1> QED BY <1>2, <1>3

LEMMA StackIs ==
  ASSUME IsSeq(dirstack)
  PROVE  /\ IsSeq(Stack) /\ Stack # << >> /\ Len(Stack) = Len(dirstack) + 1
         /\ Stack[1] = pwd /\ Tail(Stack) = dirstack
         /\ \A j \in 1 .. Len(dirstack) : Stack[j + 1] = dirstack[j]
  <1>1. PICK E : dirstack \in Seq(E) /\ pwd \in E
    BY WithEntries
  <1> QED BY <1>1, PushedIs, IsSeqIs DEF Stack

LEMMA PlaceOfIs ==
  ASSUME NEW s, IsSeq(s), NEW arg
  PROVE  PlaceOf(arg, s) \in 0 .. Len(s)
  <1>1. DOMAIN s = 1 .. Len(s) /\ Len(s) \in Nat
    BY DEF IsSeq
  <1> QED BY <1>1 DEF PlaceOf

\* What is chosen: a directory on top of the stack, a place in the stack as it is, or
\* the second entry with the first behind it.
PushedOn(c, d) == c.ok /\ c.s = <<d>> \o Stack /\ c.dir = 0
Exchanged(c) == /\ c.ok /\ c.dir = 1 /\ Len(Stack) > 1
                /\ c.s = <<Stack[2], Stack[1]>> \o SubSeq(Stack, 3, Len(Stack))
Kept(c) == c.s = Stack /\ c.dir \in 0 .. Len(Stack)

LEMMA ChosenIs ==
  ASSUME IsSeq(dirstack), NEW func, NEW arg, arg.kind \in Kinds
  PROVE  LET c == Chosen(func, arg)
         IN  \/ \E d : PushedOn(c, d)
             \/ Exchanged(c) /\ func = "pushd" /\ arg.kind = "none" /\ ~Option("PUSHDTOHOME")
             \/ Kept(c) /\ (c.ok /\ func # "popd" => c.dir # 0)
  <1> DEFINE c == Chosen(func, arg)
  <1>1. CASE arg.kind = "none"
    <2>1. CASE func = "popd"
      <3>1. c.s = Stack /\ c.dir = 0
        BY <1>1, <2>1 DEF Chosen
      <3>2. Len(Stack) \in Nat
        BY StackIs, NotEmpty DEF IsSeq
      <3> QED BY <2>1, <3>1, <3>2 DEF Kept
    <2>2. CASE func = "pushd" /\ ~Option("PUSHDTOHOME") /\ Len(Stack) > 1
      <3>1. Exchanged(c)
        BY <1>1, <2>2 DEF Chosen, Exchanged
      <3> QED BY <1>1, <2>2, <3>1
    <2>3. CASE func # "popd" /\ ~(func = "pushd" /\ ~Option("PUSHDTOHOME") /\ Len(Stack) > 1)
      <3>1. PushedOn(c, home)
        BY <1>1, <2>3 DEF Chosen, PushedOn
      <3> QED BY <3>1
    <2> QED BY <2>1, <2>2, <2>3
  <1>2. CASE arg.kind = "count"
    <2>1. c.s = Stack /\ c.dir = PlaceOf(arg, Stack) /\ c.ok = (PlaceOf(arg, Stack) # 0)
      BY <1>2 DEF Chosen
    <2>2. PlaceOf(arg, Stack) \in 0 .. Len(Stack)
      BY StackIs, PlaceOfIs
    <2> QED BY <2>1, <2>2 DEF Kept
  <1>3. CASE arg.kind = "dash"
    <2>1. PushedOn(c, oldpwd)
      BY <1>3 DEF Chosen, PushedOn
    <2> QED BY <2>1
  <1>4. CASE arg.kind = "dir"
    <2>1. PushedOn(c, arg.dir)
      BY <1>4 DEF Chosen, PushedOn
    <2> QED BY <2>1
  <1>5. CASE arg.kind = "subst"
    <2>1. CASE Substituted(arg) = None
      <3>1. c.s = Stack /\ c.dir = 0 /\ ~c.ok
        BY <1>5, <2>1 DEF Chosen
      <3>2. Len(Stack) \in Nat
        BY StackIs, NotEmpty DEF IsSeq
      <3> QED BY <3>1, <3>2 DEF Kept
    <2>2. CASE Substituted(arg) # None
      <3>1. PushedOn(c, Substituted(arg))
        BY <1>5, <2>2 DEF Chosen, PushedOn
      <3> QED BY <3>1
    <2> QED BY <2>1, <2>2
  <1> QED BY <1>1, <1>2, <1>3, <1>4, <1>5 DEF Kinds

LEMMA ExchangedIs ==
  ASSUME NEW s, IsSeq(s), Len(s) > 1
  PROVE  LET t == <<s[2], s[1]>> \o SubSeq(s, 3, Len(s)) IN IsSeq(t) /\ t # << >>
  <1>1. PICK E : s \in Seq(E)
    BY DEF IsSeq
  <1>2. s[1] \in E /\ s[2] \in E /\ Len(s) \in Nat
    BY <1>1
  <1> DEFINE u == SubSeq(s, 3, Len(s))
             v == <<s[2], s[1]>>
  <1>3. u \in Seq(E)
    BY <1>1, <1>2
  <1>4. v \in Seq(E) /\ Len(v) = 2
    BY <1>2
  <1> HIDE DEF u, v
  <1>5. v \o u \in Seq(E) /\ Len(v \o u) = 2 + Len(u)
    <2>1. v \o u \in Seq(E) /\ Len(v \o u) = Len(v) + Len(u)
      BY <1>3, <1>4, JoinedIs
    <2> QED BY <1>4, <2>1
  <1>6. Len(v \o u) # 0
    BY <1>3, <1>5, NotEmpty
  <1> QED BY <1>5, <1>6, NotEmpty, IsSeqIs DEF u, v

\* In any case it is a place in a list.
LEMMA ChosenPlace ==
  ASSUME IsSeq(dirstack), NEW func, NEW arg, arg.kind \in Kinds
  PROVE  LET c == Chosen(func, arg)
         IN  IsSeq(c.s) /\ c.s # << >> /\ c.dir \in 0 .. Len(c.s)
  <1> DEFINE c == Chosen(func, arg)
  <1>0. IsSeq(Stack) /\ Stack # << >>
    BY StackIs
  <1>1. ASSUME NEW d, PushedOn(c, d)
        PROVE  IsSeq(c.s) /\ c.s # << >> /\ c.dir = 0
    <2>1. PICK E : Stack \in Seq(E) /\ d \in E
      BY <1>0, WithEntries
    <2>2. <<d>> \o Stack \in Seq(E) /\ <<d>> \o Stack # << >>
      BY <2>1, PushedIs
    <2>3. IsSeq(<<d>> \o Stack)
      BY <2>2, IsSeqIs
    <2>4. c.s = <<d>> \o Stack /\ c.dir = 0
      BY <1>1 DEF PushedOn
    <2> HIDE DEF c
    <2> QED BY <2>2, <2>3, <2>4
  <1>2. CASE Exchanged(c)
    BY <1>0, <1>2, ExchangedIs DEF Exchanged
  <1>3. Exchanged(c) => c.dir = 1
    BY DEF Exchanged
  <1>4. Kept(c) => IsSeq(c.s) /\ c.s # << >> /\ c.dir \in 0 .. Len(c.s)
    BY <1>0 DEF Kept
  <1>5. IsSeq(c.s) /\ c.s # << >> => Len(c.s) \in Nat \ {0}
    BY NotEmpty DEF IsSeq
  <1> HIDE DEF c
  <1>6. IsSeq(c.s) /\ c.s # << >> /\ c.dir \in {0, 1} => c.dir \in 0 .. Len(c.s)
    BY <1>5
  <1>7. (\E d : PushedOn(c, d)) \/ Exchanged(c) \/ Kept(c)
    BY ChosenIs DEF c
  <1> QED BY <1>1, <1>2, <1>3, <1>4, <1>6, <1>7 DEF c

-----------------------------------------------------------------------------
(* A command that goes somewhere.                                           *)

NewOf(func, arg) == LET got == cd_get_dest(func, arg) IN cd_new_pwd(func, got.s, got.dir)

\* A list and its place i, rolled.
LEMMA RolledFirst ==
  ASSUME NEW E, NEW s \in Seq(E), NEW i \in 1 .. Len(s)
  PROVE  rolllist(s, i) \in Seq(E) /\ rolllist(s, i) # << >> /\ rolllist(s, i)[1] = s[i]
  <1>1. s[i] \in E
    OBVIOUS
  <1>2. Changed(s, s, i, s[i])
    BY DEF Changed
  <1> QED BY <1>1, <1>2, RolledIs

\* The command went to `to' and left rest on the stack.
Went(func, arg, to, rest) ==
  LET got == cd_get_dest(func, arg)
  IN  /\ to # None /\ Cased(to) \in dirs
      /\ got.ok /\ got.cwd = to
      /\ NewOf(func, arg).new = to /\ IsSeq(NewOf(func, arg).s)
      /\ NewOf(func, arg).s = Cut(Undoubled(rest, to))

LEMMA WhereIs ==
  ASSUME world \in Worlds, NEW s, NEW i, Where(s, i) # None
  PROVE  Cased(Where(s, i)) \in dirs
  BY ChdirGoes DEF Where

LEMMA PushdGoes ==
  ASSUME world \in Worlds, NEW arg, Chosen("pushd", arg).ok,
         IsSeq(Chosen("pushd", arg).s), NEW at \in 1 .. Len(Chosen("pushd", arg).s),
         at = IF Chosen("pushd", arg).dir = 0 THEN 1 ELSE Chosen("pushd", arg).dir,
         Where(Chosen("pushd", arg).s, at) # None
  PROVE  LET c  == Chosen("pushd", arg)
         IN  Went("pushd", arg, Where(c.s, at), Tail(rolllist(c.s, at)))
  <1> DEFINE c == Chosen("pushd", arg)
             to == Where(c.s, at)
             got == cd_get_dest("pushd", arg)
  <1>1. got.ok /\ Changed(got.s, c.s, at, to) /\ got.dir = at /\ got.cwd = to
    BY GotOfCd
  <1>2. PICK E : c.s \in Seq(E) /\ to \in E
    BY WithEntries
  <1>3. Cased(to) \in dirs
    BY WhereIs
  <1> HIDE DEF c, to, got
  <1>4. at \in 1 .. Len(c.s) /\ to # None
    BY DEF c, to
  <1>5. LET new == cd_new_pwd("pushd", got.s, at)
        IN  new.new = to /\ new.s = Cut(Undoubled(Tail(rolllist(c.s, at)), to))
    BY <1>1, <1>2, <1>4, NewOfPushd
  <1>6. rolllist(c.s, at) \in Seq(E) /\ rolllist(c.s, at) # << >>
    BY <1>2, <1>4, RolledFirst
  <1>7. Tail(rolllist(c.s, at)) \in Seq(E)
    BY <1>6, TailIs
  <1>8. IsSeq(Cut(Undoubled(Tail(rolllist(c.s, at)), to)))
    BY <1>7, CutIs, IsSeqIs
  <1>9. NewOf("pushd", arg).new = to /\ NewOf("pushd", arg).s = Cut(Undoubled(Tail(rolllist(c.s, at)), to))
    BY <1>1, <1>5 DEF NewOf, got
  <1> QED BY <1>1, <1>3, <1>4, <1>8, <1>9 DEF Went, got, c, to

LEMMA RestIs ==
  ASSUME NEW E, NEW s \in Seq(E)
  PROVE  Rest(s) \in Seq(E)
  BY TailIs DEF Rest

LEMMA CdGoes ==
  ASSUME world \in Worlds, NEW arg, Chosen("cd", arg).ok,
         IsSeq(Chosen("cd", arg).s), NEW at \in 1 .. Len(Chosen("cd", arg).s),
         at = IF Chosen("cd", arg).dir = 0 THEN 1 ELSE Chosen("cd", arg).dir,
         Where(Chosen("cd", arg).s, at) # None
  PROVE  LET c  == Chosen("cd", arg)
         IN  Went("cd", arg, Where(c.s, at), Rest(remnode(c.s, at)))
  <1> DEFINE c == Chosen("cd", arg)
             to == Where(c.s, at)
             got == cd_get_dest("cd", arg)
  <1>1. got.ok /\ Changed(got.s, c.s, at, to) /\ got.dir = at /\ got.cwd = to
    BY GotOfCd
  <1>2. PICK E : c.s \in Seq(E) /\ to \in E
    BY WithEntries
  <1>3. Cased(to) \in dirs
    BY WhereIs
  <1> HIDE DEF c, to, got
  <1>4. at \in 1 .. Len(c.s) /\ to # None
    BY DEF c, to
  <1>5. LET new == cd_new_pwd("cd", got.s, at)
        IN  new.new = to /\ new.s = Cut(Undoubled(Rest(remnode(c.s, at)), to))
    BY <1>1, <1>2, <1>4, NewOfCd
  <1>6. remnode(c.s, at) \in Seq(E)
    BY <1>2, <1>4, RemovedIs
  <1>7. Rest(remnode(c.s, at)) \in Seq(E)
    BY <1>6, RestIs
  <1>8. IsSeq(Cut(Undoubled(Rest(remnode(c.s, at)), to)))
    BY <1>7, CutIs, IsSeqIs
  <1>9. NewOf("cd", arg).new = to /\ NewOf("cd", arg).s = Cut(Undoubled(Rest(remnode(c.s, at)), to))
    BY <1>1, <1>5 DEF NewOf, got
  <1> QED BY <1>1, <1>3, <1>4, <1>8, <1>9 DEF Went, got, c, to

LEMMA PopdGoes ==
  ASSUME world \in Worlds, NEW arg, Chosen("popd", arg).ok, Chosen("popd", arg).dir \in {0, 1},
         IsSeq(Chosen("popd", arg).s), Chosen("popd", arg).s # << >>,
         NEW at, at = IF Len(Chosen("popd", arg).s) = 1 THEN 1 ELSE 2,
         Where(Chosen("popd", arg).s, at) # None
  PROVE  LET c  == Chosen("popd", arg)
         IN  Went("popd", arg, Where(c.s, at), IF Len(c.s) = 1 THEN << >> ELSE Tail(Tail(c.s)))
  <1> DEFINE c == Chosen("popd", arg)
             to == Where(c.s, at)
             got == cd_get_dest("popd", arg)
             rest == IF Len(c.s) = 1 THEN << >> ELSE Tail(Tail(c.s))
  <1>1. got.ok /\ Changed(got.s, c.s, at, to) /\ got.dir = 1 /\ got.cwd = to
    BY GotOfPopd
  <1>2. PICK E : c.s \in Seq(E) /\ to \in E
    BY WithEntries
  <1>3. Cased(to) \in dirs
    BY WhereIs
  <1> HIDE DEF c, to, got
  <1>4. c.s # << >> /\ to # None /\ at = IF Len(c.s) = 1 THEN 1 ELSE 2
    BY DEF c, to
  <1>5. LET new == cd_new_pwd("popd", got.s, 1)
        IN  new.new = to /\ new.s = Cut(Undoubled(rest, to))
    BY <1>1, <1>2, <1>4, NewOfPopd
  <1>6. rest \in Seq(E)
    <2>1. Len(c.s) \in Nat /\ Len(c.s) # 0
      BY <1>2, <1>4, NotEmpty
    <2>2. CASE Len(c.s) = 1
      BY <2>2, NoneIsSeq
    <2>3. CASE Len(c.s) > 1
      BY <1>2, <2>3, TwiceTail
    <2>4. \A n \in Nat : n = 0 \/ n = 1 \/ n > 1
      OBVIOUS
    <2>5. Len(c.s) = 1 \/ Len(c.s) > 1
      BY <2>1, <2>4
    <2> HIDE DEF rest
    <2> QED BY <2>2, <2>3, <2>5
  <1> HIDE DEF rest
  <1>8. IsSeq(Cut(Undoubled(rest, to)))
    BY <1>6, CutIs, IsSeqIs
  <1>9. NewOf("popd", arg).new = to /\ NewOf("popd", arg).s = Cut(Undoubled(rest, to))
    BY <1>1, <1>5 DEF NewOf, got
  <1>10. Went("popd", arg, to, rest)
    BY <1>1, <1>3, <1>4, <1>8, <1>9 DEF Went, got
  <1> QED BY <1>10 DEF c, to, rest

\* popd of another entry than the first: the shell stays where it is.
LEMMA PopdStays ==
  ASSUME world \in Worlds, IsSeq(dirstack), NEW arg, Chosen("popd", arg).ok, Kept(Chosen("popd", arg)),
         Chosen("popd", arg).dir \notin {0, 1}
  PROVE  LET i   == Chosen("popd", arg).dir
             got == cd_get_dest("popd", arg)
             new == NewOf("popd", arg)
         IN  /\ got.ok /\ got.cwd = cwd /\ new.new = pwd /\ IsSeq(new.s)
             /\ remnode(Stack, i) # << >> /\ remnode(Stack, i)[1] = pwd
             /\ new.s = Cut(Undoubled(Tail(remnode(Stack, i)), pwd))
  <1> DEFINE i == Chosen("popd", arg).dir
             got == cd_get_dest("popd", arg)
             out == remnode(Stack, i)
  <1>1. got.ok /\ got.s = Stack /\ got.dir = i /\ got.cwd = cwd
    BY GotOfExtraction DEF Kept
  <1>2. PICK E : Stack \in Seq(E)
    BY StackIs DEF IsSeq
  <1>3. i \in 2 .. Len(Stack)
    <2>1. i \in 0 .. Len(Stack) /\ i # 0 /\ i # 1
      BY DEF Kept
    <2>2. Len(Stack) \in Nat
      BY <1>2
    <2> HIDE DEF i
    <2> QED BY <2>1, <2>2
  <1> HIDE DEF i, got
  <1>4. LET new == cd_new_pwd("popd", Stack, i)
        IN  new.new = Stack[1] /\ new.s = Cut(Undoubled(Tail(remnode(Stack, i)), Stack[1]))
    BY <1>2, <1>3, NewOfExtraction
  <1>5. Stack[1] = pwd
    BY StackIs
  <1>6. i \in 1 .. Len(Stack) /\ 1 \in 1 .. Len(Stack) - 1 /\ 1 < i
    <2>1. Len(Stack) \in Nat
      BY <1>2
    <2> QED BY <1>3, <2>1
  <1>7. out \in Seq(E) /\ Len(out) = Len(Stack) - 1 /\ out[1] = Stack[1]
    BY <1>2, <1>6, RemovedIs
  <1>8. out # << >>
    BY <1>2, <1>6, <1>7, NotEmpty
  <1> HIDE DEF out
  <1>9. Tail(out) \in Seq(E)
    BY <1>7, <1>8, TailIs
  <1>10. IsSeq(Cut(Undoubled(Tail(out), pwd)))
    BY <1>9, CutIs, IsSeqIs
  <1>11. NewOf("popd", arg).new = pwd /\ NewOf("popd", arg).s = Cut(Undoubled(Tail(out), pwd))
    BY <1>1, <1>4, <1>5 DEF NewOf, got, out
  <1> QED BY <1>1, <1>5, <1>7, <1>8, <1>10, <1>11 DEF got, out, i

-----------------------------------------------------------------------------
(* What the manual means.                                                   *)

LEMMA GoesTo ==
  ASSUME NEW func, NEW arg, IsSeq(Meant(func, arg)), ~Stays(func, arg), Promised(func, arg) # << >>
  PROVE  LET P == Meant(func, arg)  Q == Promised(func, arg)
         IN  P # << >> /\ P[1] # None /\ Q[1] = Where(P, 1) /\ Tail(Q) = Tail(P)
  <1> DEFINE P == Meant(func, arg)
             Q == Promised(func, arg)
             to == Where(P, 1)
  <1>1. P # << >> /\ P[1] # None /\ Q = [P EXCEPT ![1] = cd_do_chdir(P[1]).to]
    BY DEF Promised
  <1>2. Changed(Q, P, 1, to)
    BY <1>1 DEF Changed, Where
  <1>3. PICK E : P \in Seq(E) /\ to \in E
    BY WithEntries
  <1> HIDE DEF P, Q, to
  <1>4. Len(P) \in Nat /\ Len(P) # 0
    BY <1>1, <1>3, NotEmpty
  <1>5. 1 \in 1 .. Len(P)
    BY <1>4
  <1>6. /\ Q \in Seq(E) /\ Len(Q) = Len(P)
        /\ Q[1] = to /\ remnode(Q, 1) = remnode(P, 1)
    BY <1>2, <1>3, <1>5, ChangedRemoved
  <1>7. Q # << >>
    BY <1>3, <1>4, <1>6, NotEmpty
  <1>8. Tail(Q) = Tail(P)
    BY <1>1, <1>3, <1>6, <1>7, FirstRemoved
  <1> QED BY <1>1, <1>6, <1>8 DEF P, Q, to

LEMMA FrontIs ==
  ASSUME NEW E, NEW s \in Seq(E), NEW d \in E, NEW t, t = <<d>> \o s
  PROVE  t \in Seq(E) /\ IsSeq(t) /\ t # << >> /\ t[1] = d /\ Tail(t) = s
  <1> DEFINE u == <<d>> \o s
  <1>1. u \in Seq(E) /\ u # << >> /\ u[1] = d /\ Tail(u) = s
    BY PushedIs
  <1>2. t = u
    OBVIOUS
  <1> HIDE DEF u
  <1> QED BY <1>1, <1>2, IsSeqIs

LEMMA EntryIs ==
  ASSUME NEW E, NEW s \in Seq(E), NEW i \in 1 .. Len(s)
  PROVE  s[i] \in E
  OBVIOUS

PlaceIn(c) == IF c.dir = 0 THEN 1 ELSE c.dir

LEMMA PlaceInIs ==
  ASSUME NEW c, IsSeq(c.s), c.s # << >>, c.dir \in 0 .. Len(c.s)
  PROVE  PlaceIn(c) \in 1 .. Len(c.s)
  <1>1. Len(c.s) \in Nat /\ Len(c.s) # 0
    BY NotEmpty DEF IsSeq
  <1> QED BY <1>1 DEF PlaceIn

LEMMA MeantByPushd ==
  ASSUME IsSeq(dirstack), NEW arg, arg.kind \in Kinds, Chosen("pushd", arg).ok
  PROVE  LET c == Chosen("pushd", arg)
         IN  Meant("pushd", arg) = rolllist(c.s, PlaceIn(c))
  <1> DEFINE c == Chosen("pushd", arg)
  <1>1. IsSeq(c.s)
    BY ChosenPlace
  <1>2. c.dir \in {0, 1} => rolllist(c.s, PlaceIn(c)) = c.s
    BY <1>1, NotRolled DEF IsSeq, PlaceIn
  <1>3. CASE arg.kind = "count"
    <2>1. c.s = Stack /\ c.dir = PlaceOf(arg, Stack) /\ c.dir # 0
      BY <1>3 DEF Chosen
    <2>2. PlaceOf(arg, Stack) \in 0 .. Len(Stack)
      BY StackIs, PlaceOfIs
    <2>3. PlaceOf(arg, Stack) > 0
      BY <2>1, <2>2
    <2>4. Meant("pushd", arg) = rolllist(Stack, PlaceOf(arg, Stack))
      BY <1>3, <2>3 DEF Meant, rolllist
    <2> QED BY <2>1, <2>4 DEF PlaceIn
  <1>4. CASE arg.kind # "count"
    <2>1. c.dir \in {0, 1} /\ Meant("pushd", arg) = c.s
      BY <1>4 DEF Chosen, Meant, Kinds
    <2> QED BY <1>2, <2>1
  <1> QED BY <1>3, <1>4

LEMMA MeantByCd ==
  ASSUME IsSeq(dirstack), NEW arg, arg.kind \in Kinds, Chosen("cd", arg).ok, Documented("cd", arg)
  PROVE  LET c == Chosen("cd", arg)
             P == Meant("cd", arg)
         IN  /\ IsSeq(P) /\ P # << >> /\ P[1] = c.s[PlaceIn(c)]
             /\ Tail(P) = Rest(remnode(c.s, PlaceIn(c)))
  <1> DEFINE c == Chosen("cd", arg)
             P == Meant("cd", arg)
  <1>0. IsSeq(Stack) /\ Stack # << >>
    BY StackIs
  <1>1. CASE arg.kind = "count"
    <2> DEFINE i == PlaceOf(arg, Stack)
               out == remnode(Stack, i)
    <2>1. c.s = Stack /\ c.dir = i /\ i # 0
      BY <1>1 DEF Chosen
    <2>2. i \in 0 .. Len(Stack)
      BY <1>0, PlaceOfIs
    <2>3. i # 1
      BY <1>1 DEF Documented
    <2>4. PICK E : Stack \in Seq(E)
      BY <1>0 DEF IsSeq
    <2> HIDE DEF i
    <2>5. i > 0 /\ i \in 1 .. Len(Stack) /\ Len(Stack) - 1 \in Nat /\ Len(Stack) - 1 # 0 /\ Stack[i] \in E
      <3>1. Len(Stack) \in Nat
        BY <2>4
      <3>2. i \in 1 .. Len(Stack) /\ i > 0 /\ i > 1
        BY <2>1, <2>2, <2>3, <3>1
      <3>3. Stack[i] \in E
        BY <2>4, <3>2, EntryIs
      <3>4. \A n \in Nat : \A k \in 1 .. n : k > 1 => n - 1 \in Nat /\ n - 1 # 0
        OBVIOUS
      <3>5. Len(Stack) - 1 \in Nat /\ Len(Stack) - 1 # 0
        BY <3>1, <3>2, <3>4
      <3> QED BY <3>2, <3>3, <3>5
    <2>6. out \in Seq(E) /\ Len(out) = Len(Stack) - 1
      BY <2>4, <2>5, RemovedIs
    <2>7. out # << >>
      BY <2>4, <2>5, <2>6, NotEmpty
    <2> HIDE DEF out
    <2>8. Rest(out) = IF Option("AUTOPUSHD") THEN out ELSE Tail(out)
      BY <2>7 DEF Rest
    <2>9. P = <<Stack[i]>> \o Rest(out)
      BY <1>1, <2>5, <2>8 DEF Meant, i, out
    <2>10. Rest(out) \in Seq(E)
      BY <2>6, RestIs
    <2>11. P \in Seq(E) /\ P # << >> /\ P[1] = Stack[i] /\ Tail(P) = Rest(out)
      BY <2>5, <2>9, <2>10, FrontIs
    <2>12. PlaceIn(c) = i
      BY <2>1 DEF PlaceIn
    <2> QED BY <2>1, <2>11, <2>12, IsSeqIs DEF out
  <1>2. CASE arg.kind # "count"
    <2>1. PICK d : PushedOn(c, d) /\ P = <<d>> \o (IF Option("AUTOPUSHD") THEN Stack ELSE Tail(Stack))
      <3>1. CASE arg.kind = "none"
        <4>1. PushedOn(c, home) /\ P = <<home>> \o (IF Option("AUTOPUSHD") THEN Stack ELSE Tail(Stack))
          BY <3>1 DEF Chosen, PushedOn, Meant
        <4> QED BY <4>1
      <3>2. CASE arg.kind = "dash"
        <4>1. PushedOn(c, oldpwd) /\ P = <<oldpwd>> \o (IF Option("AUTOPUSHD") THEN Stack ELSE Tail(Stack))
          BY <3>2 DEF Chosen, PushedOn, Meant
        <4> QED BY <4>1
      <3>3. CASE arg.kind = "dir"
        <4>1. PushedOn(c, arg.dir) /\ P = <<arg.dir>> \o (IF Option("AUTOPUSHD") THEN Stack ELSE Tail(Stack))
          BY <3>3 DEF Chosen, PushedOn, Meant
        <4> QED BY <4>1
      <3>4. CASE arg.kind = "subst"
        <4>1. /\ PushedOn(c, Substituted(arg))
              /\ P = <<Substituted(arg)>> \o (IF Option("AUTOPUSHD") THEN Stack ELSE Tail(Stack))
          BY <3>4 DEF Chosen, PushedOn, Meant
        <4> QED BY <4>1
      <3> QED BY <1>2, <3>1, <3>2, <3>3, <3>4 DEF Kinds
    <2>2. PICK E : Stack \in Seq(E) /\ d \in E
      BY <1>0, WithEntries
    <2>3. Rest(Stack) = IF Option("AUTOPUSHD") THEN Stack ELSE Tail(Stack)
      BY <1>0 DEF Rest
    <2>4. Rest(Stack) \in Seq(E)
      BY <2>2, RestIs
    <2>5. P = <<d>> \o Rest(Stack)
      BY <2>1, <2>3
    <2>6. IsSeq(P) /\ P # << >> /\ P[1] = d /\ Tail(P) = Rest(Stack)
      BY <2>2, <2>4, <2>5, FrontIs
    <2> DEFINE u == <<d>> \o Stack
    <2>7. u \in Seq(E) /\ u # << >> /\ u[1] = d /\ Tail(u) = Stack
      BY <2>2, PushedIs
    <2> HIDE DEF u
    <2>8. remnode(u, 1) = Stack
      BY <2>7, FirstRemoved
    <2>9. c.s = u /\ PlaceIn(c) = 1
      BY <2>1 DEF PushedOn, PlaceIn, u
    <2> HIDE DEF c, P
    <2> QED BY <2>6, <2>7, <2>8, <2>9 DEF c, P
  <1> QED BY <1>1, <1>2

-----------------------------------------------------------------------------
(* Promises are kept.                                                       *)

\* The directory that pushd and cd were asked for is the one they went to.
LEMMA PushdKeepsPromise ==
  ASSUME world \in Worlds, IsSeq(dirstack), NEW arg, arg.kind \in Kinds,
         Chosen("pushd", arg).ok,
         Where(Chosen("pushd", arg).s, PlaceIn(Chosen("pushd", arg))) # None
  PROVE  /\ \E to, rest : Went("pushd", arg, to, rest)
         /\ LET Q == Promised("pushd", arg) IN Q # << >> => Went("pushd", arg, Q[1], Tail(Q))
  <1> DEFINE c == Chosen("pushd", arg)
             at == PlaceIn(c)
             rolled == rolllist(c.s, at)
  <1>1. IsSeq(c.s) /\ c.s # << >> /\ c.dir \in 0 .. Len(c.s)
    BY ChosenPlace
  <1>2. at \in 1 .. Len(c.s)
    BY <1>1, PlaceInIs
  <1>3. Went("pushd", arg, Where(c.s, at), Tail(rolled))
    BY <1>1, <1>2, PushdGoes DEF PlaceIn
  <1>4. Meant("pushd", arg) = rolled
    BY MeantByPushd
  <1>5. PICK E : c.s \in Seq(E)
    BY <1>1 DEF IsSeq
  <1>6. rolled \in Seq(E) /\ rolled[1] = c.s[at]
    BY <1>2, <1>5, RolledFirst
  <1>7. Where(rolled, 1) = Where(c.s, at)
    BY <1>6 DEF Where
  <1>8. ~Stays("pushd", arg)
    BY DEF Stays
  <1> HIDE DEF c, at, rolled
  <1>9. IsSeq(Meant("pushd", arg))
    BY <1>4, <1>6, IsSeqIs
  <1>10. ASSUME Promised("pushd", arg) # << >>
         PROVE  /\ Promised("pushd", arg)[1] = Where(c.s, at)
                /\ Tail(Promised("pushd", arg)) = Tail(rolled)
    BY <1>4, <1>7, <1>8, <1>9, <1>10, GoesTo
  <1> QED BY <1>3, <1>10

LEMMA CdKeepsPromise ==
  ASSUME world \in Worlds, IsSeq(dirstack), NEW arg, arg.kind \in Kinds,
         Chosen("cd", arg).ok,
         Where(Chosen("cd", arg).s, PlaceIn(Chosen("cd", arg))) # None
  PROVE  /\ \E to, rest : Went("cd", arg, to, rest)
         /\ LET Q == Promised("cd", arg)
            IN  Documented("cd", arg) /\ Q # << >> => Went("cd", arg, Q[1], Tail(Q))
  <1> DEFINE c == Chosen("cd", arg)
             at == PlaceIn(c)
             rest == Rest(remnode(c.s, at))
             P == Meant("cd", arg)
  <1>1. IsSeq(c.s) /\ c.s # << >> /\ c.dir \in 0 .. Len(c.s)
    BY ChosenPlace
  <1>2. at \in 1 .. Len(c.s)
    BY <1>1, PlaceInIs
  <1>3. Went("cd", arg, Where(c.s, at), rest)
    BY <1>1, <1>2, CdGoes DEF PlaceIn
  <1>4. Documented("cd", arg) => IsSeq(P) /\ P[1] = c.s[at] /\ Tail(P) = rest
    BY MeantByCd
  <1>5. P[1] = c.s[at] => Where(P, 1) = Where(c.s, at)
    BY DEF Where
  <1>6. ~Stays("cd", arg)
    BY DEF Stays
  <1> HIDE DEF c, at, rest
  <1>7. ASSUME Documented("cd", arg), Promised("cd", arg) # << >>
        PROVE  /\ Promised("cd", arg)[1] = Where(c.s, at)
               /\ Tail(Promised("cd", arg)) = rest
    BY <1>4, <1>5, <1>6, <1>7, GoesTo
  <1> QED BY <1>3, <1>7

\* popd of the first entry goes to the next.
LEMMA PopdKeepsPromise ==
  ASSUME world \in Worlds, IsSeq(dirstack), NEW arg, arg.kind \in Kinds,
         Chosen("popd", arg).ok, Chosen("popd", arg).dir \in {0, 1},
         NEW at, at = IF Len(Chosen("popd", arg).s) = 1 THEN 1 ELSE 2,
         Where(Chosen("popd", arg).s, at) # None
  PROVE  /\ \E to, rest : Went("popd", arg, to, rest)
         /\ LET Q == Promised("popd", arg)
            IN  Documented("popd", arg) /\ Q # << >> => Went("popd", arg, Q[1], Tail(Q))
  <1> DEFINE c == Chosen("popd", arg)
             to == Where(c.s, at)
             P == Meant("popd", arg)
  <1>1. IsSeq(c.s) /\ c.s # << >>
    BY ChosenPlace
  <1>2. Went("popd", arg, to, IF Len(c.s) = 1 THEN << >> ELSE Tail(Tail(c.s)))
    BY <1>1, PopdGoes
  <1>3. ASSUME Documented("popd", arg)
        PROVE  /\ at = 2 /\ Len(c.s) # 1 /\ IsSeq(P) /\ P[1] = c.s[2] /\ Tail(P) = Tail(Tail(c.s))
               /\ ~Stays("popd", arg)
    <2>1. arg.kind \in {"none", "count"} /\ dirstack # << >>
      BY <1>3 DEF Documented
    <2>2. c.s = Stack
      BY <2>1 DEF Chosen
    <2>3. PICK E : Stack \in Seq(E)
      BY StackIs DEF IsSeq
    <2>4. Len(Stack) > 1 /\ Stack # << >>
      <3>1. Len(dirstack) \in Nat /\ Len(dirstack) # 0
        BY <2>1, NotEmpty DEF IsSeq
      <3>2. Len(Stack) = Len(dirstack) + 1 /\ Stack # << >>
        BY StackIs
      <3> QED BY <3>1, <3>2
    <2>5. P = remnode(Stack, 1) /\ ~Stays("popd", arg)
      <3>1. CASE arg.kind = "none"
        BY <3>1 DEF Meant, Stays
      <3>2. CASE arg.kind = "count"
        <4>1. PlaceOf(arg, Stack) = 1
          BY <3>2 DEF Chosen
        <4> QED BY <3>2, <4>1 DEF Meant, Stays
      <3> QED BY <2>1, <3>1, <3>2
    <2>6. P = Tail(Stack)
      BY <2>3, <2>4, <2>5, FirstRemoved
    <2>7. Tail(Stack) \in Seq(E) /\ Tail(Stack)[1] = Stack[2]
      BY <2>3, <2>4, TwiceTail
    <2>8. Len(c.s) # 1 /\ at = 2
      <3>1. Len(Stack) \in Nat
        BY <2>3, NotEmpty
      <3>2. \A n \in Nat : n > 1 => n # 1
        OBVIOUS
      <3>3. Len(Stack) # 1
        BY <2>4, <3>1, <3>2
      <3> QED BY <2>2, <3>3
    <2>9. IsSeq(P)
      BY <2>6, <2>7, IsSeqIs
    <2> HIDE DEF c, P
    <2> QED BY <2>2, <2>5, <2>6, <2>7, <2>8, <2>9
  <1>4. P[1] = c.s[2] /\ at = 2 => Where(P, 1) = to
    BY DEF Where
  <1> HIDE DEF c, to
  <1>5. ASSUME Documented("popd", arg), Promised("popd", arg) # << >>
        PROVE  /\ Promised("popd", arg)[1] = to
               /\ Tail(Promised("popd", arg)) = Tail(Tail(c.s))
    BY <1>3, <1>4, <1>5, GoesTo
  <1> QED BY <1>2, <1>3, <1>5

\* popd of another takes it out.
LEMMA PopdTakesOut ==
  ASSUME NEW arg, arg.kind \in Kinds, Chosen("popd", arg).ok, Documented("popd", arg),
         Chosen("popd", arg).dir \in 0 .. Len(Stack), Chosen("popd", arg).dir \notin {0, 1},
         remnode(Stack, Chosen("popd", arg).dir) # << >>
  PROVE  Promised("popd", arg) \in {<< >>, remnode(Stack, Chosen("popd", arg).dir)}
  <1> DEFINE i == PlaceOf(arg, Stack)
  <1>1. arg.kind = "count" /\ Chosen("popd", arg).dir = i
    BY DEF Chosen, Documented
  <1>2. i \in 0 .. Len(Stack) /\ i # 0 /\ i # 1
    BY <1>1
  <1> HIDE DEF i
  <1>3. i > 1 /\ i # 0
    BY <1>2
  <1>4. Stays("popd", arg) /\ Meant("popd", arg) = remnode(Stack, i)
    BY <1>1, <1>3 DEF Stays, Meant, i
  <1> QED BY <1>1, <1>4 DEF Promised

-----------------------------------------------------------------------------
(* Every command, whether it succeeds or fails.                             *)

\* What a command that fails leaves.
Left(s) == IF s = << >> THEN << >> ELSE Tail(s)

LEMMA LeftIs ==
  ASSUME NEW s, IsSeq(s)
  PROVE  IsSeq(Left(s))
  BY TailIs, NoneIsSeq DEF IsSeq, Left

LEMMA LeftOfStack ==
  ASSUME IsSeq(dirstack)
  PROVE  Left(Stack) = dirstack
  BY StackIs DEF Left

Swaps(func, arg) == func = "pushd" /\ arg.kind = "none" /\ ~Option("PUSHDTOHOME")

Places(func, arg) ==
  LET got == cd_get_dest(func, arg)
      new == NewOf(func, arg)
      Q   == Promised(func, arg)
      to  == IF Cased(new.new) \in dirs THEN Cased(new.new) ELSE got.cwd
  IN  /\ got.ok
      /\ IsSeq(new.s) /\ to = Cased(got.cwd) /\ to \in dirs
      /\ Documented(func, arg) /\ Q # << >> =>
           to = Cased(Q[1]) /\ new.s = Cut(Undoubled(Tail(Q), Q[1]))

Fails(func, arg) ==
  LET got == cd_get_dest(func, arg)
  IN  /\ ~got.ok /\ IsSeq(Left(got.s))
      /\ func # "popd" /\ ~Swaps(func, arg) => Left(got.s) = dirstack

LEMMA WentPlaces ==
  ASSUME NEW func, NEW arg,
         \E to, rest : Went(func, arg, to, rest),
         LET Q == Promised(func, arg)
         IN  Documented(func, arg) /\ Q # << >> => Went(func, arg, Q[1], Tail(Q))
  PROVE  Places(func, arg)
  <1> DEFINE got == cd_get_dest(func, arg)
             new == NewOf(func, arg)
             Q   == Promised(func, arg)
             go  == IF Cased(new.new) \in dirs THEN Cased(new.new) ELSE got.cwd
  <1>1. PICK to, rest : Went(func, arg, to, rest)
    OBVIOUS
  <1>2. got.ok /\ IsSeq(new.s) /\ got.cwd = to /\ new.new = to /\ Cased(to) \in dirs
    BY <1>1 DEF Went
  <1>3. go = Cased(got.cwd) /\ go \in dirs
    BY <1>2
  <1>4. ASSUME Documented(func, arg), Q # << >>
        PROVE  got.cwd = Q[1] /\ new.s = Cut(Undoubled(Tail(Q), Q[1]))
    BY <1>4 DEF Went
  <1> HIDE DEF got, new, Q
  <1>5. Documented(func, arg) /\ Q # << >> => go = Cased(Q[1]) /\ new.s = Cut(Undoubled(Tail(Q), Q[1]))
    BY <1>3, <1>4
  <1> QED BY <1>2, <1>3, <1>5 DEF Places, got, new, Q

LEMMA PushdAndCd ==
  ASSUME world \in Worlds, IsSeq(dirstack), NEW func \in {"pushd", "cd"}, NEW arg, arg.kind \in Kinds
  PROVE  Places(func, arg) \/ Fails(func, arg)
  <1> DEFINE c == Chosen(func, arg)
             got == cd_get_dest(func, arg)
             to == Where(c.s, PlaceIn(c))
  <1>1. IsSeq(c.s) /\ c.s # << >> /\ c.dir \in 0 .. Len(c.s)
    BY ChosenPlace
  <1>2. CASE c.ok /\ to # None
    <2>1. CASE func = "pushd"
      BY <1>2, <2>1, PushdKeepsPromise, WentPlaces
    <2>2. CASE func = "cd"
      BY <1>2, <2>2, CdKeepsPromise, WentPlaces
    <2> QED BY <2>1, <2>2
  <1>3. CASE ~c.ok \/ to = None
    <2>1. ~got.ok /\ got.s = IF c.ok /\ c.dir = 0 THEN Tail(c.s) ELSE c.s
      <3>1. CASE ~c.ok
        BY <3>1, GotOfError
      <3>2. CASE c.ok /\ to = None
        BY <3>2, GotOfCd DEF PlaceIn
      <3> QED BY <1>3, <3>1, <3>2
    <2>2. IsSeq(Tail(c.s))
      BY <1>1, TailIs DEF IsSeq
    <2>3. ASSUME ~Swaps(func, arg) PROVE got.s = Stack
      <3>1. CASE \E d : PushedOn(c, d)
        <4>1. PICK d : PushedOn(c, d)
          BY <3>1
        <4>2. PICK E : Stack \in Seq(E) /\ d \in E
          BY StackIs, WithEntries
        <4>3. c.ok /\ c.dir = 0 /\ c.s = <<d>> \o Stack
          BY <4>1 DEF PushedOn
        <4> HIDE DEF c, got
        <4>4. Tail(c.s) = Stack
          BY <4>2, <4>3, FrontIs
        <4> QED BY <2>1, <4>3, <4>4
      <3>2. CASE Kept(c) /\ (c.ok /\ func # "popd" => c.dir # 0)
        BY <2>1, <3>2 DEF Kept
      <3> QED BY <2>3, <3>1, <3>2, ChosenIs DEF Swaps
    <2> HIDE DEF c, got
    <2>4. IsSeq(Left(got.s))
      BY <1>1, <2>1, <2>2, LeftIs
    <2> QED BY <2>1, <2>3, <2>4, LeftOfStack DEF Fails, got
  <1> QED BY <1>2, <1>3

LEMMA PopdIs ==
  ASSUME world \in Worlds, IsSeq(dirstack), pwd = Cased(cwd), pwd \in dirs, Cased(pwd) = pwd,
         NEW arg, arg.kind \in Kinds
  PROVE  Places("popd", arg) \/ Fails("popd", arg)
  <1> DEFINE c == Chosen("popd", arg)
             got == cd_get_dest("popd", arg)
             at == IF Len(c.s) = 1 THEN 1 ELSE 2
             to == Where(c.s, at)
  <1>1. IsSeq(c.s) /\ c.s # << >> /\ c.dir \in 0 .. Len(c.s)
    BY ChosenPlace
  <1>2. CASE ~c.ok
    <2>1. ~got.ok /\ got.s = c.s
      BY <1>2, GotOfError
    <2> QED BY <1>1, <2>1, LeftIs DEF Fails
  <1>3. CASE c.ok /\ c.dir \in {0, 1} /\ to = None
    <2>1. ~got.ok /\ got.s = remnode(c.s, at)
      BY <1>3, GotOfPopd
    <2>2. IsSeq(remnode(c.s, at))
      <3> HIDE DEF c
      <3>1. PICK E : c.s \in Seq(E)
        BY <1>1 DEF IsSeq
      <3>2. Len(c.s) \in Nat /\ Len(c.s) # 0
        BY <1>1, <3>1, NotEmpty
      <3>3. at \in 1 .. Len(c.s)
        BY <3>2, PlaceIs
      <3> HIDE DEF at
      <3> QED BY <3>1, <3>3, RemovedIs, IsSeqIs
    <2> QED BY <2>1, <2>2, LeftIs DEF Fails
  <1>4. CASE c.ok /\ c.dir \in {0, 1} /\ to # None
    BY <1>4, PopdKeepsPromise, WentPlaces
  <1>5. CASE c.ok /\ c.dir \notin {0, 1}
    <2> DEFINE out == remnode(Stack, c.dir)
               Q == Promised("popd", arg)
    <2>1. Kept(c)
      <3>1. (\E d : PushedOn(c, d)) => c.dir = 0
        BY DEF PushedOn
      <3>2. Exchanged(c) => c.dir = 1
        BY DEF Exchanged
      <3> HIDE DEF c
      <3>3. (\E d : PushedOn(c, d)) \/ Exchanged(c) \/ Kept(c)
        BY ChosenIs DEF c
      <3> QED BY <1>5, <3>1, <3>2, <3>3
    <2>2. /\ got.ok /\ got.cwd = cwd /\ NewOf("popd", arg).new = pwd /\ IsSeq(NewOf("popd", arg).s)
          /\ out # << >> /\ out[1] = pwd
          /\ NewOf("popd", arg).s = Cut(Undoubled(Tail(out), pwd))
      BY <1>5, <2>1, PopdStays
    <2>3. c.dir \in 0 .. Len(Stack)
      BY <2>1 DEF Kept
    <2>4. Documented("popd", arg) /\ Q # << >> => Q = out
      BY <1>5, <2>2, <2>3, PopdTakesOut
    <2> HIDE DEF out, Q
    <2>5. Documented("popd", arg) /\ Q # << >> =>
            pwd = Cased(Q[1]) /\ NewOf("popd", arg).s = Cut(Undoubled(Tail(Q), Q[1]))
      BY <2>2, <2>4
    <2> QED BY <2>2, <2>5 DEF Places, Q
  <1> QED BY <1>2, <1>3, <1>4, <1>5

-----------------------------------------------------------------------------
(* The invariant.                                                           *)

\* The directory is one that the disk spells so, and exists while the shell is in it.
StackInv ==
  /\ world \in Worlds /\ dirs \subseteq world.dirs
  /\ IsSeq(dirstack)
  /\ pwd = Cased(cwd) /\ pwd \in dirs
  /\ StackIsAsPromised

LEMMA TildeFollows ==
  ASSUME IsSeq(dirstack)
  PROVE  TildeNamesEntries
  <1> DEFINE S == <<pwd>> \o dirstack
             n == Len(dirstack)
  <1>1. S = Stack
    BY DEF Stack
  <1>2. IsSeq(S) /\ Len(S) = n + 1 /\ S[1] = pwd /\ \A j \in 1 .. n : S[j + 1] = dirstack[j]
    BY StackIs, <1>1
  <1>3. n \in Nat /\ DOMAIN dirstack = 1 .. n /\ DOMAIN S = 1 .. n + 1
    <2>1. n \in Nat /\ DOMAIN dirstack = 1 .. n
      BY DEF IsSeq
    <2>2. DOMAIN S = 1 .. Len(S)
      BY <1>2 DEF IsSeq
    <2> QED BY <1>2, <2>1, <2>2
  <1> HIDE DEF S, n
  <1>4. ASSUME NEW ch \in {"+", "-"}, NEW val \in 0 .. Len(S)
        PROVE  LET i == PlaceOf([sign |-> ch, n |-> val], S)
               IN  dstackent(ch, val) = IF i = 0 THEN None ELSE S[i]
    <2> DEFINE back == ~((ch = "+") # Option("PUSHDMINUS"))
               k == IF back THEN n - val ELSE val
               i == PlaceOf([sign |-> ch, n |-> val], S)
    <2>1. val \in Nat /\ k \in Int
      BY <1>2, <1>3
    <2>2. back = (ch = (IF Option("PUSHDMINUS") THEN "+" ELSE "-"))
      <3>1. CASE ch = "+"
        BY <3>1 DEF Option
      <3>2. CASE ch = "-"
        BY <3>2 DEF Option
      <3> QED BY <3>1, <3>2
    <2>3. dstackent(ch, val) = IF k = 0 THEN pwd ELSE IF k \in DOMAIN dirstack THEN dirstack[k] ELSE None
      BY <2>2 DEF dstackent, n
    <2>4. i = IF k + 1 \in DOMAIN S THEN k + 1 ELSE 0
      <3>1. CASE back
        <4>1. i = IF Len(S) - val \in DOMAIN S THEN Len(S) - val ELSE 0
          BY <3>1 DEF PlaceOf
        <4>2. Len(S) - val = k + 1
          BY <1>2, <1>3, <2>1, <3>1
        <4> QED BY <4>1, <4>2
      <3>2. CASE ~back
        <4>1. i = IF val + 1 \in DOMAIN S THEN val + 1 ELSE 0
          BY <3>2 DEF PlaceOf
        <4> QED BY <3>2, <4>1
      <3> QED BY <3>1, <3>2
    <2> HIDE DEF k, i
    <2>5. CASE k = 0
      <3>1. i = 1
        BY <1>3, <2>4, <2>5
      <3> QED BY <1>2, <2>3, <2>5, <3>1 DEF i
    <2>6. CASE k \in 1 .. n
      <3>1. i = k + 1 /\ i # 0 /\ k # 0
        BY <1>3, <2>4, <2>6
      <3>2. S[i] = dirstack[k]
        BY <1>2, <2>6, <3>1
      <3>3. dstackent(ch, val) = dirstack[k]
        BY <1>3, <2>3, <2>6, <3>1
      <3> QED BY <3>1, <3>2, <3>3 DEF i
    <2>7. CASE k \notin 0 .. n
      <3>1. k + 1 \notin 1 .. n + 1 /\ k # 0 /\ k \notin 1 .. n
        BY <1>3, <2>1, <2>7
      <3>2. i = 0 /\ dstackent(ch, val) = None
        BY <1>3, <2>3, <2>4, <3>1
      <3> QED BY <3>2 DEF i
    <2>8. k = 0 \/ k \in 1 .. n \/ k \notin 0 .. n
      BY <1>3
    <2> QED BY <2>5, <2>6, <2>7, <2>8
  <1> QED BY <1>4 DEF TildeNamesEntries, S

LEMMA StackInitially ==
  ASSUME DirectoriesInit
  PROVE  StackInv
  <1>1. world \in Worlds /\ dirs = world.dirs /\ pwd = world.home /\ cwd = world.home
    BY DEF DirectoriesInit
  <1>2. pwd \in dirs /\ pwd = Cased(cwd)
    BY <1>1, WorldsAssumption DEF Cased
  <1>3. dirstack = << >> /\ did.func = "none"
    BY DEF DirectoriesInit
  <1>4. IsSeq(dirstack)
    BY <1>3, NoneIsSeq, IsSeqIs
  <1>5. StackIsAsPromised
    BY <1>3 DEF StackIsAsPromised
  <1> QED BY <1>1, <1>2, <1>4, <1>5 DEF StackInv

LEMMA ArgumentsAre ==
  ASSUME world \in Worlds, NEW arg \in world.args
  PROVE  arg.kind \in Kinds
  BY WorldsAssumption DEF Kinds

\* The property in the next state, as the commands see it.
LEMMA PromiseNext ==
  ASSUME world' = world,
         LET P == did'.promised
             S == <<pwd'>> \o dirstack'
         IN  did'.func # "none" =>
               /\ did'.ok /\ P # << >> => S = <<Cased(P[1])>> \o Cut(Undoubled(Tail(P), P[1]))
               /\ ~did'.ok /\ did'.func # "popd" /\ ~Swaps(did'.func, did'.arg) => S = did'.stack
  PROVE  StackIsAsPromised'
  BY DEF StackIsAsPromised, Cased, Cut, Undoubled, Option, Swaps

LEMMA CommandKeepsStack ==
  ASSUME StackInv, NEW func \in {"cd", "pushd", "popd"}, NEW arg \in world.args, bin_cd(func, arg)
  PROVE  StackInv'
  <1> DEFINE got == cd_get_dest(func, arg)
             new == NewOf(func, arg)
             Q == IF Documented(func, arg) THEN Promised(func, arg) ELSE << >>
  <1>1. world \in Worlds /\ arg.kind \in Kinds
    BY ArgumentsAre DEF StackInv
  <1>2. Cased(pwd) = pwd
    BY WorldsAssumption DEF StackInv, Cased
  <1>3. Places(func, arg) \/ Fails(func, arg)
    BY <1>1, <1>2, PushdAndCd, PopdIs DEF StackInv
  <1>4. /\ world' = world /\ dirs' = dirs
        /\ did' = [func |-> func, arg |-> arg, ok |-> got.ok, stack |-> Stack, promised |-> Q]
    BY DEF bin_cd
  <1>5. got.ok =>
          /\ pwd' = IF Cased(new.new) \in dirs THEN Cased(new.new) ELSE got.cwd
          /\ cwd' = got.cwd /\ dirstack' = new.s
    BY DEF bin_cd, NewOf
  <1>6. ~got.ok => pwd' = pwd /\ cwd' = cwd /\ dirstack' = Left(got.s)
    BY DEF bin_cd, Left
  <1> HIDE DEF got, new, Q
  <1>7. /\ did'.func = func /\ did'.arg = arg /\ did'.ok = got.ok
        /\ did'.stack = Stack /\ did'.promised = Q
    BY <1>4
  <1>8. CASE Places(func, arg)
    <2>1. /\ got.ok /\ IsSeq(new.s) /\ pwd' = Cased(got.cwd) /\ pwd' \in dirs
          /\ Q # << >> => pwd' = Cased(Q[1]) /\ new.s = Cut(Undoubled(Tail(Q), Q[1]))
      BY <1>5, <1>8 DEF Places, got, new, Q
    <2>2. /\ IsSeq(dirstack') /\ pwd' = Cased(cwd')
          /\ Q # << >> => <<pwd'>> \o dirstack' = <<Cased(Q[1])>> \o Cut(Undoubled(Tail(Q), Q[1]))
      BY <1>5, <2>1
    <2>3. StackIsAsPromised'
      BY <1>4, <1>7, <2>1, <2>2, PromiseNext
    <2> QED BY <1>4, <2>1, <2>2, <2>3 DEF StackInv, Cased
  <1>9. CASE Fails(func, arg)
    <2>1. /\ ~got.ok /\ IsSeq(Left(got.s))
          /\ func # "popd" /\ ~Swaps(func, arg) => Left(got.s) = dirstack
      BY <1>9 DEF Fails, got
    <2>2. /\ IsSeq(dirstack') /\ pwd' = pwd /\ cwd' = cwd
          /\ func # "popd" /\ ~Swaps(func, arg) => <<pwd'>> \o dirstack' = Stack
      BY <1>6, <2>1 DEF Stack
    <2>3. StackIsAsPromised'
      BY <1>4, <1>7, <2>1, <2>2, PromiseNext
    <2> QED BY <1>4, <2>2, <2>3 DEF StackInv, Cased
  <1> QED BY <1>3, <1>8, <1>9

LEMMA OthersKeepStack ==
  ASSUME StackInv, did'.func = "none", world' = world, dirs' \subseteq dirs, pwd \in dirs',
         cwd' = cwd, pwd' = pwd, IsSeq(dirstack')
  PROVE  StackInv'
  BY DEF StackInv, StackIsAsPromised, Cased

LEMMA StackKept ==
  ASSUME StackInv, [DirectoriesNext]_DirectoriesVars
  PROVE  StackInv'
  <1>1. ASSUME NEW func \in {"cd", "pushd", "popd"}, NEW arg \in world.args, bin_cd(func, arg)
        PROVE  StackInv'
    BY <1>1, CommandKeepsStack
  <1>2. ASSUME NEW list \in world.lists, bin_dirs(list)
        PROVE  StackInv'
    <2>1. list \in Seq(Seq(DOMAIN Disk))
      BY WorldsAssumption DEF StackInv
    <2>2. IsSeq(list)
      BY <2>1, IsSeqIs
    <2>3. /\ did'.func = "none" /\ world' = world /\ dirs' = dirs /\ pwd' = pwd /\ cwd' = cwd
          /\ dirstack' = list
      BY <1>2 DEF bin_dirs
    <2> QED BY <2>2, <2>3, OthersKeepStack DEF StackInv
  <1>3. ASSUME Elsewhere
        PROVE  StackInv'
    <2>1. /\ did'.func = "none" /\ world' = world /\ dirs' = dirs /\ pwd' = pwd /\ cwd' = cwd
          /\ dirstack' = dirstack
      BY <1>3 DEF Elsewhere
    <2> QED BY <2>1, OthersKeepStack DEF StackInv
  <1>4. ASSUME NEW d \in world.gone, Vanish(d)
        PROVE  StackInv'
    <2>1. /\ did'.func = "none" /\ world' = world /\ pwd' = pwd /\ cwd' = cwd /\ dirstack' = dirstack
          /\ dirs' \subseteq dirs /\ pwd \in dirs'
      BY <1>4 DEF Vanish, StackInv
    <2> QED BY <2>1, OthersKeepStack DEF StackInv
  <1>5. ASSUME UNCHANGED DirectoriesVars
        PROVE  StackInv'
    BY <1>5 DEF DirectoriesVars, StackInv, StackIsAsPromised, Cased, Cut, Undoubled, Option
  <1>6. ASSUME NEW n, NEW t, strsetfn(n, t) \/ hash_d(n, t) \/ Tilde(n) \/ unhash_d(n)
        PROVE  Elsewhere
    BY <1>6 DEF strsetfn, hash_d, Tilde, unhash_d
  <1>7. ASSUME NEW t, hash_dr \/ finddir(pwd) \/ homesetfn(t)
        PROVE  Elsewhere
    BY <1>7 DEF hash_dr, finddir, homesetfn
  <1> QED BY <1>1, <1>2, <1>3, <1>4, <1>5, <1>6, <1>7 DEF DirectoriesNext

\* After any commands the stack is the one of the manual, +n and ~+n agree, and PWD is
\* where the shell is: builtin.c's cd_get_dest(), cd_do_chdir() and cd_new_pwd().
THEOREM StackIsTheManuals == DirectoriesSpec => []StackMeansWhatItSays
  <1>1. StackInv => StackMeansWhatItSays
    BY TildeFollows DEF StackInv, StackMeansWhatItSays, ShellIsAtPwd
  <1>2. DirectoriesInit => StackInv
    BY StackInitially
  <1>3. StackInv /\ [DirectoriesNext]_DirectoriesVars => StackInv'
    BY StackKept
  <1> QED BY <1>1, <1>2, <1>3, PTL DEF DirectoriesSpec
=============================================================================
