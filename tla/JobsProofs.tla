----------------------------- MODULE JobsProofs -----------------------------
(***************************************************************************)
(* Proofs about job control (Jobs), for every size of the job table, every *)
(* set of process ids and every set of builtins, with and without NOTIFY,  *)
(* from JobsAssumption alone.                                              *)
(*                                                                         *)
(* The order of the proof: what each function of jobs.c makes of a table   *)
(* (Cleans, Judged); the inductive invariant IInv; the types, the control  *)
(* and the last slot, action by action (Shape); the entries and their      *)
(* processes (EntriesOK, Distinct, ForkOK, SignalOK); the theorems.        *)
(***************************************************************************)
EXTENDS Jobs, WellFoundedInduction, TLAPS

\* Induction on the natural numbers, for a property given as a set.
LEMMA SetInduction ==
  ASSUME NEW S, 0 \in S, \A n \in Nat : n \in S => n + 1 \in S
  PROVE  Nat \subseteq S
<1> DEFINE T == Nat \ S
           R == OpToRel(<, Nat)
<1>1. SUFFICES ASSUME T # {} PROVE FALSE
  OBVIOUS
<1>2. IsWellFoundedOn(R, Nat)
  BY NatLessThanWellFounded
<1>3. \A x, y \in Nat : <<y, x>> \in R <=> y < x
  BY DEF OpToRel
<1> HIDE DEF R
<1>4. PICK x \in T : \A y \in T : ~(<<y, x>> \in R)
  BY <1>1, <1>2, WFMin
<1>5. x \in Nat /\ x # 0
  OBVIOUS
<1>6. x - 1 \in Nat /\ x - 1 < x
  BY <1>5
<1>7. <<x - 1, x>> \in R
  BY <1>3, <1>5, <1>6
<1>8. x - 1 \in S
  BY <1>4, <1>6, <1>7
<1>9. x - 1 + 1 \in S
  BY <1>6, <1>8
<1> QED BY <1>5, <1>9

\* A set of slots that is not empty has a lowest and a highest slot.
LEMMA SlotsAreFew ==
  ASSUME NEW S \in SUBSET Slots, S # {}
  PROVE  /\ \E i \in S : \A k \in S : i <= k
         /\ \E i \in S : \A k \in S : k <= i
<1> DEFINE P == {n \in Nat : \A X \in SUBSET (1 .. n) : X # {} =>
                   /\ \E i \in X : \A k \in X : i <= k
                   /\ \E i \in X : \A k \in X : k <= i}
<1>1. 0 \in P
  <2>1. \A X \in SUBSET (1 .. 0) : X = {}
    OBVIOUS
  <2> QED BY <2>1
<1>2. ASSUME NEW n \in Nat, n \in P PROVE n + 1 \in P
  <2> SUFFICES ASSUME NEW X \in SUBSET (1 .. n + 1), X # {}
               PROVE  /\ \E i \in X : \A k \in X : i <= k
                      /\ \E i \in X : \A k \in X : k <= i
    OBVIOUS
  <2> DEFINE Y == X \ {n + 1}
  <2>1. Y \in SUBSET (1 .. n)
    OBVIOUS
  <2>2. CASE Y = {}
    <3>1. X = {n + 1}
      BY <2>2
    <3> QED BY <3>1
  <2>3. CASE Y # {}
    <3>1. /\ \E i \in Y : \A k \in Y : i <= k
          /\ \E i \in Y : \A k \in Y : k <= i
      BY <1>2, <2>1, <2>3
    <3>2. \A k \in Y : k <= n + 1 /\ k \in Int
      BY <2>1
    <3> HIDE DEF Y
    <3>3. X = Y \/ X = Y \cup {n + 1}
      BY DEF Y
    <3> QED BY <3>1, <3>2, <3>3
  <2> QED BY <2>2, <2>3
<1> HIDE DEF P
<1>3. Nat \subseteq P
  BY <1>1, <1>2, SetInduction
<1>4. MAXJOB - 1 \in P
  BY <1>3, JobsAssumption
<1> QED BY <1>4 DEF P, Slots

Steps(n, A) == [1 .. n -> [A -> A]]
Iterates(n, A, a, step) ==
  \E f \in [0 .. n -> A] : f[0] = a /\ \A j \in 1 .. n : f[j] = step[j][f[j - 1]]

\* n steps from a can be taken one after the other without leaving A.
LEMMA Iteration ==
  ASSUME NEW n \in Nat, NEW A, NEW a \in A, NEW step \in Steps(n, A)
  PROVE  Iterates(n, A, a, step)
<1> DEFINE Good(m, f) == f[0] = a /\ \A j \in 1 .. m : f[j] = step[j][f[j - 1]]
           P == {m \in Nat : m <= n => \E f \in [0 .. m -> A] : Good(m, f)}
<1>1. 0 \in P
  <2> DEFINE f == [j \in 0 .. 0 |-> a]
  <2>1. f \in [0 .. 0 -> A] /\ f[0] = a
    OBVIOUS
  <2>2. Good(0, f)
    BY <2>1
  <2> QED BY <2>1, <2>2
<1>2. ASSUME NEW m \in Nat, m \in P PROVE m + 1 \in P
  <2> SUFFICES ASSUME m + 1 <= n PROVE \E f \in [0 .. m + 1 -> A] : Good(m + 1, f)
    OBVIOUS
  <2>1. PICK f \in [0 .. m -> A] : Good(m, f)
    BY <1>2
  <2> DEFINE g == [j \in 0 .. m + 1 |-> IF j = m + 1 THEN step[m + 1][f[m]] ELSE f[j]]
  <2>2. step[m + 1][f[m]] \in A
    <3>1. step[m + 1] \in [A -> A] /\ f[m] \in A
      BY DEF Steps
    <3> QED BY <3>1
  <2>3. g \in [0 .. m + 1 -> A]
    BY <2>2
  <2>4. g[0] = a /\ \A j \in 0 .. m : g[j] = f[j]
    BY <2>1
  <2>5. g[m + 1] = step[m + 1][g[m]]
    BY <2>4
  <2>6. ASSUME NEW j \in 1 .. m + 1 PROVE g[j] = step[j][g[j - 1]]
    <3>1. CASE j = m + 1
      BY <3>1, <2>5
    <3>2. CASE j # m + 1
      <4>1. j \in 1 .. m /\ j \in 0 .. m /\ j - 1 \in 0 .. m
        BY <3>2
      <4> HIDE DEF g
      <4> QED BY <4>1, <2>1, <2>4
    <3> QED BY <3>1, <3>2
  <2> HIDE DEF g
  <2> QED BY <2>3, <2>4, <2>6
<1> HIDE DEF P
<1>3. Nat \subseteq P
  BY <1>1, <1>2, SetInduction
<1>4. n \in P
  BY <1>3
<1> QED BY <1>4 DEF P, Iterates

-----------------------------------------------------------------------------
(* What the functions of jobs.c do to a table. *)

Tables ==
  [tab : [Slots -> Job], this : Slots \cup {None}, cur : Slots \cup {None},
   prev : Slots \cup {None}, val2 : Slots \cup {0}]

\* U is T after jobs that are done were forgotten and marks were removed.
Cleans(T, U) ==
  /\ U.this = T.this
  /\ \A j \in Slots :
       /\ U.tab[j].stat \subseteq T.tab[j].stat
       /\ \/ U.tab[j].procs = T.tab[j].procs
          \/ U.tab[j].procs = <<>> /\ "DONE" \in T.tab[j].stat

Cleaned(T) == {U \in Tables : Cleans(T, U)}

\* An element of a sequence.
LEMMA SeqElement ==
  ASSUME NEW S, NEW s \in Seq(S), NEW i \in DOMAIN s
  PROVE  DOMAIN s = 1 .. Len(s) /\ Len(s) \in Nat /\ i \in 1 .. Len(s) /\ s[i] \in S
OBVIOUS

\* An entry of a table is a process id with a status.
LEMMA TypedEntry ==
  ASSUME NEW tab \in [Slots -> Job], NEW j \in Slots, NEW i \in DOMAIN tab[j].procs
  PROVE  /\ DOMAIN tab[j].procs = 1 .. Len(tab[j].procs) /\ Len(tab[j].procs) \in Nat
         /\ i \in 1 .. Len(tab[j].procs)
         /\ tab[j].procs[i] \in Process
         /\ tab[j].procs[i].pid \in Pids /\ tab[j].procs[i].status \in ProcStatus
<1>1. tab[j].procs \in Seq(Process)
  BY DEF Job
<1>2. /\ DOMAIN tab[j].procs = 1 .. Len(tab[j].procs) /\ Len(tab[j].procs) \in Nat
      /\ i \in 1 .. Len(tab[j].procs) /\ tab[j].procs[i] \in Process
  BY <1>1, SeqElement
<1> QED BY <1>2 DEF Process

\* Cleaning twice is cleaning.
LEMMA CleansChain ==
  ASSUME NEW T \in Tables, NEW U \in Tables, NEW V \in Tables, Cleans(T, U), Cleans(U, V)
  PROVE  Cleans(T, V)
<1>1. ASSUME NEW j \in Slots
      PROVE  /\ V.tab[j].stat \subseteq T.tab[j].stat
             /\ \/ V.tab[j].procs = T.tab[j].procs
                \/ V.tab[j].procs = <<>> /\ "DONE" \in T.tab[j].stat
  BY DEF Cleans
<1> QED BY <1>1 DEF Cleans

\* A table is clean of itself.
LEMMA NothingCleaned == ASSUME NEW T \in Tables PROVE Cleans(T, T)
BY DEF Cleans

\* deletejob() empties one slot.
LEMMA Zeroed ==
  ASSUME NEW T \in Tables, NEW j \in Slots
  PROVE  /\ deletejob(T, j) \in Tables
         /\ deletejob(T, j).this = T.this
         /\ deletejob(T, j).tab[j] = zero
         /\ \A k \in Slots \ {j} : deletejob(T, j).tab[k] = T.tab[k]
<1>1. zero \in Job
  BY DEF zero, Job, Flags
<1> QED BY <1>1 DEF deletejob, Tables

\* Marks are added to one job, or taken from it, which is cleaning.
LEMMA Marked ==
  ASSUME NEW T \in Tables, NEW j \in Slots, NEW f \in SUBSET Flags
  PROVE  /\ Set(T, j, f) \in Tables
         /\ Set(T, j, f).this = T.this
         /\ Set(T, j, f).tab[j].stat = T.tab[j].stat \cup f
         /\ Set(T, j, f).tab[j].procs = T.tab[j].procs
         /\ \A k \in Slots \ {j} : Set(T, j, f).tab[k] = T.tab[k]
         /\ Clear(T, j, f) \in Cleaned(T)
<1>1. [T.tab[j] EXCEPT !.stat = @ \cup f] \in Job /\ [T.tab[j] EXCEPT !.stat = @ \ f] \in Job
  BY DEF Tables, Job
<1>2. /\ [T.tab[j] EXCEPT !.stat = @ \cup f].stat = T.tab[j].stat \cup f
      /\ [T.tab[j] EXCEPT !.stat = @ \cup f].procs = T.tab[j].procs
  BY DEF Tables, Job
<1>3. Set(T, j, f) \in Tables /\ Clear(T, j, f) \in Tables
  BY <1>1 DEF Set, Clear, Tables
<1>4. Set(T, j, f).tab[j] = [T.tab[j] EXCEPT !.stat = @ \cup f]
  BY DEF Set, Tables
<1>5. Cleans(T, Clear(T, j, f))
  BY DEF Cleans, Clear, Tables, Job
<1> QED BY <1>2, <1>3, <1>4, <1>5 DEF Cleaned, Set, Tables

\* What the two CHOOSE of setprevjob() find.
LEMMA HighestOf ==
  ASSUME NEW S \in SUBSET Slots, S # {}
  PROVE  (CHOOSE i \in S : \A k \in S : k <= i) \in S
BY SlotsAreFew

\* setprevjob() moves prevjob to a job in use, other than curjob and thisjob.
LEMMA PrevjobSet ==
  ASSUME NEW T \in Tables
  PROVE  /\ setprevjob(T) \in Cleaned(T)
         /\ setprevjob(T).tab = T.tab
         /\ setprevjob(T).cur = T.cur
         /\ LET p == setprevjob(T).prev IN
              p # None => InUse(T, p) /\ p \in Slots /\ p # T.this /\ p # T.cur
<1> DEFINE others == {i \in Slots \ {T.cur, T.this} : InUse(T, i)}
           stopped == {i \in others : IsStopped(T, i)}
           pick == IF stopped # {} THEN CHOOSE i \in stopped : \A k \in stopped : k <= i
                   ELSE IF others # {} THEN CHOOSE i \in others : \A k \in others : k <= i
                   ELSE None
<1>1. setprevjob(T) = [T EXCEPT !.prev = pick]
  BY DEF setprevjob
<1>2. others \in SUBSET Slots /\ stopped \in SUBSET others
  OBVIOUS
<1> HIDE DEF others, stopped
<1>3. pick \in others \/ pick = None
  BY <1>2, HighestOf
<1> HIDE DEF pick
<1>4. setprevjob(T) \in Tables
  BY <1>1, <1>2, <1>3 DEF Tables
<1>5. Cleans(T, setprevjob(T))
  BY <1>1 DEF Tables, Cleans
<1> QED BY <1>1, <1>3, <1>4, <1>5 DEF others, Cleaned, Tables

\* printjob() cleans the table: only a job that is done is deleted.
LEMMA Printed ==
  ASSUME NEW T \in Tables, NEW j \in Slots
  PROVE  printjob(T, j) \in Cleaned(T)
<1>1. CASE "DONE" \notin Stat(T, j)
  <2>1. printjob(T, j) = Clear(T, j, {"CHANGED"})
    BY <1>1 DEF printjob
  <2> QED BY <2>1, Marked DEF Flags
<1>2. CASE "DONE" \in Stat(T, j)
  <2> DEFINE gone == deletejob(T, j)
             moved == IF j = T.cur THEN [gone EXCEPT !.cur = T.prev, !.prev = j] ELSE gone
  <2>1. printjob(T, j) = IF j = moved.prev THEN setprevjob(moved) ELSE moved
    BY <1>2 DEF printjob
  <2>2. gone \in Tables /\ Cleans(T, gone)
    BY <1>2, Zeroed DEF Cleans, zero, Stat
  <2> HIDE DEF gone
  <2>3. moved \in Tables /\ Cleans(T, moved)
    BY <2>2 DEF Tables, Cleans
  <2> HIDE DEF moved
  <2>4. setprevjob(moved) \in Tables /\ Cleans(T, setprevjob(moved))
    BY <2>3, PrevjobSet, CleansChain DEF Cleaned
  <2> QED BY <2>1, <2>3, <2>4 DEF Cleaned
<1> QED BY <1>1, <1>2

\* The two loops over the table; each step is printjob() or nothing.
LEMMA Loop ==
  ASSUME NEW T \in Tables, NEW step \in [Slots -> [Cleaned(T) -> Cleaned(T)]]
  PROVE  \E f \in [0 .. MAXJOB - 1 -> Cleaned(T)] :
           f = [j \in 0 .. MAXJOB - 1 |-> IF j = 0 THEN T ELSE step[j][f[j - 1]]]
<1>1. PICK n \in Nat : n = MAXJOB - 1
  BY JobsAssumption
<1>2. PICK A : A = Cleaned(T)
  OBVIOUS
<1>3. step \in Steps(n, A) /\ T \in A
  BY <1>1, <1>2, NothingCleaned DEF Slots, Cleaned, Steps
<1>4. PICK f \in [0 .. n -> A] : f[0] = T /\ \A j \in 1 .. n : f[j] = step[j][f[j - 1]]
  BY <1>3, Iteration DEF Iterates
<1>5. \A j \in 0 .. n : f[j] = IF j = 0 THEN T ELSE step[j][f[j - 1]]
  BY <1>4
<1>6. f = [j \in 0 .. n |-> IF j = 0 THEN T ELSE step[j][f[j - 1]]]
  BY <1>5
<1> QED BY <1>1, <1>2, <1>6

\* ... whatever was printed before it.
LEMMA PrintedAgain ==
  ASSUME NEW T \in Tables, NEW S \in Cleaned(T), NEW j \in Slots
  PROVE  printjob(S, j) \in Cleaned(T)
<1>1. S \in Tables /\ Cleans(T, S)
  BY DEF Cleaned
<1>2. printjob(S, j) \in Tables /\ Cleans(S, printjob(S, j))
  BY <1>1, Printed DEF Cleaned
<1> QED BY <1>1, <1>2, CleansChain DEF Cleaned

\* scanjobs() cleans the table.
LEMMA JobsScanned ==
  ASSUME NEW T \in Tables
  PROVE  scanjobs(T) \in Cleaned(T)
<1> DEFINE n == MAXJOB - 1
           next(S, j) == IF "CHANGED" \in Stat(S, j) THEN printjob(S, j) ELSE S
           step == [j \in Slots |-> [S \in Cleaned(T) |-> next(S, j)]]
           Eq(f) == f = [j \in 0 .. n |-> IF j = 0 THEN T ELSE next(f[j - 1], j)]
           g == CHOOSE f : Eq(f)
<1>0. n \in Nat /\ Slots = 1 .. n /\ T \in Cleaned(T)
  BY NothingCleaned, JobsAssumption DEF Cleaned, Slots
<1>1. \A j \in Slots, S \in Cleaned(T) : next(S, j) \in Cleaned(T)
  BY PrintedAgain
<1> HIDE DEF next
<1>2. step \in [Slots -> [Cleaned(T) -> Cleaned(T)]]
  BY <1>1
<1>3. \A j \in Slots, S \in Cleaned(T) : step[j][S] = next(S, j)
  OBVIOUS
<1> HIDE DEF step
<1>4. PICK f \in [0 .. n -> Cleaned(T)] :
         f = [j \in 0 .. n |-> IF j = 0 THEN T ELSE step[j][f[j - 1]]]
  BY <1>2, Loop
<1>5. \A j \in 0 .. n : f[j] = IF j = 0 THEN T ELSE next(f[j - 1], j)
  BY <1>0, <1>3, <1>4
<1>6. Eq(f)
  BY <1>4, <1>5
<1>7. Eq(g)
  BY <1>6
<1> HIDE DEF g
<1> DEFINE P == {m \in Nat : m <= n => g[m] \in Cleaned(T)}
<1>8. 0 \in P
  BY <1>0, <1>7
<1>9. ASSUME NEW m \in Nat, m \in P PROVE m + 1 \in P
  BY <1>0, <1>1, <1>7, <1>9
<1> HIDE DEF P
<1>10. n \in P
  BY <1>0, <1>8, <1>9, SetInduction
<1>11. g[n] \in Cleaned(T)
  BY <1>0, <1>10 DEF P
<1> QED BY <1>11 DEF scanjobs, g, next

\* So does the builtin jobs.
LEMMA JobsListed ==
  ASSUME NEW T \in Tables
  PROVE  Listed(T) \in Cleaned(T)
<1> DEFINE n == MAXJOB - 1
           next(S, j) == IF j # S.this /\ Stat(S, j) # {} THEN printjob(S, j) ELSE S
           step == [j \in Slots |-> [S \in Cleaned(T) |-> next(S, j)]]
           Eq(f) == f = [j \in 0 .. n |-> IF j = 0 THEN T ELSE next(f[j - 1], j)]
           g == CHOOSE f : Eq(f)
<1>0. n \in Nat /\ Slots = 1 .. n /\ T \in Cleaned(T)
  BY NothingCleaned, JobsAssumption DEF Cleaned, Slots
<1>1. \A j \in Slots, S \in Cleaned(T) : next(S, j) \in Cleaned(T)
  BY PrintedAgain
<1> HIDE DEF next
<1>2. step \in [Slots -> [Cleaned(T) -> Cleaned(T)]]
  BY <1>1
<1>3. \A j \in Slots, S \in Cleaned(T) : step[j][S] = next(S, j)
  OBVIOUS
<1> HIDE DEF step
<1>4. PICK f \in [0 .. n -> Cleaned(T)] :
         f = [j \in 0 .. n |-> IF j = 0 THEN T ELSE step[j][f[j - 1]]]
  BY <1>2, Loop
<1>5. \A j \in 0 .. n : f[j] = IF j = 0 THEN T ELSE next(f[j - 1], j)
  BY <1>0, <1>3, <1>4
<1>6. Eq(f)
  BY <1>4, <1>5
<1>7. Eq(g)
  BY <1>6
<1> HIDE DEF g
<1> DEFINE P == {m \in Nat : m <= n => g[m] \in Cleaned(T)}
<1>8. 0 \in P
  BY <1>0, <1>7
<1>9. ASSUME NEW m \in Nat, m \in P PROVE m + 1 \in P
  BY <1>0, <1>1, <1>7, <1>9
<1> HIDE DEF P
<1>10. n \in P
  BY <1>0, <1>8, <1>9, SetInduction
<1>11. g[n] \in Cleaned(T)
  BY <1>0, <1>10 DEF P
<1> QED BY <1>11 DEF Listed, g, next

\* setcurjob() leaves a suitable current job, or none.
LEMMA CurjobSet ==
  ASSUME NEW T \in Tables
  PROVE  /\ setcurjob(T) \in Cleaned(T)
         /\ LET c == setcurjob(T).cur IN c # None => InUse(setcurjob(T), c) /\ c # T.this
<1>1. ASSUME NEW S \in Cleaned(T)
      PROVE  /\ PrevBecomesCur(S) \in Cleaned(T)
             /\ PrevBecomesCur(S).cur = S.prev
             /\ LET p == PrevBecomesCur(S).prev IN
                  p # None => p \in Slots /\ InUse(PrevBecomesCur(S), p) /\ p # S.this
  <2> DEFINE R == [S EXCEPT !.cur = S.prev]
  <2>1. R \in Tables /\ Cleans(T, R) /\ R.cur = S.prev /\ R.this = S.this
    BY DEF Cleaned, Cleans, Tables
  <2>2. PrevBecomesCur(S) = setprevjob(R)
    BY DEF PrevBecomesCur
  <2> HIDE DEF R
  <2>3. /\ setprevjob(R) \in Tables /\ Cleans(R, setprevjob(R))
        /\ setprevjob(R).cur = S.prev
        /\ setprevjob(R).tab = R.tab
    BY <2>1, PrevjobSet DEF Cleaned
  <2>4. setprevjob(R) \in Cleaned(T)
    BY <2>1, <2>3, CleansChain DEF Cleaned
  <2>5. LET p == setprevjob(R).prev IN p # None => p \in Slots /\ InUse(R, p) /\ p # S.this
    BY <2>1, PrevjobSet
  <2> QED BY <2>2, <2>3, <2>4, <2>5 DEF InUse, Stat
<1> DEFINE once == IF Unsuitable(T) THEN PrevBecomesCur(T) ELSE T
<1>2. T \in Cleaned(T)
  BY NothingCleaned DEF Cleaned
<1>3. CASE ~ Unsuitable(T)
  BY <1>2, <1>3 DEF setcurjob, Unsuitable
<1>4. CASE Unsuitable(T) /\ ~ Unsuitable(once)
  <2> DEFINE U == PrevBecomesCur(T)
  <2>1. setcurjob(T) = U /\ ~ Unsuitable(U) /\ U \in Cleaned(T)
    BY <1>1, <1>2, <1>4 DEF setcurjob
  <2> HIDE DEF U
  <2> QED BY <2>1 DEF Unsuitable, Cleaned, Cleans
<1>5. CASE Unsuitable(T) /\ Unsuitable(once)
  <2> DEFINE U == PrevBecomesCur(T)
             V == PrevBecomesCur(U)
  <2>1. setcurjob(T) = V
    BY <1>5 DEF setcurjob
  <2>2. U \in Cleaned(T) /\ (U.prev # None => U.prev \in Slots /\ InUse(U, U.prev) /\ U.prev # T.this)
    BY <1>1, <1>2
  <2> HIDE DEF U
  <2>3. V \in Cleaned(T) /\ V.cur = U.prev
    BY <1>1, <2>2
  <2>4. V.tab = U.tab
    <3> DEFINE R == [U EXCEPT !.cur = U.prev]
    <3>1. R \in Tables /\ R.tab = U.tab
      BY <2>2 DEF Cleaned, Tables
    <3>2. V = setprevjob(R)
      BY DEF PrevBecomesCur
    <3> HIDE DEF R, V
    <3> QED BY <3>1, <3>2, PrevjobSet
  <2>5. V.this = T.this /\ T.this \in Slots \cup {None}
    BY <2>3 DEF Cleaned, Cleans, Tables
  <2> HIDE DEF V
  <2>6. None \notin Slots
    BY DEF None, Slots
  <2> QED BY <2>1, <2>2, <2>3, <2>4, <2>5, <2>6 DEF Unsuitable, InUse, Stat
<1> QED BY <1>3, <1>4, <1>5

-----------------------------------------------------------------------------
Ended == {"exited", "killed"}
EndedJob(jn) == \A i \in DOMAIN jn.procs : jn.procs[i].status \in Ended

\* U is T after a verdict on job j.
Judged(T, U, j) ==
  /\ U.this = T.this
  /\ \A k \in Slots \ {j} :
       /\ U.tab[k].stat \subseteq T.tab[k].stat
       /\ \/ U.tab[k].procs = T.tab[k].procs
          \/ U.tab[k].procs = <<>> /\ "DONE" \in T.tab[k].stat
  /\ \/ U.tab[j].procs = T.tab[j].procs
     \/ U.tab[j].procs = <<>> /\ ("DONE" \in T.tab[j].stat \/ EndedJob(T.tab[j]))
  /\ "DONE" \in U.tab[j].stat => "DONE" \in T.tab[j].stat \/ EndedJob(T.tab[j])

\* update_job() gives a job that has no running process its verdict.
LEMMA Updated ==
  ASSUME NEW T \in Tables, NEW j \in Slots
  PROVE  update_job(T, j) \in Tables /\ Judged(T, update_job(T, j), j)
<1> DEFINE jn == T.tab[j]
           some == "stopped" \in Statuses(jn)
           valued == [T EXCEPT !.val2 = j]
           flags == {"CHANGED", IF some THEN "STOPPED" ELSE "DONE"}
           marked == Set(valued, j, flags)
           current == IF "DONE" \in Stat(marked, j) THEN marked
                      ELSE [marked EXCEPT !.prev = T.cur, !.cur = j]
<1>1. T \in Tables /\ Judged(T, T, j)
  BY DEF Judged
<1>2. \/ update_job(T, j) = T
      \/ "running" \notin Statuses(jn)
         /\ (update_job(T, j) = current \/ update_job(T, j) = printjob(current, j))
  <2>1. CASE "running" \in Statuses(jn)
    BY <2>1 DEF update_job
  <2>2. CASE some /\ IsStopped(T, j)
    BY <2>2 DEF update_job
  <2>3. CASE "running" \notin Statuses(jn) /\ ~ (some /\ IsStopped(T, j))
    BY <2>3 DEF update_job
  <2> QED BY <2>1, <2>2, <2>3
<1>3. SUFFICES ASSUME "running" \notin Statuses(jn)
               PROVE  /\ current \in Tables /\ Judged(T, current, j)
                      /\ printjob(current, j) \in Tables /\ Judged(T, printjob(current, j), j)
  BY <1>1, <1>2
<1>4. ~ some => EndedJob(jn)
  <2> SUFFICES ASSUME ~ some, NEW i \in DOMAIN jn.procs PROVE jn.procs[i].status \in Ended
    BY DEF EndedJob
  <2>1. jn.procs[i].status \in ProcStatus
    BY TypedEntry DEF Tables
  <2>2. jn.procs[i].status \in Statuses(jn)
    BY DEF Statuses
  <2> QED BY <1>3, <2>1, <2>2 DEF ProcStatus, Ended
<1>5. valued \in Tables /\ valued.this = T.this /\ valued.tab = T.tab
  BY DEF Tables
<1>6. flags \in SUBSET Flags
  BY DEF Flags
<1>7. "DONE" \in flags => EndedJob(jn)
  BY <1>4
<1> HIDE DEF valued, flags, some
<1>8. /\ marked \in Tables /\ marked.this = T.this
      /\ marked.tab[j].stat = jn.stat \cup flags
      /\ marked.tab[j].procs = jn.procs
      /\ \A k \in Slots \ {j} : marked.tab[k] = T.tab[k]
  BY <1>5, <1>6, Marked
<1> HIDE DEF marked
<1>9. current \in Tables /\ current.this = T.this /\ current.tab = marked.tab
  BY <1>8 DEF Tables
<1> HIDE DEF current
<1>10. Judged(T, current, j)
  BY <1>7, <1>8, <1>9 DEF Judged
<1>11. printjob(current, j) \in Tables /\ Cleans(current, printjob(current, j))
  BY <1>9, Printed DEF Cleaned
<1>12. Judged(T, printjob(current, j), j)
  BY <1>10, <1>11 DEF Judged, Cleans
<1> QED BY <1>9, <1>10, <1>11, <1>12

\* No two entries of the table have the same process id.
DistinctIn(tab) ==
  \A j, k \in Slots : \A i \in DOMAIN tab[j].procs, l \in DOMAIN tab[k].procs :
    tab[j].procs[i].pid = tab[k].procs[l].pid => j = k /\ i = l

\* findproc() finds the entry of a process.
LEMMA Found ==
  ASSUME NEW T \in Tables, DistinctIn(T.tab),
         NEW j \in Slots, NEW i \in DOMAIN T.tab[j].procs
  PROVE  findproc(T, T.tab[j].procs[i].pid) = j
<1> DEFINE p == T.tab[j].procs[i].pid
<1>1. Holders(T, p) = {j}
  BY DEF Holders, PidsOf, DistinctIn
<1>2. j <= j
  BY JobsAssumption DEF Slots
<1> QED BY <1>1, <1>2 DEF findproc

\* update_process() changes one status (V), then update_job() judges its job.
LEMMA ReapedTable ==
  ASSUME NEW T \in Tables, DistinctIn(T.tab),
         NEW j \in Slots, NEW i \in DOMAIN T.tab[j].procs, NEW status \in ProcStatus
  PROVE  \E V \in Tables :
           /\ V.this = T.this
           /\ \A k \in Slots \ {j} : V.tab[k] = T.tab[k]
           /\ V.tab[j].stat = T.tab[j].stat
           /\ DOMAIN V.tab[j].procs = DOMAIN T.tab[j].procs
           /\ \A l \in DOMAIN T.tab[j].procs :
                /\ V.tab[j].procs[l].pid = T.tab[j].procs[l].pid
                /\ V.tab[j].procs[l].status = IF l = i THEN status ELSE T.tab[j].procs[l].status
           /\ Reaped(T, T.tab[j].procs[i].pid, status) \in Tables
           /\ Judged(V, Reaped(T, T.tab[j].procs[i].pid, status), j)
<1> DEFINE p == T.tab[j].procs[i].pid
           P(l) == /\ T.tab[j].procs[l].pid = p
                   /\ \A k \in 1 .. l - 1 : T.tab[j].procs[k].pid # p
           first == CHOOSE l \in DOMAIN T.tab[j].procs : P(l)
           V == [T EXCEPT !.tab[j].procs[i].status = status]
<1>0. DOMAIN T.tab[j].procs = 1 .. Len(T.tab[j].procs) /\ Len(T.tab[j].procs) \in Nat
  BY DEF Tables, Job
<1>1. \A l \in DOMAIN T.tab[j].procs : T.tab[j].procs[l].pid = p => l = i
  BY DEF DistinctIn
<1>2. P(i)
  <2>1. \A k \in 1 .. i - 1 : k \in DOMAIN T.tab[j].procs /\ k # i
    BY <1>0
  <2> QED BY <1>1, <2>1
<1>3. first \in DOMAIN T.tab[j].procs /\ P(first)
  BY <1>2
<1>4. first = i
  BY <1>1, <1>3
<1>5. Reaped(T, p, status) = update_job([T EXCEPT !.tab[j].procs[first].status = status], j)
  <2>1. findproc(T, p) = j
    BY Found
  <2> QED BY <2>1 DEF Reaped
<1> HIDE DEF first
<1>6. V \in Tables
  <2> DEFINE q == T.tab[j].procs
             e == [q[i] EXCEPT !.status = status]
  <2>1. q \in Seq(Process) /\ T.tab[j] \in Job
    BY DEF Tables, Job
  <2>2. e \in Process
    <3>1. q[i] \in Process
      BY TypedEntry DEF Tables
    <3> QED BY <3>1 DEF Process
  <2> HIDE DEF e
  <2>3. [q EXCEPT ![i] = e] \in Seq(Process)
    BY <1>0, <2>1, <2>2
  <2>4. [T.tab[j] EXCEPT !.procs = [q EXCEPT ![i] = e]] \in Job
    BY <2>1, <2>3 DEF Job
  <2>5. V = [T EXCEPT !.tab[j] = [T.tab[j] EXCEPT !.procs = [q EXCEPT ![i] = e]]]
    BY DEF e, Tables
  <2> QED BY <2>4, <2>5 DEF Tables
<1>7. /\ V.this = T.this
      /\ \A k \in Slots \ {j} : V.tab[k] = T.tab[k]
      /\ V.tab[j].stat = T.tab[j].stat
      /\ DOMAIN V.tab[j].procs = DOMAIN T.tab[j].procs
      /\ \A l \in DOMAIN T.tab[j].procs :
           /\ V.tab[j].procs[l].pid = T.tab[j].procs[l].pid
           /\ V.tab[j].procs[l].status = IF l = i THEN status ELSE T.tab[j].procs[l].status
  BY <1>0 DEF Tables, Job
<1> HIDE DEF V
<1> QED BY <1>4, <1>5, <1>6, <1>7, Updated DEF V

\* A job put in the background, or deleted if it has no processes.
LEMMA Spawned ==
  ASSUME NEW T \in Tables, T.this \in Slots
  PROVE  /\ spawnjob(T) \in Tables
         /\ \A k \in Slots \ {T.this} : spawnjob(T).tab[k] = T.tab[k]
         /\ spawnjob(T).tab[T.this].procs = T.tab[T.this].procs
         /\ T.tab[T.this].procs = <<>> => spawnjob(T).tab[T.this] = zero
         /\ spawnjob(T).tab[T.this].stat \subseteq T.tab[T.this].stat \cup {"LOCKED"}
<1> DEFINE j == T.this
           cur == [T EXCEPT !.cur = j]
           shuffled == IF ~ IsStopped(T, T.cur) THEN setprevjob(cur)
                       ELSE IF ~ IsStopped(T, T.prev) THEN [T EXCEPT !.prev = j] ELSE T
           kept == IF T.tab[j].procs = <<>> THEN deletejob(shuffled, j)
                   ELSE Set(shuffled, j, {"LOCKED"})
<1>1. spawnjob(T) = [kept EXCEPT !.this = None]
  BY DEF spawnjob
<1>2. cur \in Tables /\ cur.tab = T.tab
  BY DEF Tables
<1> HIDE DEF cur
<1>3. setprevjob(cur) \in Tables /\ setprevjob(cur).tab = T.tab
  BY <1>2, PrevjobSet DEF Cleaned
<1>4. shuffled \in Tables /\ shuffled.tab = T.tab
  BY <1>3 DEF Tables
<1> HIDE DEF shuffled
<1>5. /\ kept \in Tables
      /\ \A k \in Slots \ {j} : kept.tab[k] = T.tab[k]
      /\ kept.tab[j].procs = T.tab[j].procs
      /\ T.tab[j].procs = <<>> => kept.tab[j] = zero
      /\ kept.tab[j].stat \subseteq T.tab[j].stat \cup {"LOCKED"}
  <2>1. CASE T.tab[j].procs = <<>>
    BY <1>4, <2>1, Zeroed DEF zero
  <2>2. CASE T.tab[j].procs # <<>>
    <3>1. {"LOCKED"} \in SUBSET Flags
      BY DEF Flags
    <3> QED BY <1>4, <2>2, <3>1, Marked
  <2> QED BY <2>1, <2>2
<1> HIDE DEF kept
<1> QED BY <1>1, <1>5 DEF Tables

\* makerunning() changes the entries that are stopped, and them only.
LEMMA MadeRunning ==
  ASSUME NEW T \in Tables, NEW j \in Slots
  PROVE  LET M == makerunning(T, j) IN
         /\ M \in Tables /\ M.this = T.this
         /\ \A k \in Slots \ {j} : M.tab[k] = T.tab[k]
         /\ M.tab[j].stat \subseteq T.tab[j].stat
         /\ DOMAIN M.tab[j].procs = DOMAIN T.tab[j].procs
         /\ \A l \in DOMAIN T.tab[j].procs :
              /\ M.tab[j].procs[l].pid = T.tab[j].procs[l].pid
              /\ M.tab[j].procs[l].status = IF T.tab[j].procs[l].status = "stopped" THEN "running"
                                            ELSE T.tab[j].procs[l].status
<1> DEFINE q == T.tab[j].procs
           run(e) == IF e.status = "stopped" THEN [e EXCEPT !.status = "running"] ELSE e
           r == [i \in DOMAIN q |-> run(q[i])]
           jn == [T.tab[j] EXCEPT !.stat = @ \ {"STOPPED"}, !.procs = r]
           M == [T EXCEPT !.tab[j] = jn]
<1>1. makerunning(T, j) = M
  BY DEF makerunning, Tables
<1>2. q \in Seq(Process) /\ DOMAIN q = 1 .. Len(q) /\ Len(q) \in Nat /\ T.tab[j] \in Job
  BY DEF Tables, Job
<1>3. \A i \in DOMAIN q :
        /\ run(q[i]) \in Process
        /\ run(q[i]).pid = q[i].pid
        /\ run(q[i]).status = IF q[i].status = "stopped" THEN "running" ELSE q[i].status
  <2> SUFFICES ASSUME NEW i \in DOMAIN q
               PROVE  /\ run(q[i]) \in Process
                      /\ run(q[i]).pid = q[i].pid
                      /\ run(q[i]).status = IF q[i].status = "stopped" THEN "running" ELSE q[i].status
    OBVIOUS
  <2>1. q[i] \in Process
    BY TypedEntry DEF Tables
  <2>2. "running" \in ProcStatus
    BY DEF ProcStatus
  <2> QED BY <2>1, <2>2 DEF Process
<1> HIDE DEF run
<1>4. r \in Seq(Process) /\ DOMAIN r = DOMAIN q
  BY <1>2, <1>3
<1>5. \A i \in DOMAIN q : r[i] = run(q[i])
  OBVIOUS
<1> HIDE DEF r
<1>6. jn \in Job /\ jn.stat \subseteq T.tab[j].stat /\ jn.procs = r
  BY <1>2, <1>4 DEF Job
<1> HIDE DEF jn
<1>7. /\ M \in Tables /\ M.this = T.this
      /\ \A k \in Slots \ {j} : M.tab[k] = T.tab[k]
      /\ M.tab[j] = jn
  BY <1>6 DEF Tables
<1> HIDE DEF M
<1> QED BY <1>1, <1>3, <1>4, <1>5, <1>6, <1>7

\* The changes of curjob and prevjob in bin_fg() clean the table.
LEMMA Shuffled ==
  ASSUME NEW T \in Tables, NEW j \in Slots
  PROVE  Shuffle(T, j) \in Cleaned(T)
<1> DEFINE left == IF T.cur = j THEN [T EXCEPT !.cur = T.prev,
                                               !.prev = IF cmd.op = "bg" THEN None ELSE j] ELSE T
           prev == IF left.prev \in {j, None} THEN setprevjob(left) ELSE left
           cur  == [prev EXCEPT !.cur = prev.prev]
<1>1. Shuffle(T, j) = IF prev.cur = None THEN setprevjob(cur) ELSE prev
  BY DEF Shuffle, PrevBecomesCur
<1>2. left \in Tables /\ Cleans(T, left)
  BY DEF Tables, Cleans
<1> HIDE DEF left
<1>3. prev \in Tables /\ Cleans(T, prev)
  BY <1>2, PrevjobSet, CleansChain DEF Cleaned
<1> HIDE DEF prev
<1>4. cur \in Tables /\ Cleans(T, cur)
  BY <1>3 DEF Tables, Cleans
<1> HIDE DEF cur
<1>5. setprevjob(cur) \in Tables /\ Cleans(T, setprevjob(cur))
  BY <1>4, PrevjobSet, CleansChain DEF Cleaned
<1> QED BY <1>1, <1>3, <1>5 DEF Cleaned

\* What fg, bg and wait make of job j; M is the table with the job running.
LEMMA ResumedTable ==
  ASSUME NEW T \in Tables, NEW j \in Slots
  PROVE  LET M == IF IsStopped(T, j) THEN makerunning(T, j) ELSE T
             U == Resumed(T, j)
         IN /\ U \in Tables
            /\ U.this = IF cmd.op = "fg" THEN j ELSE T.this
            /\ \A k \in Slots :
                 /\ \/ U.tab[k].procs = M.tab[k].procs
                    \/ U.tab[k].procs = <<>> /\ "DONE" \in M.tab[k].stat
                 /\ U.tab[k].stat \subseteq
                      M.tab[k].stat \cup IF cmd.op = "bg" /\ k = j THEN {"NOSTTY"} ELSE {}
<1> DEFINE M == IF IsStopped(T, j) THEN makerunning(T, j) ELSE T
           shuffled == Shuffle(M, j)
           printed == IF cmd.op = "wait" THEN shuffled ELSE printjob(shuffled, j)
<1>1. Resumed(T, j) = CASE cmd.op = "bg" -> Set(printed, j, {"NOSTTY"})
                        [] cmd.op = "fg" -> [printed EXCEPT !.this = j]
                        [] OTHER -> printed
  BY DEF Resumed
<1>2. M \in Tables /\ M.this = T.this
  BY MadeRunning
<1> HIDE DEF M
<1>3. shuffled \in Tables /\ Cleans(M, shuffled)
  BY <1>2, Shuffled DEF Cleaned
<1> HIDE DEF shuffled
<1>4. printed \in Tables /\ Cleans(M, printed)
  BY <1>2, <1>3, Printed, CleansChain DEF Cleaned
<1> HIDE DEF printed
<1>5. CASE cmd.op = "bg"
  <2> DEFINE U == Set(printed, j, {"NOSTTY"})
  <2>1. {"NOSTTY"} \in SUBSET Flags
    BY DEF Flags
  <2>2. /\ U \in Tables /\ U.this = printed.this
        /\ U.tab[j].stat = printed.tab[j].stat \cup {"NOSTTY"}
        /\ U.tab[j].procs = printed.tab[j].procs
        /\ \A k \in Slots \ {j} : U.tab[k] = printed.tab[k]
    BY <1>4, <2>1, Marked
  <2>3. Resumed(T, j) = U
    BY <1>1, <1>5
  <2> HIDE DEF U
  <2> QED BY <1>2, <1>4, <1>5, <2>2, <2>3 DEF Cleans, M
<1>6. CASE cmd.op = "fg"
  <2> DEFINE U == [printed EXCEPT !.this = j]
  <2>1. U \in Tables /\ U.this = j /\ U.tab = printed.tab
    BY <1>4 DEF Tables
  <2>2. Resumed(T, j) = U
    BY <1>1, <1>6
  <2> HIDE DEF U
  <2> QED BY <1>2, <1>4, <1>6, <2>1, <2>2 DEF Cleans, M
<1>7. CASE cmd.op \notin {"bg", "fg"}
  <2>1. Resumed(T, j) = printed
    BY <1>1, <1>7
  <2> QED BY <1>2, <1>4, <1>7, <2>1 DEF Cleans, M
<1> QED BY <1>5, <1>6, <1>7

-----------------------------------------------------------------------------
(* The inductive invariant. *)

AtTop == {"prompt", "scan", "printed", "idle"}
Constructing == {"build", "substread", "substasleep", "forked"}
Sleeping == {"waittest", "suspend", "asleep", "waitover", "return"}
Waiting == {"wait"} \cup Sleeping
Places == AtTop \cup Constructing \cup Waiting \cup {"builtin", "launch", "waitall"}
Callers == {"execpline", "fg", "wait", "waitall"}

WaitArgs == [job : Slots \cup {0}, int : BOOLEAN, caller : {"none"} \cup Callers]

\* Where the command line is, and what its variables then mean.
ControlOK ==
  /\ pc \in Places
  /\ wait \in WaitArgs
  /\ pc \in {"scan", "printed"} \cup Waiting => wait.job \in Slots
  /\ pc \in Waiting => wait.caller \in Callers
  /\ pc \in Constructing \cup {"builtin", "launch", "waitall"} => thisjob = newjob
  /\ pc \in Waiting /\ wait.caller # "fg" => thisjob = newjob
  /\ pc = "wait" /\ wait.caller = "execpline" => wait.job = newjob
  /\ pc \in Constructing => cmd.op = "run" /\ cmd.left > 0
  /\ pc = "builtin" => cmd.op # "run"

\* No entry of the table is for process p.
Absent(p) == \A j \in Slots : \A i \in DOMAIN jobtab[j].procs : jobtab[j].procs[i].pid # p

\* Between fork() and addproc() nobody waits for the process, and it is in no entry.
ForkOK ==
  /\ pc = "forked" =>
       /\ mask = "blocked" /\ inhandler = FALSE
       /\ thisjob < MAXJOB - 1
       /\ pid \in Pids /\ pid # cmdoutpid
       /\ child[pid] \notin {"unborn", "gone"}
       /\ child[pid] = "stopped" => pid \in unreported
       /\ Absent(pid)
  /\ pc = "substread" => pid \in Pids
  /\ cmdoutpid # NoPid => child[cmdoutpid] # "unborn" /\ Absent(cmdoutpid)

\* What an entry tells of its process.
EntriesOK ==
  \A j \in Slots : \A i \in DOMAIN jobtab[j].procs :
    LET e == jobtab[j].procs[i] IN
    /\ child[e.pid] # "unborn"
    /\ e.status \in Ended <=> child[e.pid] = "gone"
    /\ e.status = "running" /\ child[e.pid] = "stopped" => e.pid \in unreported
    /\ "DONE" \in jobtab[j].stat => e.status \in Ended

Distinct == DistinctIn(jobtab)

\* The last slot never gets a process, and is free again before the next line.
LastSlot ==
  LET last == jobtab[MAXJOB - 1] IN
  /\ last.procs = <<>>
  /\ last.stat \subseteq {"INUSE", "CURSH"}
  /\ last.stat # {} => /\ newjob = MAXJOB - 1
                      /\ pc \notin AtTop
                      /\ ~ (pc \in Sleeping /\ wait.caller = "execpline")

SignalOK == \A p \in Pids : Waitable(p) => sigchld = TRUE \/ inhandler = TRUE

IInv == TypeOK /\ ControlOK /\ ForkOK /\ EntriesOK /\ Distinct /\ LastSlot /\ SignalOK

-----------------------------------------------------------------------------
\* The slots and the values that are none.
LEMMA Constants ==
  /\ MAXJOB \in Nat /\ MAXJOB - 1 \in Slots /\ 1 \in Slots
  /\ None \notin Slots /\ 0 \notin Slots /\ Slots \subseteq Nat
  /\ \A j \in Slots : j <= MAXJOB - 1 /\ j + 1 \in Nat
BY JobsAssumption DEF Slots, None

\* The arguments of waitjob().
LEMMA WaitTyped ==
  ASSUME NEW j \in Slots, NEW b \in BOOLEAN, NEW c \in Callers
  PROVE  /\ [job |-> j, int |-> b, caller |-> c] \in WaitArgs
         /\ [job |-> j, int |-> b, caller |-> c].job = j
         /\ [job |-> j, int |-> b, caller |-> c].caller = c
BY DEF WaitArgs

Others ==
  /\ errflag \in BOOLEAN /\ inhandler \in BOOLEAN /\ sigchld \in BOOLEAN
  /\ cmdoutpid \in Pids \cup {NoPid} /\ pid \in Pids \cup {NoPid}
  /\ mask \in {"open", "blocked", "suspend"}
  /\ cmd \in Command
  /\ newjob \in Slots
  /\ child \in [Pids -> {"unborn", "running", "stopped", "exited", "killed", "gone"}]
  /\ unreported \subseteq {p \in Pids : child[p] = "stopped"}

\* The type invariant: the table as a value, and the rest.
LEMMA TypeParts ==
  /\ TypeOK <=> Table \in Tables /\ Others
  /\ Table.tab = jobtab /\ Table.this = thisjob /\ Table.cur = curjob
  /\ Table.prev = prevjob /\ Table.val2 = lastval2
BY DEF TypeOK, Others, Table, Tables

\* The table after a step that replaces it.
LEMMA NewTable ==
  ASSUME NEW T \in Tables, Becomes(T), Others'
  PROVE  TypeOK' /\ jobtab' = T.tab /\ thisjob' = T.this
BY DEF Becomes, Tables, TypeOK, Others

Disowning == cmd.op = "disown" \/ (cmd.op = "run" /\ cmd.how = "disown")

\* The table only lost jobs that are done or disowned, and marks.
Fewer ==
  \A k \in Slots :
    /\ \/ jobtab'[k].procs = jobtab[k].procs
       \/ jobtab'[k].procs = <<>> /\ ("DONE" \in jobtab[k].stat \/ Disowning)
    /\ "DONE" \in jobtab'[k].stat => "DONE" \in jobtab[k].stat

\* An invariant of all entries outlives the loss of some.
LEMMA FewerEntries ==
  ASSUME Fewer, UNCHANGED <<child, unreported>>, EntriesOK, Distinct
  PROVE  EntriesOK' /\ Distinct' /\ \A p : Absent(p) => Absent(p)'
<1>1. DOMAIN <<>> = {}
  OBVIOUS
<1>2. \A k \in Slots : \A i \in DOMAIN jobtab'[k].procs :
        i \in DOMAIN jobtab[k].procs /\ jobtab'[k].procs[i] = jobtab[k].procs[i]
  BY <1>1 DEF Fewer
<1>3. EntriesOK'
  BY <1>2 DEF EntriesOK, Fewer
<1>4. Distinct'
  BY <1>2 DEF Distinct, DistinctIn
<1>5. \A p : Absent(p) => Absent(p)'
  BY <1>2 DEF Absent
<1> QED BY <1>3, <1>4, <1>5

\* A step that cleans the table.
LEMMA CleanedTable ==
  ASSUME TypeOK, NEW T \in Cleaned(Table), Becomes(T), LastSlot
  PROVE  /\ Fewer /\ thisjob' = thisjob
         /\ jobtab'[MAXJOB - 1].procs = <<>>
         /\ jobtab'[MAXJOB - 1].stat \subseteq jobtab[MAXJOB - 1].stat
<1>1. T \in Tables /\ Cleans(Table, T) /\ Table.tab = jobtab /\ Table.this = thisjob
  BY TypeParts DEF Cleaned
<1>2. jobtab' = T.tab /\ thisjob' = T.this
  BY DEF Becomes
<1> QED BY <1>1, <1>2, Constants DEF Cleans, Fewer, LastSlot

\* The table at the start of bin_fg().
LEMMA ScannedTable ==
  ASSUME TypeOK
  PROVE  /\ Scanned \in Cleaned(Table)
         /\ Scanned.cur # None => InUse(Scanned, Scanned.cur) /\ Scanned.cur # Scanned.this
<1> DEFINE S == IF NOTIFY THEN Table ELSE scanjobs(Table)
<1>1. S \in Tables /\ Cleans(Table, S) /\ Table \in Tables
  BY TypeParts, NothingCleaned, JobsScanned DEF Cleaned
<1>2. Scanned = setcurjob(S)
  BY DEF Scanned
<1> HIDE DEF S
<1>3. setcurjob(S) \in Tables /\ Cleans(S, setcurjob(S))
  BY <1>1, CurjobSet DEF Cleaned
<1>4. Cleans(Table, setcurjob(S))
  BY <1>1, <1>3, CleansChain
<1> QED BY <1>1, <1>2, <1>3, <1>4, CurjobSet DEF Cleaned, Cleans

-----------------------------------------------------------------------------
(* Types, control and the last slot, action by action. *)

Shape == TypeOK /\ ControlOK /\ LastSlot

\* A process ends, stops or is continued.
LEMMA KernelShape ==
  ASSUME Shape, Kernel
  PROVE  Shape'
<1> USE DEF Shape
<1>1. ASSUME NEW p \in Pids, NEW how \in {"exited", "killed"}, ChildEnds(p, how) PROVE Shape'
  <2>1. TypeOK'
    BY <1>1 DEF ChildEnds, TypeOK, table
  <2> QED BY <2>1, <1>1 DEF ChildEnds, ControlOK, LastSlot, table
<1>2. ASSUME NEW p \in Pids, ChildStops(p) PROVE Shape'
  <2>1. TypeOK'
    BY <1>2 DEF ChildStops, TypeOK, table
  <2> QED BY <2>1, <1>2 DEF ChildStops, ControlOK, LastSlot, table
<1>3. ASSUME NEW p \in Pids, ChildContinues(p) PROVE Shape'
  <2>1. TypeOK'
    BY <1>3 DEF ChildContinues, Continued, TypeOK, table
  <2> QED BY <2>1, <1>3 DEF ChildContinues, ControlOK, LastSlot, table
<1> QED BY <1>1, <1>2, <1>3 DEF Kernel

\* The handlers, but for WAIT().
LEMMA SignalShape ==
  ASSUME Shape, HandlerStarts \/ HandlerEnds \/ Interrupt
  PROVE  Shape'
<1> USE DEF Shape
<1>1. CASE HandlerStarts
  <2>1. TypeOK'
    BY <1>1 DEF HandlerStarts, TypeOK, table
  <2> QED BY <2>1, <1>1 DEF HandlerStarts, ControlOK, LastSlot, table
<1>2. CASE HandlerEnds
  <2>1. TypeOK'
    BY <1>2 DEF HandlerEnds, TypeOK, table, kernel
  <2> QED BY <2>1, <1>2 DEF HandlerEnds, Woken, ControlOK, LastSlot, table,
             Places, AtTop, Constructing, Waiting, Sleeping
<1>3. CASE Interrupt
  <2>1. TypeOK'
    BY <1>3 DEF Interrupt, TypeOK, table, kernel
  <2> QED BY <2>1, <1>3 DEF Interrupt, Woken, ControlOK, LastSlot, table,
             Places, AtTop, Constructing, Waiting, Sleeping
<1> QED BY <1>1, <1>2, <1>3

\* preprompt() and scanjobs().
LEMMA PromptShape ==
  ASSUME Shape, Prompt
  PROVE  Shape'
<1> USE DEF Shape
<1>1. CASE preprompt
  <2>1. TypeOK'
    BY <1>1, Constants DEF preprompt, NoCommand, Command, TypeOK, table, kernel
  <2>2. wait' = NoWait /\ NoWait \in WaitArgs
    BY <1>1, Constants DEF preprompt, NoWait, WaitArgs
  <2>3. ControlOK'
    BY <1>1, <2>2, Constants DEF preprompt, NoWait, ControlOK, At, Goto,
       Places, AtTop, Constructing, Waiting, Sleeping
  <2>4. LastSlot'
    BY <1>1 DEF preprompt, At, Goto, LastSlot, AtTop, table
  <2> QED BY <2>1, <2>3, <2>4
<1>2. ASSUME pc \in {"scan", "printed"}, ScanNext, jobtab[MAXJOB - 1].stat = {},
             UNCHANGED <<cmd, newjob>>,
             jobtab'[MAXJOB - 1].procs = <<>>,
             jobtab'[MAXJOB - 1].stat \subseteq jobtab[MAXJOB - 1].stat
      PROVE  ControlOK' /\ LastSlot'
  <2>1. /\ wait' \in WaitArgs
        /\ pc' = "scan" => wait'.job \in Slots
    <3>1. NoWait \in WaitArgs
      BY Constants DEF NoWait, WaitArgs
    <3>2. wait.job \in Slots /\ (wait.job # MAXJOB - 1 => wait.job + 1 \in Slots)
      BY <1>2, Constants DEF ControlOK, Slots
    <3> QED BY <1>2, <3>1, <3>2 DEF ScanNext, ControlOK, Goto, WaitArgs
  <2>2. pc' \in {"scan", "idle"}
    BY <1>2 DEF ScanNext, Goto
  <2> QED BY <1>2, <2>1, <2>2 DEF ControlOK, LastSlot, Places, AtTop, Constructing, Waiting, Sleeping
<1>3. ASSUME pc \in {"scan", "printed"} PROVE wait.job \in Slots /\ jobtab[MAXJOB - 1].stat = {}
  BY <1>3 DEF ControlOK, LastSlot, AtTop
<1>4. CASE ScanTests
  <2>1. pc = "scan" /\ wait.job \in Slots /\ jobtab[MAXJOB - 1].stat = {}
    BY <1>3, <1>4 DEF ScanTests, At
  <2>2. printjob(Table, wait.job) \in Cleaned(Table) /\ Table \in Cleaned(Table)
    BY <2>1, TypeParts, Printed, NothingCleaned DEF Cleaned
  <2>3. CASE ScanNext /\ Becomes(printjob(Table, wait.job))
    <3>1. TypeOK'
      BY <1>4, <2>2, <2>3, TypeParts, NewTable DEF ScanTests, Others, Cleaned, kernel
    <3> QED BY <1>2, <1>4, <2>1, <2>2, <2>3, <3>1, CleanedTable DEF ScanTests
  <2>4. CASE ScanNext /\ UNCHANGED table
    <3>1. TypeOK'
      BY <1>4, <2>4 DEF ScanTests, TypeOK, table, kernel
    <3> QED BY <1>2, <1>4, <2>1, <2>4, <3>1 DEF ScanTests, LastSlot, table
  <2>5. CASE Goto("printed") /\ UNCHANGED <<table, wait>>
    <3>1. TypeOK'
      BY <1>4, <2>5 DEF ScanTests, TypeOK, table, kernel
    <3> QED BY <1>4, <2>1, <2>5, <3>1 DEF ScanTests, Goto, ControlOK, LastSlot, table,
               Places, AtTop, Constructing, Waiting, Sleeping
  <2> QED BY <1>4, <2>3, <2>4, <2>5 DEF ScanTests
<1>5. CASE ScanClears
  <2>1. pc = "printed" /\ wait.job \in Slots /\ jobtab[MAXJOB - 1].stat = {}
    BY <1>3, <1>5 DEF ScanClears, At
  <2>2. Clear(Table, wait.job, {"CHANGED"}) \in Cleaned(Table)
    BY <2>1, TypeParts, Marked DEF Flags
  <2>3. TypeOK'
    BY <1>5, <2>2, TypeParts, NewTable DEF ScanClears, Others, Cleaned, kernel
  <2> QED BY <1>2, <1>5, <2>1, <2>2, <2>3, CleanedTable DEF ScanClears
<1> QED BY <1>1, <1>4, <1>5 DEF Prompt

\* What the CHOOSE of initjob() finds.
LEMMA LowestOf ==
  ASSUME NEW S \in SUBSET Slots, S # {}
  PROVE  Lowest(S) \in S
BY SlotsAreFew DEF Lowest

\* HandlerReaps(p) of a process in the table: V is the table after update_process().
LEMMA EntryReaped ==
  ASSUME TypeOK, Distinct, NEW p \in Pids, HandlerReaps(p), p # cmdoutpid, ~ Absent(p)
  PROVE  \E j \in Slots, V \in Tables, R \in Tables : \E i \in DOMAIN jobtab[j].procs :
           /\ jobtab[j].procs[i].pid = p
           /\ V.this = thisjob
           /\ \A k \in Slots \ {j} : V.tab[k] = jobtab[k]
           /\ V.tab[j].stat = jobtab[j].stat
           /\ DOMAIN V.tab[j].procs = DOMAIN jobtab[j].procs
           /\ \A l \in DOMAIN jobtab[j].procs :
                /\ V.tab[j].procs[l].pid = jobtab[j].procs[l].pid
                /\ V.tab[j].procs[l].status = IF l = i THEN child[p] ELSE jobtab[j].procs[l].status
           /\ Judged(V, R, j)
           /\ Becomes(R)
<1>0. PICK j \in Slots : \E i \in DOMAIN jobtab[j].procs : jobtab[j].procs[i].pid = p
  BY DEF Absent
<1>1. PICK i \in DOMAIN jobtab[j].procs : jobtab[j].procs[i].pid = p
  BY <1>0
<1>2. child[p] \in ProcStatus
  BY DEF HandlerReaps, Waitable, TypeOK, ProcStatus
<1>3. Holders(Table, p) # {}
  BY <1>1, TypeParts DEF Holders, PidsOf
<1>4. Becomes(Reaped(Table, p, child[p]))
  BY <1>3 DEF HandlerReaps
<1> HIDE DEF Table
<1>5. Table \in Tables /\ Table.tab = jobtab /\ Table.this = thisjob /\ DistinctIn(Table.tab)
  BY TypeParts DEF Distinct
<1>6. i \in DOMAIN Table.tab[j].procs /\ Table.tab[j].procs[i].pid = p
  BY <1>1, <1>5
<1>7. PICK V \in Tables :
           /\ V.this = Table.this
           /\ \A k \in Slots \ {j} : V.tab[k] = Table.tab[k]
           /\ V.tab[j].stat = Table.tab[j].stat
           /\ DOMAIN V.tab[j].procs = DOMAIN Table.tab[j].procs
           /\ \A l \in DOMAIN Table.tab[j].procs :
                /\ V.tab[j].procs[l].pid = Table.tab[j].procs[l].pid
                /\ V.tab[j].procs[l].status = IF l = i THEN child[p] ELSE Table.tab[j].procs[l].status
           /\ Reaped(Table, p, child[p]) \in Tables
           /\ Judged(V, Reaped(Table, p, child[p]), j)
  BY <1>2, <1>5, <1>6, ReapedTable
<1> QED BY <1>1, <1>4, <1>5, <1>7

\* One turn of the loop in handler().
LEMMA ReapedShape ==
  ASSUME Shape, Distinct, NEW p \in Pids, HandlerReaps(p)
  PROVE  Shape'
<1> USE DEF Shape
<1>1. child' \in [Pids -> {"unborn", "running", "stopped", "exited", "killed", "gone"}]
      /\ unreported' \subseteq {q \in Pids : child'[q] = "stopped"}
  <2>1. CASE child[p] = "stopped"
    BY <2>1 DEF HandlerReaps, TypeOK
  <2>2. CASE child[p] # "stopped"
    BY <2>2 DEF HandlerReaps, TypeOK
  <2> QED BY <2>1, <2>2
<1>2. Others'
  <2>1. errflag' \in BOOLEAN
    BY DEF HandlerReaps, TypeOK
  <2>2. cmdoutpid' \in Pids \cup {NoPid}
    BY DEF HandlerReaps, TypeOK
  <2> QED BY <1>1, <2>1, <2>2 DEF HandlerReaps, TypeOK, Others
<1>3. CASE p # cmdoutpid /\ ~ Absent(p)
  <2>1. PICK j \in Slots, V \in Tables, R \in Tables : \E i \in DOMAIN jobtab[j].procs :
           /\ \A k \in Slots \ {j} : V.tab[k] = jobtab[k]
           /\ V.this = thisjob
           /\ Judged(V, R, j)
           /\ Becomes(R)
    BY <1>3, EntryReaped
  <2>2. j # MAXJOB - 1
    BY <2>1 DEF LastSlot
  <2>3. TypeOK' /\ jobtab' = R.tab /\ thisjob' = R.this
    BY <1>2, <2>1, NewTable
  <2>4. thisjob' = thisjob
    BY <2>1, <2>3 DEF Judged
  <2>5. /\ jobtab'[MAXJOB - 1].procs = <<>>
        /\ jobtab'[MAXJOB - 1].stat \subseteq jobtab[MAXJOB - 1].stat
    BY <2>1, <2>2, <2>3, Constants DEF Judged, LastSlot
  <2>6. ControlOK'
    BY <2>4 DEF HandlerReaps, ControlOK
  <2> QED BY <2>3, <2>5, <2>6 DEF HandlerReaps, LastSlot
<1>4. CASE ~ (p # cmdoutpid /\ ~ Absent(p))
  <2>1. UNCHANGED table
    BY <1>4, TypeParts DEF HandlerReaps, Absent, Holders, PidsOf
  <2>2. TypeOK'
    BY <1>2, <2>1 DEF Others, TypeOK, table
  <2> QED BY <2>1, <2>2 DEF HandlerReaps, ControlOK, LastSlot, table
<1> QED BY <1>3, <1>4

\* execpline() takes a free slot.
LEMMA LineShape ==
  ASSUME Shape, NEW c \in Lines, execpline(c)
  PROVE  Shape'
<1> USE DEF Shape
<1> DEFINE j == Lowest(FreeSlots)
           st == IF c.op = "run" THEN {"INUSE"} ELSE {"INUSE", "CURSH"}
           T == [Table EXCEPT !.this = j, !.val2 = 0, !.tab[j].stat = st]
<1>1. j \in Slots /\ jobtab[j].stat = {}
  BY LowestOf DEF execpline, FreeSlots
<1>2. pc = "idle" /\ newjob' = j /\ Becomes(T)
  BY DEF execpline, At
<1>3. st \in SUBSET {"INUSE", "CURSH"} /\ st \in SUBSET Flags
  BY DEF Flags
<1> HIDE DEF j, st
<1>4. /\ T \in Tables /\ T.this = j
      /\ T.tab[j].procs = jobtab[j].procs /\ T.tab[j].stat = st
      /\ \A k \in Slots \ {j} : T.tab[k] = jobtab[k]
  <2>1. [jobtab[j] EXCEPT !.stat = st] \in Job
    BY <1>1, <1>3 DEF TypeOK, Job
  <2>2. [jobtab[j] EXCEPT !.stat = st].stat = st /\ [jobtab[j] EXCEPT !.stat = st].procs = jobtab[j].procs
    BY <1>1 DEF TypeOK, Job
  <2>3. Table \in Tables /\ Table.tab = jobtab
    BY TypeParts
  <2>4. T = [Table EXCEPT !.this = j, !.val2 = 0, !.tab = [jobtab EXCEPT ![j] = [jobtab[j] EXCEPT !.stat = st]]]
    BY <1>1, <2>3 DEF Tables
  <2> HIDE DEF T
  <2> QED BY <1>1, <2>1, <2>2, <2>3, <2>4 DEF Tables
<1> HIDE DEF T
<1>5. c \in Command /\ (c.op = "run" => c.left > 0)
  <2>1. ASSUME NEW h \in {"sync", "async", "disown"}, NEW n \in 1 .. MaxProcs
        PROVE  [op |-> "run", how |-> h, left |-> n, simple |-> n = 1, subst |-> TRUE] \in Command
    BY JobsAssumption DEF Command
  <2>2. CASE c \in {[op |-> "run", how |-> h, left |-> n, simple |-> n = 1, subst |-> TRUE] :
                     h \in {"sync", "async", "disown"}, n \in 1 .. MaxProcs}
    <3>1. PICK h \in {"sync", "async", "disown"}, n \in 1 .. MaxProcs :
             c = [op |-> "run", how |-> h, left |-> n, simple |-> n = 1, subst |-> TRUE]
      BY <2>2
    <3>2. c.left = n /\ n > 0
      BY <3>1
    <3> QED BY <2>1, <3>1, <3>2
  <2>3. CASE c \in [op : {"fg", "bg", "wait", "disown"} \cap Ops, arg : {0, None} \cup Slots]
    <3>1. c \in [op : {"fg", "bg", "wait", "disown"}, arg : {0, None} \cup Slots] /\ c.op # "run"
      BY <2>3
    <3> QED BY <3>1 DEF Command
  <2>4. CASE c \in [op : {"jobs", "waitall"} \cap Ops]
    <3>1. c \in [op : {"jobs", "waitall"}] /\ c.op # "run"
      BY <2>4
    <3> QED BY <3>1 DEF Command
  <2> QED BY <2>2, <2>3, <2>4 DEF Lines
<1>6. TypeOK' /\ jobtab' = T.tab /\ thisjob' = j
  <2>1. Others'
    BY <1>1, <1>2, <1>5 DEF execpline, TypeOK, Others, kernel
  <2> QED BY <1>2, <1>4, <2>1, NewTable
<1>7. pc' = IF c.op = "run" THEN "build" ELSE "builtin"
  BY DEF execpline, Goto
<1>8. ControlOK'
  BY <1>2, <1>5, <1>6, <1>7 DEF execpline, ControlOK, Places, AtTop, Constructing, Waiting, Sleeping
<1>9. LastSlot'
  BY <1>1, <1>2, <1>3, <1>4, <1>6, <1>7, Constants DEF LastSlot, AtTop, Sleeping
<1> QED BY <1>6, <1>8, <1>9

\* The pipeline that is left after a command or a substitution.
LEMMA RunCommand ==
  ASSUME NEW c \in Command, c.op = "run", c.left > 0
  PROVE  /\ [c EXCEPT !.left = @ - 1] \in Command
         /\ [c EXCEPT !.left = @ - 1].op = "run"
         /\ c.left # 1 => [c EXCEPT !.left = @ - 1].left > 0
         /\ [c EXCEPT !.subst = FALSE] \in Command
         /\ [c EXCEPT !.subst = FALSE].op = "run"
         /\ [c EXCEPT !.subst = FALSE].left > 0
<1> DEFINE Run == [op : {"run"}, how : {"sync", "async", "disown"}, left : 0 .. MaxProcs,
                   simple : BOOLEAN, subst : BOOLEAN]
<1>1. c \in Run
  BY DEF Command
<1>2. c.left \in 0 .. MaxProcs /\ c.left - 1 \in 0 .. MaxProcs
  BY <1>1, JobsAssumption
<1>3. /\ [c EXCEPT !.left = @ - 1] \in Run /\ [c EXCEPT !.left = @ - 1].left = c.left - 1
      /\ [c EXCEPT !.subst = FALSE] \in Run /\ [c EXCEPT !.subst = FALSE].left = c.left
  BY <1>1, <1>2
<1>4. \A d \in Run : d \in Command /\ d.op = "run"
  BY DEF Command
<1> QED BY <1>2, <1>3, <1>4

\* A command of a pipeline is built: what NextCommand and AfterCommand do.
LEMMA CommandBuilt ==
  ASSUME Shape, pc \in Constructing, NextCommand, AfterCommand,
         UNCHANGED <<thisjob, newjob, wait>>,
         jobtab'[MAXJOB - 1] = jobtab[MAXJOB - 1]
  PROVE  cmd' \in Command /\ ControlOK' /\ LastSlot'
<1>1. cmd' \in Command /\ cmd'.op = "run" /\ (cmd.left # 1 => cmd'.left > 0)
  BY RunCommand DEF Shape, TypeOK, ControlOK, NextCommand
<1>2. pc' = IF cmd.left = 1 THEN "launch" ELSE "build"
  BY DEF AfterCommand, Goto
<1>3. thisjob = newjob
  BY DEF Shape, ControlOK
<1> QED BY <1>1, <1>2, <1>3 DEF Shape, ControlOK, LastSlot, Places, AtTop, Constructing, Waiting, Sleeping

\* The steps of execpline2(), execcmd() and getoutput().
LEMMA PipelineShape ==
  ASSUME Shape, ForkOK, Pipeline
  PROVE  Shape'
<1> USE DEF Shape
<1>1. CASE getoutput
  <2>1. pc = "build" /\ cmd' \in Command /\ cmd'.op = "run" /\ cmd'.left > 0
    BY <1>1, RunCommand DEF getoutput, Building, At, ControlOK, Constructing, TypeOK
  <2>2. /\ pc' \in {"build", "substread"} /\ pid' \in Pids \cup {NoPid}
        /\ cmdoutpid' \in Pids \cup {NoPid} /\ errflag' \in BOOLEAN
        /\ mask' \in {"open", "blocked", "suspend"}
    BY <1>1, <2>1 DEF getoutput, Fresh, Goto, TypeOK
  <2>3. /\ child' \in [Pids -> {"unborn", "running", "stopped", "exited", "killed", "gone"}]
        /\ unreported' \subseteq {q \in Pids : child'[q] = "stopped"}
    BY <1>1 DEF getoutput, Fresh, TypeOK
  <2>4. TypeOK'
    BY <1>1, <2>1, <2>2, <2>3 DEF getoutput, TypeOK, table
  <2> QED BY <1>1, <2>1, <2>2, <2>4 DEF getoutput, ControlOK, LastSlot, table,
             Places, AtTop, Constructing, Waiting, Sleeping
<1>2. CASE SubstSuspends
  <2>1. TypeOK'
    BY <1>2 DEF SubstSuspends, TypeOK, table, kernel
  <2> QED BY <1>2, <2>1 DEF SubstSuspends, At, Goto, ControlOK, LastSlot, table,
             Places, AtTop, Constructing, Waiting, Sleeping
<1>3. CASE CommandForks
  <2>1. /\ child' \in [Pids -> {"unborn", "running", "stopped", "exited", "killed", "gone"}]
        /\ unreported' \subseteq {q \in Pids : child'[q] = "stopped"}
        /\ pid' \in Pids
    BY <1>3 DEF CommandForks, Fresh, TypeOK
  <2>2. TypeOK'
    BY <1>3, <2>1 DEF CommandForks, TypeOK, table
  <2> QED BY <1>3, <2>2 DEF CommandForks, Building, At, Goto, ControlOK, LastSlot, table,
             Places, AtTop, Constructing, Waiting, Sleeping
<1>4. CASE CommandFails
  <2>1. cmd' \in Command /\ ControlOK' /\ LastSlot'
    BY <1>4, CommandBuilt DEF CommandFails, Building, At, Constructing, table
  <2> QED BY <1>4, <2>1 DEF CommandFails, TypeOK, table, kernel
<1>5. CASE addproc
  <2> DEFINE procs == Append(jobtab[thisjob].procs, [pid |-> pid, status |-> "running"])
             jn == [stat |-> jobtab[thisjob].stat \ {"DONE"}, procs |-> procs]
             T == [Table EXCEPT !.tab[thisjob] = jn]
  <2>1. pc = "forked" /\ thisjob \in Slots /\ thisjob # MAXJOB - 1 /\ pid \in Pids
    BY <1>5, Constants DEF addproc, At, ControlOK, ForkOK, Constructing, TypeOK
  <2>2. [pid |-> pid, status |-> "running"] \in Process
    BY <2>1 DEF Process, ProcStatus
  <2>3. procs \in Seq(Process)
    BY <2>1, <2>2 DEF TypeOK, Job
  <2>4. jn \in Job
    BY <2>1, <2>3 DEF TypeOK, Job
  <2>5. Becomes(T)
    BY <1>5 DEF addproc, Table
  <2> HIDE DEF jn
  <2>6. T \in Tables /\ T.this = thisjob /\ \A k \in Slots \ {thisjob} : T.tab[k] = jobtab[k]
    <3> HIDE DEF Table
    <3> QED BY <2>1, <2>4, TypeParts DEF Tables
  <2> HIDE DEF T
  <2>7. cmd' \in Command
    BY <1>5, <2>1, RunCommand DEF addproc, NextCommand, ControlOK, TypeOK, Constructing
  <2>8. TypeOK' /\ jobtab' = T.tab /\ thisjob' = thisjob
    <3>1. Others'
      BY <1>5, <2>7 DEF addproc, TypeOK, Others, kernel
    <3> QED BY <2>5, <2>6, <3>1, NewTable
  <2>9. ControlOK' /\ LastSlot'
    BY <1>5, <2>1, <2>6, <2>8, CommandBuilt, Constants DEF addproc, Constructing
  <2> QED BY <2>8, <2>9
<1>6. CASE LaunchAsync
  <2> DEFINE T == Set(Table, thisjob, {"NOSTTY"})
             gone == deletejob(T, thisjob)
             U == IF cmd.how = "disown" THEN [gone EXCEPT !.this = None] ELSE spawnjob(T)
  <2>1. pc = "launch" /\ thisjob = newjob /\ thisjob \in Slots
    BY <1>6 DEF LaunchAsync, At, ControlOK, TypeOK
  <2>2. {"NOSTTY"} \in SUBSET Flags
    BY DEF Flags
  <2>3. /\ T \in Tables /\ T.this = thisjob
        /\ T.tab[thisjob].procs = jobtab[thisjob].procs
        /\ \A k \in Slots \ {thisjob} : T.tab[k] = jobtab[k]
    BY <2>1, <2>2, TypeParts, Marked
  <2>4. Becomes(U)
    BY <1>6 DEF LaunchAsync
  <2> HIDE DEF T
  <2>5. /\ gone \in Tables /\ gone.tab[thisjob] = zero
        /\ \A k \in Slots \ {thisjob} : gone.tab[k] = T.tab[k]
    BY <2>1, <2>3, Zeroed
  <2> HIDE DEF gone
  <2>6. /\ U \in Tables
        /\ \A k \in Slots \ {thisjob} : U.tab[k] = jobtab[k]
        /\ jobtab[thisjob].procs = <<>> => U.tab[thisjob] = zero
    <3>1. CASE cmd.how = "disown"
      BY <2>3, <2>5, <3>1 DEF Tables
    <3>2. CASE cmd.how # "disown"
      BY <2>1, <2>3, <3>2, Spawned
    <3> QED BY <3>1, <3>2
  <2> HIDE DEF U
  <2>7. TypeOK' /\ jobtab' = U.tab
    <3>1. Others'
      BY <1>6 DEF LaunchAsync, TypeOK, Others, kernel
    <3> QED BY <2>4, <2>6, <3>1, NewTable
  <2>8. pc' = "prompt"
    BY <1>6 DEF LaunchAsync, Goto
  <2>9. ControlOK'
    BY <1>6, <2>8 DEF LaunchAsync, ControlOK, Places, AtTop, Constructing, Waiting, Sleeping
  <2>10. jobtab'[MAXJOB - 1] = zero
    <3>1. CASE thisjob = MAXJOB - 1
      BY <2>6, <2>7, <3>1 DEF LastSlot
    <3>2. CASE thisjob # MAXJOB - 1
      <4>1. jobtab[MAXJOB - 1].procs = <<>> /\ jobtab[MAXJOB - 1].stat = {}
        BY <2>1, <3>2 DEF LastSlot
      <4>2. jobtab[MAXJOB - 1] \in Job
        BY Constants DEF TypeOK
      <4> QED BY <2>6, <2>7, <3>2, <4>1, <4>2, Constants DEF zero, Job
    <3> QED BY <3>1, <3>2
  <2> QED BY <2>7, <2>9, <2>10 DEF LastSlot, zero
<1>7. CASE LaunchSync
  <2>1. TypeOK'
    BY <1>7 DEF LaunchSync, TypeOK, table, kernel
  <2>2. /\ pc' = "wait" /\ pc = "launch" /\ thisjob \in Slots
        /\ wait' = [job |-> thisjob, int |-> FALSE, caller |-> "execpline"]
    BY <1>7 DEF LaunchSync, Waits, Goto, At, ControlOK, TypeOK
  <2>3. wait' \in WaitArgs /\ wait'.job = thisjob /\ wait'.caller = "execpline"
    <3>1. "execpline" \in Callers
      BY DEF Callers
    <3> QED BY <2>2, <3>1, WaitTyped
  <2> QED BY <1>7, <2>1, <2>2, <2>3 DEF LaunchSync, ControlOK, LastSlot, table,
             Places, AtTop, Constructing, Waiting, Sleeping, Callers
<1> QED BY <1>1, <1>2, <1>3, <1>4, <1>5, <1>6, <1>7 DEF Pipeline

\* waitjob() marks its job, prints it if it has changed, or deletes it.
LEMMA WaitEntered ==
  ASSUME TypeOK, wait.job \in Slots, WaitEnters
  PROVE  \E T \in Tables :
           /\ Becomes(T) /\ T.this = thisjob
           /\ \A k \in Slots :
                /\ \/ T.tab[k].procs = jobtab[k].procs
                   \/ T.tab[k].procs = <<>> /\ "DONE" \in jobtab[k].stat
                /\ T.tab[k].stat \subseteq
                     jobtab[k].stat \cup IF k = wait.job THEN {"LOCKED"} ELSE {}
           /\ jobtab[wait.job].procs = <<>> => T.tab[wait.job] = zero
<1> DEFINE j == wait.job
           L == Set(Table, j, {"LOCKED"})
           P == printjob(L, j)
           gone == deletejob(Table, j)
           T == IF jobtab[j].procs # <<>> THEN IF "CHANGED" \in Stat(L, j) THEN P ELSE L ELSE gone
<1>1. {"LOCKED"} \in SUBSET Flags
  BY DEF Flags
<1>2. Becomes(T)
  BY DEF WaitEnters
<1>3. /\ L \in Tables /\ L.this = thisjob
      /\ L.tab[j].stat = jobtab[j].stat \cup {"LOCKED"}
      /\ L.tab[j].procs = jobtab[j].procs
      /\ \A k \in Slots \ {j} : L.tab[k] = jobtab[k]
  BY <1>1, Marked, TypeParts
<1>4. /\ gone \in Tables /\ gone.this = thisjob /\ gone.tab[j] = zero
      /\ \A k \in Slots \ {j} : gone.tab[k] = jobtab[k]
  BY Zeroed, TypeParts
<1> HIDE DEF L, gone
<1>5. P \in Tables /\ Cleans(L, P)
  BY <1>3, Printed DEF Cleaned
<1> HIDE DEF P
<1>6. CASE jobtab[j].procs # <<>>
  <2>1. T \in Tables /\ Cleans(L, T)
    BY <1>3, <1>5, <1>6, NothingCleaned
  <2> HIDE DEF T
  <2>2. ASSUME NEW k \in Slots
        PROVE  /\ \/ T.tab[k].procs = jobtab[k].procs
                  \/ T.tab[k].procs = <<>> /\ "DONE" \in jobtab[k].stat
               /\ T.tab[k].stat \subseteq
                    jobtab[k].stat \cup IF k = wait.job THEN {"LOCKED"} ELSE {}
    <3>1. CASE k = j
      BY <1>3, <2>1, <3>1 DEF Cleans
    <3>2. CASE k # j
      BY <1>3, <2>1, <3>2 DEF Cleans
    <3> QED BY <3>1, <3>2
  <2> QED BY <1>2, <1>3, <1>6, <2>1, <2>2 DEF Cleans
<1>7. CASE jobtab[j].procs = <<>>
  <2>1. T = gone
    BY <1>7
  <2> HIDE DEF T
  <2> QED BY <1>2, <1>4, <1>7, <2>1 DEF zero
<1> QED BY <1>6, <1>7

\* The steps of waitjob().
LEMMA WaitShape ==
  ASSUME Shape, Waitjob
  PROVE  Shape'
<1> USE DEF Shape
<1>1. CASE WaitEnters
  <2>1. pc = "wait" /\ wait.job \in Slots
    BY <1>1 DEF WaitEnters, At, ControlOK, Waiting
  <2>2. PICK T \in Tables :
           /\ Becomes(T) /\ T.this = thisjob
           /\ \A k \in Slots :
                /\ \/ T.tab[k].procs = jobtab[k].procs
                   \/ T.tab[k].procs = <<>> /\ "DONE" \in jobtab[k].stat
                /\ T.tab[k].stat \subseteq
                     jobtab[k].stat \cup IF k = wait.job THEN {"LOCKED"} ELSE {}
           /\ jobtab[wait.job].procs = <<>> => T.tab[wait.job] = zero
    BY <1>1, <2>1, WaitEntered
  <2>3. TypeOK' /\ jobtab' = T.tab /\ thisjob' = thisjob
    <3>1. Others'
      BY <1>1 DEF WaitEnters, TypeOK, Others, kernel
    <3> QED BY <2>2, <3>1, NewTable
  <2>4. pc' \in {"waittest", "waitover"} /\ UNCHANGED <<cmd, newjob, wait>>
    BY <1>1 DEF WaitEnters, Goto
  <2>5. ControlOK'
    BY <2>1, <2>3, <2>4 DEF ControlOK, Places, AtTop, Constructing, Waiting, Sleeping
  <2>6. /\ jobtab'[MAXJOB - 1].procs = <<>>
        /\ jobtab'[MAXJOB - 1].stat \subseteq jobtab[MAXJOB - 1].stat
        /\ wait.job = MAXJOB - 1 => jobtab'[MAXJOB - 1].stat = {}
    BY <2>2, <2>3, Constants DEF LastSlot, zero
  <2>7. LastSlot'
    BY <2>1, <2>4, <2>6 DEF LastSlot, ControlOK, AtTop
  <2> QED BY <2>3, <2>5, <2>7
<1>2. CASE WaitTests
  <2>1. TypeOK'
    BY <1>2 DEF WaitTests, TypeOK, table, kernel
  <2> QED BY <1>2, <2>1 DEF WaitTests, At, Goto, ControlOK, LastSlot, table,
             Places, AtTop, Constructing, Waiting, Sleeping
<1>3. CASE WaitSuspends
  <2>1. TypeOK'
    BY <1>3 DEF WaitSuspends, TypeOK, table, kernel
  <2> QED BY <1>3, <2>1 DEF WaitSuspends, At, Goto, ControlOK, LastSlot, table,
             Places, AtTop, Constructing, Waiting, Sleeping
<1>4. CASE WaitUnblocks
  <2>1. TypeOK'
    BY <1>4 DEF WaitUnblocks, TypeOK, table, kernel
  <2> QED BY <1>4, <2>1 DEF WaitUnblocks, At, Goto, ControlOK, LastSlot, table,
             Places, AtTop, Constructing, Waiting, Sleeping
<1>5. CASE WaitReturns
  <2>1. pc = "return" /\ wait.caller \in Callers
    BY <1>5 DEF WaitReturns, At, ControlOK, Waiting, Sleeping
  <2>2. NoWait \in WaitArgs
    BY Constants DEF NoWait, WaitArgs
  <2>3. ASSUME NEW t \in Slots \cup {None}, Becomes([Table EXCEPT !.this = t])
        PROVE  TypeOK' /\ jobtab' = jobtab /\ thisjob' = t
    BY <1>5, <2>3 DEF WaitReturns, TypeOK, Becomes, Table, kernel
  <2>4. CASE wait.caller = "execpline"
    <3>1. pc' = "prompt" /\ TypeOK' /\ jobtab' = jobtab /\ wait' = NoWait
      BY <1>5, <2>3, <2>4 DEF WaitReturns, Goto
    <3> QED BY <1>5, <2>1, <2>2, <2>4, <3>1 DEF WaitReturns, ControlOK, LastSlot,
               Places, AtTop, Constructing, Waiting, Sleeping
  <2>5. CASE wait.caller = "fg"
    <3>1. pc' = "launch" /\ TypeOK' /\ jobtab' = jobtab /\ thisjob' = newjob /\ wait' = NoWait
      BY <1>5, <2>3, <2>5 DEF WaitReturns, Goto, TypeOK
    <3> QED BY <1>5, <2>1, <2>2, <2>5, <3>1 DEF WaitReturns, ControlOK, LastSlot,
               Places, AtTop, Constructing, Waiting, Sleeping
  <2>6. CASE wait.caller = "wait"
    <3>1. /\ pc' = "wait" /\ UNCHANGED table /\ thisjob = newjob /\ thisjob \in Slots
          /\ wait' = [job |-> thisjob, int |-> FALSE, caller |-> "fg"]
      BY <1>5, <2>1, <2>6 DEF WaitReturns, Waits, Goto, ControlOK, Waiting, Sleeping, TypeOK
    <3>2. TypeOK'
      BY <1>5, <3>1 DEF WaitReturns, TypeOK, table, kernel
    <3>3. wait' \in WaitArgs /\ wait'.job \in Slots /\ wait'.caller = "fg"
      <4>1. "fg" \in Callers
        BY DEF Callers
      <4> QED BY <3>1, <4>1, WaitTyped
    <3> QED BY <1>5, <2>1, <2>6, <3>1, <3>2, <3>3 DEF WaitReturns, ControlOK, LastSlot, table, Callers,
               Places, AtTop, Constructing, Waiting, Sleeping
  <2>7. CASE wait.caller = "waitall"
    <3>1. pc' = "waitall" /\ UNCHANGED <<table, wait>>
      BY <1>5, <2>7 DEF WaitReturns, Goto
    <3>2. TypeOK'
      BY <1>5, <3>1 DEF WaitReturns, TypeOK, table, kernel
    <3> QED BY <1>5, <2>1, <2>7, <3>1, <3>2 DEF WaitReturns, ControlOK, LastSlot, table,
               Places, AtTop, Constructing, Waiting, Sleeping
  <2> QED BY <2>1, <2>4, <2>5, <2>6, <2>7 DEF Callers
<1> QED BY <1>1, <1>2, <1>3, <1>4, <1>5 DEF Waitjob

\* The job a builtin accepts is one of the table.
LEMMA JobNamed ==
  ASSUME TypeOK, pc = "builtin", cmd.op \in {"fg", "bg", "wait", "disown"}, ~ Refused(Scanned)
  PROVE  /\ Scanned \in Tables /\ Cleans(Table, Scanned)
         /\ Named(Scanned) \in Slots
         /\ "INUSE" \in Scanned.tab[Named(Scanned)].stat
         /\ cmd.op = "bg" => IsStopped(Scanned, Named(Scanned))
<1>1. Scanned \in Tables /\ Cleans(Table, Scanned)
  BY ScannedTable DEF Cleaned
<1>2. cmd.arg \in {0, None} \cup Slots
  BY DEF TypeOK, Command
<1> HIDE DEF Scanned
<1>3. Named(Scanned) \in Slots \cup {None}
  BY <1>1, <1>2 DEF Named, Tables
<1>4. InUse(Scanned, Named(Scanned)) /\ (cmd.op = "bg" => IsStopped(Scanned, Named(Scanned)))
  BY DEF Refused
<1> QED BY <1>1, <1>3, <1>4 DEF InUse, Stat

\* A step of a builtin that keeps thisjob.
LEMMA ShapeKept ==
  ASSUME Shape, pc \in {"builtin", "waitall"}, pc' \in {"launch", "waitall", "wait"},
         TypeOK', thisjob' = thisjob, UNCHANGED newjob,
         wait' \in WaitArgs,
         pc' = "wait" => wait'.job \in Slots /\ wait'.caller \in {"fg", "wait", "waitall"},
         jobtab'[MAXJOB - 1].procs = <<>>,
         jobtab'[MAXJOB - 1].stat \subseteq jobtab[MAXJOB - 1].stat
  PROVE  Shape'
BY DEF Shape, ControlOK, LastSlot, Places, AtTop, Constructing, Waiting, Sleeping, Callers

\* The steps of bin_fg().
LEMMA BuiltinShape ==
  ASSUME Shape, Builtins
  PROVE  Shape'
<1> USE DEF Shape
<1>0. NoCommand \in Command
  BY DEF NoCommand, Command
<1>1. ASSUME NEW T \in Cleaned(Table), Becomes(T), Others', UNCHANGED newjob,
             pc = "builtin", pc' \in {"launch", "waitall"},
             wait' \in WaitArgs
      PROVE  Shape'
  <2>1. TypeOK'
    BY <1>1, NewTable DEF Cleaned
  <2> QED BY <1>1, <2>1, CleanedTable, ShapeKept
<1>2. CASE BuiltinRefuses
  <2>1. Others'
    BY <1>0, <1>2 DEF BuiltinRefuses, TypeOK, Others, kernel
  <2>2. pc = "builtin" /\ pc' = "launch" /\ wait' = wait /\ Becomes(Scanned)
    BY <1>2 DEF BuiltinRefuses, Builtin, At, Goto
  <2> HIDE DEF Scanned
  <2> QED BY <1>1, <1>2, <2>1, <2>2, ScannedTable DEF BuiltinRefuses, ControlOK
<1>3. CASE BuiltinLists
  <2>1. Others'
    BY <1>3 DEF BuiltinLists, TypeOK, Others, kernel
  <2>2. pc = "builtin" /\ pc' = "launch" /\ wait' = wait /\ Becomes(Listed(Scanned))
    BY <1>3 DEF BuiltinLists, Builtin, At, Goto
  <2> HIDE DEF Scanned
  <2>3. Listed(Scanned) \in Cleaned(Table)
    BY ScannedTable, JobsListed, CleansChain, TypeParts DEF Cleaned
  <2> QED BY <1>1, <1>3, <2>1, <2>2, <2>3 DEF BuiltinLists, ControlOK
<1>4. CASE BuiltinWaitsAll
  <2>1. Others'
    BY <1>4 DEF BuiltinWaitsAll, TypeOK, Others, kernel
  <2>2. pc = "builtin" /\ pc' = "waitall" /\ Becomes(Scanned) /\ UNCHANGED newjob
        /\ wait' \in WaitArgs
    BY <1>4 DEF BuiltinWaitsAll, Builtin, At, Goto, Callers, WaitArgs
  <2> HIDE DEF Scanned
  <2> QED BY <1>1, <2>1, <2>2, ScannedTable
<1>5. CASE BuiltinDisowns
  <2> DEFINE j == Named(Scanned)
             T == deletejob(Scanned, j)
  <2>1. Others'
    BY <1>0, <1>5 DEF BuiltinDisowns, TypeOK, Others, kernel
  <2>2. /\ pc = "builtin" /\ cmd.op = "disown" /\ ~ Refused(Scanned)
        /\ pc' = "launch" /\ UNCHANGED <<wait, newjob>> /\ Becomes(T)
    BY <1>5 DEF BuiltinDisowns, Builtin, At, Goto
  <2> HIDE DEF Scanned
  <2>3. /\ Scanned \in Tables /\ Cleans(Table, Scanned) /\ j \in Slots
    BY <2>2, JobNamed
  <2> HIDE DEF j
  <2>4. /\ T \in Tables /\ T.this = Scanned.this /\ T.tab[j] = zero
        /\ \A k \in Slots \ {j} : T.tab[k] = Scanned.tab[k]
    BY <2>3, Zeroed
  <2> HIDE DEF T
  <2>5. TypeOK' /\ jobtab' = T.tab /\ thisjob' = thisjob
    BY <2>1, <2>2, <2>3, <2>4, NewTable, TypeParts DEF Cleans
  <2>6. /\ jobtab'[MAXJOB - 1].procs = <<>>
        /\ jobtab'[MAXJOB - 1].stat \subseteq jobtab[MAXJOB - 1].stat
    BY <2>3, <2>4, <2>5, TypeParts, Constants DEF Cleans, LastSlot, zero
  <2> QED BY <2>2, <2>5, <2>6, ShapeKept DEF ControlOK
<1>6. CASE BuiltinResumes
  <2> DEFINE j == Named(Scanned)
             M == IF IsStopped(Scanned, j) THEN makerunning(Scanned, j) ELSE Scanned
             U == Resumed(Scanned, j)
  <2>1. /\ child' \in [Pids -> {"unborn", "running", "stopped", "exited", "killed", "gone"}]
        /\ unreported' \subseteq {q \in Pids : child'[q] = "stopped"}
        /\ sigchld' = sigchld
    BY <1>6 DEF BuiltinResumes, Continued, TypeOK, kernel
  <2>2. Others'
    BY <1>0, <1>6, <2>1 DEF BuiltinResumes, TypeOK, Others
  <2>3. /\ pc = "builtin" /\ cmd.op \in {"fg", "bg", "wait"} /\ ~ Refused(Scanned)
        /\ Becomes(U) /\ UNCHANGED newjob
    BY <1>6 DEF BuiltinResumes, Builtin, At
  <2>4. /\ cmd.op = "bg" => pc' = "launch" /\ wait' = wait
        /\ cmd.op = "fg" => pc' = "wait" /\ wait' = [job |-> j, int |-> FALSE, caller |-> "fg"]
        /\ cmd.op = "wait" => pc' = "wait" /\ wait' = [job |-> j, int |-> TRUE, caller |-> "wait"]
    BY <1>6 DEF BuiltinResumes, Goto, Waits
  <2> HIDE DEF Scanned
  <2>5. /\ Scanned \in Tables /\ Cleans(Table, Scanned) /\ j \in Slots
        /\ cmd.op = "bg" => IsStopped(Scanned, j)
    BY <2>3, JobNamed
  <2> HIDE DEF j
  <2>6. /\ U \in Tables
        /\ U.this = IF cmd.op = "fg" THEN j ELSE Scanned.this
        /\ \A k \in Slots :
             /\ \/ U.tab[k].procs = M.tab[k].procs
                \/ U.tab[k].procs = <<>> /\ "DONE" \in M.tab[k].stat
             /\ U.tab[k].stat \subseteq
                  M.tab[k].stat \cup IF cmd.op = "bg" /\ k = j THEN {"NOSTTY"} ELSE {}
    BY <2>5, ResumedTable
  <2> HIDE DEF U
  <2>7. /\ M.tab[MAXJOB - 1].procs = <<>>
        /\ M.tab[MAXJOB - 1].stat \subseteq jobtab[MAXJOB - 1].stat
        /\ cmd.op = "bg" => j # MAXJOB - 1
    <3>1. /\ Scanned.tab[MAXJOB - 1].procs = <<>>
          /\ Scanned.tab[MAXJOB - 1].stat \subseteq jobtab[MAXJOB - 1].stat
      BY <2>5, TypeParts, Constants DEF Cleans, LastSlot
    <3>2. IsStopped(Scanned, j) => j # MAXJOB - 1
      BY <3>1 DEF IsStopped, Stat, LastSlot
    <3>3. CASE IsStopped(Scanned, j)
      BY <2>5, <3>1, <3>2, <3>3, MadeRunning, Constants
    <3>4. CASE ~ IsStopped(Scanned, j)
      BY <2>5, <3>1, <3>4
    <3> QED BY <3>3, <3>4
  <2> HIDE DEF M
  <2>8. TypeOK' /\ jobtab' = U.tab /\ thisjob' = U.this
    BY <2>2, <2>3, <2>6, NewTable
  <2>9. /\ jobtab'[MAXJOB - 1].procs = <<>>
        /\ jobtab'[MAXJOB - 1].stat \subseteq jobtab[MAXJOB - 1].stat
    BY <2>6, <2>7, <2>8, Constants
  <2>10. CASE cmd.op = "fg"
    <3>1. /\ pc' = "wait" /\ wait'.job \in Slots /\ wait'.caller = "fg"
          /\ wait' \in WaitArgs
      <4>1. "fg" \in Callers
        BY DEF Callers
      <4>2. wait' = [job |-> j, int |-> FALSE, caller |-> "fg"]
        BY <2>4, <2>10
      <4>3. [job |-> j, int |-> FALSE, caller |-> "fg"] \in WaitArgs
        BY <2>5, <4>1, WaitTyped
      <4>4. wait'.job = j /\ wait'.caller = "fg"
        BY <4>2
      <4> QED BY <2>4, <2>5, <2>10, <4>2, <4>3, <4>4
    <3>2. ControlOK'
      BY <3>1 DEF ControlOK, Places, Constructing, Waiting, Callers
    <3> QED BY <2>3, <2>8, <2>9, <3>1, <3>2 DEF LastSlot, AtTop, Sleeping
  <2>11. CASE cmd.op # "fg"
    <3>1. thisjob' = thisjob
      BY <2>5, <2>6, <2>8, <2>11, TypeParts DEF Cleans
    <3>2. wait' \in WaitArgs
      <4>1. CASE cmd.op = "bg"
        BY <2>4, <4>1 DEF ControlOK
      <4>2. CASE cmd.op = "wait"
        <5>1. "wait" \in Callers
          BY DEF Callers
        <5>2. wait' = [job |-> j, int |-> TRUE, caller |-> "wait"]
          BY <2>4, <4>2
        <5>3. [job |-> j, int |-> TRUE, caller |-> "wait"] \in WaitArgs
          BY <2>5, <5>1, WaitTyped
        <5> QED BY <5>2, <5>3
      <4> QED BY <2>3, <2>11, <4>1, <4>2
    <3> QED BY <2>3, <2>4, <2>5, <2>8, <2>9, <2>11, <3>1, <3>2, ShapeKept
  <2> QED BY <2>10, <2>11
<1>7. CASE WaitsNext
  <2> DEFINE rest == {j \in Slots : j > wait.job /\ j # thisjob /\ jobtab[j].stat # {}}
  <2>1. TypeOK'
    BY <1>7 DEF WaitsNext, TypeOK, table, kernel
  <2>2. /\ pc = "waitall" /\ UNCHANGED <<table, newjob>>
        /\ \/ pc' = "launch" /\ wait' = NoWait
           \/ pc' = "wait" /\ rest # {} /\ wait' = [job |-> Lowest(rest), int |-> TRUE, caller |-> "waitall"]
    BY <1>7 DEF WaitsNext, Waits, Goto, At
  <2>3. rest # {} => Lowest(rest) \in Slots
    <3>1. rest \in SUBSET Slots
      OBVIOUS
    <3> HIDE DEF rest
    <3> QED BY <3>1, LowestOf
  <2> HIDE DEF rest
  <2>4. /\ wait' \in WaitArgs
        /\ pc' = "wait" => wait'.job \in Slots /\ wait'.caller = "waitall"
    <3>1. CASE pc' = "launch" /\ wait' = NoWait
      BY <3>1, Constants DEF NoWait, WaitArgs
    <3>2. CASE rest # {} /\ wait' = [job |-> Lowest(rest), int |-> TRUE, caller |-> "waitall"]
      <4>1. "waitall" \in Callers
        BY DEF Callers
      <4> QED BY <2>3, <3>2, <4>1, WaitTyped
    <3> QED BY <2>2, <3>1, <3>2
  <2> QED BY <2>1, <2>2, <2>4, ShapeKept DEF table, LastSlot
<1> QED BY <1>2, <1>3, <1>4, <1>5, <1>6, <1>7 DEF Builtins

-----------------------------------------------------------------------------
(* The entries and their processes. *)

\* The table forgets no live process, but for disown.
Spares ==
  \A j \in Slots : \A i \in DOMAIN jobtab[j].procs :
    Alive(jobtab[j].procs[i].pid) /\ jobtab'[j].procs = <<>> => Disowning

\* A job that is done has no live process.
LEMMA DoneAreDead ==
  ASSUME EntriesOK, NEW j \in Slots, "DONE" \in jobtab[j].stat, NEW i \in DOMAIN jobtab[j].procs
  PROVE  ~ Alive(jobtab[j].procs[i].pid)
BY DEF EntriesOK, Alive

\* The steps that start no process, and of which no entry learns.
Plain ==
  \/ HandlerStarts \/ HandlerEnds \/ Interrupt
  \/ Prompt
  \/ \E c \in Lines : execpline(c)
  \/ SubstSuspends \/ CommandFails \/ LaunchAsync \/ LaunchSync
  \/ Waitjob
  \/ BuiltinRefuses \/ BuiltinDisowns \/ BuiltinLists \/ BuiltinWaitsAll \/ WaitsNext

\* They leave the kernel alone.
LEMMA PlainKernel ==
  ASSUME Plain
  PROVE  UNCHANGED <<child, unreported, cmdoutpid>>
BY DEF Plain, HandlerStarts, HandlerEnds, Interrupt, Prompt, preprompt, ScanTests, ScanClears,
       execpline, SubstSuspends, CommandFails, LaunchAsync, LaunchSync,
       Waitjob, WaitEnters, WaitTests, WaitSuspends, WaitUnblocks, WaitReturns,
       BuiltinRefuses, BuiltinDisowns, BuiltinLists, BuiltinWaitsAll, WaitsNext, kernel

\* They take from the table only what is done or disowned.
LEMMA PlainFewer ==
  ASSUME Shape, Plain
  PROVE  Fewer
<1> USE DEF Shape
<1>1. ASSUME UNCHANGED jobtab PROVE Fewer
  BY <1>1 DEF Fewer
<1>2. ASSUME NEW T \in Cleaned(Table), Becomes(T) PROVE Fewer
  BY <1>2, CleanedTable
<1>3. CASE HandlerStarts \/ HandlerEnds \/ Interrupt \/ SubstSuspends \/ CommandFails \/ LaunchSync
           \/ WaitTests \/ WaitSuspends \/ WaitUnblocks \/ WaitsNext \/ preprompt
  BY <1>1, <1>3 DEF HandlerStarts, HandlerEnds, Interrupt, SubstSuspends, CommandFails, LaunchSync,
     WaitTests, WaitSuspends, WaitUnblocks, WaitsNext, preprompt, table
<1>4. CASE WaitReturns
  <2>1. wait.caller \in Callers
    BY <1>4 DEF WaitReturns, At, ControlOK, Waiting, Sleeping
  <2>2. UNCHANGED jobtab
    BY <1>4, <2>1 DEF WaitReturns, Callers, Becomes, Table, table
  <2> QED BY <1>1, <2>2
<1>5. CASE ScanTests
  <2>1. wait.job \in Slots
    BY <1>5 DEF ScanTests, At, ControlOK
  <2>2. printjob(Table, wait.job) \in Cleaned(Table)
    BY <2>1, TypeParts, Printed
  <2>3. Becomes(printjob(Table, wait.job)) \/ UNCHANGED jobtab
    BY <1>5 DEF ScanTests, table
  <2> QED BY <1>1, <1>2, <2>2, <2>3
<1>6. CASE ScanClears
  <2>1. wait.job \in Slots
    BY <1>6 DEF ScanClears, At, ControlOK
  <2>2. Clear(Table, wait.job, {"CHANGED"}) \in Cleaned(Table)
    BY <2>1, TypeParts, Marked DEF Flags
  <2> QED BY <1>2, <1>6, <2>2 DEF ScanClears
<1>7. ASSUME NEW c \in Lines, execpline(c) PROVE Fewer
  <2> DEFINE j == Lowest(FreeSlots)
             st == IF c.op = "run" THEN {"INUSE"} ELSE {"INUSE", "CURSH"}
  <2>1. j \in Slots
    BY <1>7, LowestOf DEF execpline, FreeSlots
  <2>2. jobtab' = [jobtab EXCEPT ![j].stat = st]
    BY <1>7 DEF execpline, Becomes, Table
  <2>3. "DONE" \notin st
    OBVIOUS
  <2> HIDE DEF j, st
  <2> QED BY <2>1, <2>2, <2>3 DEF Fewer, TypeOK, Job
<1>8. CASE LaunchAsync
  <2> DEFINE T == Set(Table, thisjob, {"NOSTTY"})
             gone == deletejob(T, thisjob)
             S == spawnjob(T)
  <2>1. thisjob \in Slots
    BY <1>8 DEF LaunchAsync, At, ControlOK, TypeOK
  <2>2. {"NOSTTY"} \in SUBSET Flags
    BY DEF Flags
  <2>3. /\ T \in Tables /\ T.this = thisjob
        /\ T.tab[thisjob].procs = jobtab[thisjob].procs
        /\ T.tab[thisjob].stat = jobtab[thisjob].stat \cup {"NOSTTY"}
        /\ \A k \in Slots \ {thisjob} : T.tab[k] = jobtab[k]
    BY <2>1, <2>2, TypeParts, Marked
  <2>4. jobtab' = IF cmd.how = "disown" THEN gone.tab ELSE S.tab
    <3> HIDE DEF T
    <3>1. gone \in Tables
      BY <2>1, <2>3, Zeroed
    <3> HIDE DEF gone
    <3>2. [gone EXCEPT !.this = None].tab = gone.tab
      BY <3>1 DEF Tables
    <3> QED BY <1>8, <3>2 DEF LaunchAsync, Becomes, T, gone
  <2> HIDE DEF T
  <2>5. CASE cmd.how = "disown"
    <3>1. Disowning
      BY <1>8, <2>5 DEF LaunchAsync, Disowning
    <3>2. gone.tab[thisjob] = zero /\ \A k \in Slots \ {thisjob} : gone.tab[k] = T.tab[k]
      BY <2>1, <2>3, Zeroed
    <3> HIDE DEF gone
    <3> QED BY <2>3, <2>4, <2>5, <3>1, <3>2 DEF Fewer, zero
  <2>6. CASE cmd.how # "disown"
    <3>1. /\ \A k \in Slots \ {thisjob} : S.tab[k] = T.tab[k]
          /\ S.tab[thisjob].procs = T.tab[thisjob].procs
          /\ S.tab[thisjob].stat \subseteq T.tab[thisjob].stat \cup {"LOCKED"}
      BY <2>1, <2>3, Spawned
    <3> HIDE DEF S
    <3> QED BY <2>3, <2>4, <2>6, <3>1 DEF Fewer
  <2> QED BY <2>5, <2>6
<1>9. CASE WaitEnters
  <2>1. wait.job \in Slots
    BY <1>9 DEF WaitEnters, At, ControlOK, Waiting
  <2>2. PICK T \in Tables :
           /\ Becomes(T)
           /\ \A k \in Slots :
                /\ \/ T.tab[k].procs = jobtab[k].procs
                   \/ T.tab[k].procs = <<>> /\ "DONE" \in jobtab[k].stat
                /\ T.tab[k].stat \subseteq
                     jobtab[k].stat \cup IF k = wait.job THEN {"LOCKED"} ELSE {}
    BY <1>9, <2>1, WaitEntered
  <2> QED BY <2>2 DEF Becomes, Fewer
<1>10. CASE BuiltinRefuses \/ BuiltinWaitsAll
  <2>1. Becomes(Scanned)
    BY <1>10 DEF BuiltinRefuses, BuiltinWaitsAll
  <2> HIDE DEF Scanned
  <2> QED BY <1>2, <2>1, ScannedTable
<1>11. CASE BuiltinLists
  <2>1. Becomes(Listed(Scanned))
    BY <1>11 DEF BuiltinLists
  <2> HIDE DEF Scanned
  <2>2. Listed(Scanned) \in Cleaned(Table)
    BY ScannedTable, JobsListed, CleansChain, TypeParts DEF Cleaned
  <2> QED BY <1>2, <2>1, <2>2
<1>12. CASE BuiltinDisowns
  <2> DEFINE j == Named(Scanned)
             T == deletejob(Scanned, j)
  <2>1. /\ pc = "builtin" /\ cmd.op = "disown" /\ ~ Refused(Scanned) /\ Becomes(T)
    BY <1>12 DEF BuiltinDisowns, Builtin, At
  <2> HIDE DEF Scanned
  <2>2. /\ Scanned \in Tables /\ Cleans(Table, Scanned) /\ j \in Slots
    BY <2>1, JobNamed
  <2> HIDE DEF j
  <2>3. T.tab[j] = zero /\ \A k \in Slots \ {j} : T.tab[k] = Scanned.tab[k]
    BY <2>2, Zeroed
  <2> HIDE DEF T
  <2>4. jobtab' = T.tab /\ Table.tab = jobtab /\ Disowning
    BY <2>1, TypeParts DEF Becomes, Disowning
  <2> HIDE DEF Table
  <2> QED BY <2>2, <2>3, <2>4 DEF Cleans, Fewer, zero
<1> QED BY <1>3, <1>4, <1>5, <1>6, <1>7, <1>8, <1>9, <1>10, <1>11, <1>12 DEF Plain, Prompt, Waitjob

\* So they keep what is said of the entries.
LEMMA PlainStep ==
  ASSUME IInv, Plain
  PROVE  ForkOK' /\ EntriesOK' /\ Distinct' /\ SignalOK' /\ Spares
<1> USE DEF IInv
<1>1. Fewer /\ UNCHANGED <<child, unreported, cmdoutpid>>
  BY PlainFewer, PlainKernel DEF Shape
<1>2. EntriesOK' /\ Distinct' /\ \A p : Absent(p) => Absent(p)'
  BY <1>1, FewerEntries
<1>3. /\ pc' = "forked" => pc = "forked" /\ UNCHANGED <<mask, inhandler, thisjob, pid>>
      /\ pc' = "substread" => pc = "substread" /\ pid' = pid
  <2>1. CASE HandlerStarts
    BY <2>1 DEF HandlerStarts, ForkOK
  <2>2. CASE HandlerEnds
    BY <2>2 DEF HandlerEnds, Woken, ForkOK
  <2>3. CASE Interrupt
    BY <2>3 DEF Interrupt, Woken, ForkOK, table
  <2>4. CASE Prompt
    BY <2>4 DEF Prompt, preprompt, ScanTests, ScanClears, ScanNext, Goto
  <2>5. CASE \E c \in Lines : execpline(c)
    BY <2>5 DEF execpline, Goto
  <2>6. CASE SubstSuspends
    BY <2>6 DEF SubstSuspends, Goto, At
  <2>7. CASE CommandFails \/ LaunchAsync \/ LaunchSync
    BY <2>7 DEF CommandFails, AfterCommand, LaunchAsync, LaunchSync, Waits, Goto
  <2>8. CASE Waitjob
    <3>1. CASE WaitReturns
      <4>1. wait.caller \in Callers
        BY <3>1 DEF WaitReturns, At, ControlOK, Waiting, Sleeping
      <4> QED BY <3>1, <4>1 DEF WaitReturns, Waits, Goto, Callers
    <3> QED BY <2>8, <3>1 DEF Waitjob, WaitEnters, WaitTests, WaitSuspends, WaitUnblocks, Goto
  <2>9. CASE BuiltinRefuses \/ BuiltinDisowns \/ BuiltinLists \/ BuiltinWaitsAll \/ WaitsNext
    BY <2>9 DEF BuiltinRefuses, BuiltinDisowns, BuiltinLists, BuiltinWaitsAll, WaitsNext, Waits, Goto
  <2> QED BY <2>1, <2>2, <2>3, <2>4, <2>5, <2>6, <2>7, <2>8, <2>9 DEF Plain
<1>4. ForkOK'
  <2>1. ASSUME pc' = "forked"
        PROVE  /\ mask' = "blocked" /\ inhandler' = FALSE /\ thisjob' < MAXJOB - 1
               /\ pid' \in Pids /\ pid' # cmdoutpid'
               /\ child'[pid'] \notin {"unborn", "gone"}
               /\ child'[pid'] = "stopped" => pid' \in unreported'
               /\ Absent(pid)'
    <3>1. Absent(pid)
      BY <1>3, <2>1 DEF ForkOK
    <3>2. Absent(pid)'
      <4>1. PICK p : p = pid
        OBVIOUS
      <4>2. Absent(p)'
        BY <1>2, <3>1, <4>1
      <4>3. pid' = p
        BY <1>3, <2>1, <4>1
      <4> QED BY <4>2, <4>3 DEF Absent
    <3> QED BY <1>1, <1>3, <2>1, <3>2 DEF ForkOK
  <2>2. pc' = "substread" => pid' \in Pids
    BY <1>3 DEF ForkOK
  <2>3. cmdoutpid' # NoPid => child'[cmdoutpid'] # "unborn" /\ Absent(cmdoutpid)'
    <3>1. PICK p : p = cmdoutpid
      OBVIOUS
    <3>2. p # NoPid => child[p] # "unborn" /\ Absent(p)'
      BY <1>2, <3>1 DEF ForkOK
    <3> QED BY <1>1, <3>1, <3>2 DEF Absent
  <2> QED BY <2>1, <2>2, <2>3 DEF ForkOK
<1>5. SignalOK'
  <2>1. \A p : Waitable(p)' <=> Waitable(p)
    BY <1>1 DEF Waitable
  <2>2. CASE HandlerStarts
    BY <2>2 DEF HandlerStarts, SignalOK
  <2>3. CASE HandlerEnds
    BY <2>1, <2>3 DEF HandlerEnds, SignalOK
  <2>4. CASE ~ HandlerStarts /\ ~ HandlerEnds
    <3>1. UNCHANGED <<sigchld, inhandler>>
      BY <2>4 DEF Plain, Interrupt, Prompt, preprompt, ScanTests, ScanClears,
       execpline, SubstSuspends, CommandFails, LaunchAsync, LaunchSync,
       Waitjob, WaitEnters, WaitTests, WaitSuspends, WaitUnblocks, WaitReturns,
       BuiltinRefuses, BuiltinDisowns, BuiltinLists, BuiltinWaitsAll, WaitsNext, kernel
    <3> QED BY <2>1, <3>1 DEF SignalOK
  <2> QED BY <2>2, <2>3, <2>4
<1>6. Spares
  <2>1. DOMAIN <<>> = {}
    OBVIOUS
  <2> QED BY <1>1, <2>1, DoneAreDead DEF Spares, Fewer
<1> QED BY <1>2, <1>4, <1>5, <1>6

\* A process ends, stops or is continued by somebody else.
LEMMA KernelStep ==
  ASSUME IInv, Kernel
  PROVE  ForkOK' /\ EntriesOK' /\ Distinct' /\ SignalOK' /\ Spares
<1> USE DEF IInv
<1>1. UNCHANGED <<table, cmdoutpid, mask, inhandler, pc, pid>>
  BY DEF Kernel, ChildEnds, ChildStops, ChildContinues
<1>2. PICK p \in Pids :
        \/ \E how \in Ended : ChildEnds(p, how)
        \/ ChildStops(p)
        \/ ChildContinues(p)
  BY DEF Kernel, Ended
<1>3. /\ child[p] \in {"running", "stopped"}
      /\ child'[p] \in {"running", "stopped"} \cup Ended
      /\ child'[p] = "stopped" => p \in unreported'
      /\ \A q \in Pids \ {p} : child'[q] = child[q] /\ (q \in unreported' <=> q \in unreported)
      /\ Waitable(p)' => sigchld' = TRUE
      /\ sigchld = TRUE => sigchld' = TRUE
  <2>1. CASE \E how \in Ended : ChildEnds(p, how)
    BY <2>1 DEF ChildEnds, TypeOK, Ended
  <2>2. CASE ChildStops(p)
    BY <2>2 DEF ChildStops, TypeOK
  <2>3. CASE ChildContinues(p)
    BY <2>3 DEF ChildContinues, Continued, TypeOK, Waitable
  <2> QED BY <1>2, <2>1, <2>2, <2>3
<1>4. \A q \in Pids :
        /\ child'[q] = "unborn" <=> child[q] = "unborn"
        /\ child'[q] = "gone" <=> child[q] = "gone"
        /\ (child[q] = "stopped" => q \in unreported) => (child'[q] = "stopped" => q \in unreported')
  BY <1>3 DEF Ended
<1>5. EntriesOK'
  <2> SUFFICES ASSUME NEW j \in Slots, NEW i \in DOMAIN jobtab[j].procs
               PROVE  LET e == jobtab[j].procs[i] IN
                        /\ child'[e.pid] # "unborn"
                        /\ e.status \in Ended <=> child'[e.pid] = "gone"
                        /\ e.status = "running" /\ child'[e.pid] = "stopped" => e.pid \in unreported'
                        /\ "DONE" \in jobtab[j].stat => e.status \in Ended
    BY <1>1 DEF EntriesOK, table
  <2>1. jobtab[j].procs[i].pid \in Pids
    BY TypedEntry DEF TypeOK
  <2> QED BY <1>4, <2>1 DEF EntriesOK
<1>6. Distinct'
  BY <1>1 DEF Distinct, table
<1>7. \A q : Absent(q) => Absent(q)'
  BY <1>1 DEF Absent, table
<1>8. ForkOK'
  <2>1. cmdoutpid # NoPid => cmdoutpid \in Pids
    BY DEF TypeOK
  <2>2. pc = "forked" => pid \in Pids /\ child'[pid] \notin {"unborn", "gone"}
                         /\ (child'[pid] = "stopped" => pid \in unreported')
    BY <1>4 DEF ForkOK
  <2> QED BY <1>1, <1>4, <1>7, <2>1, <2>2 DEF ForkOK, Absent, table
<1>9. SignalOK'
  <2>1. \A q \in Pids \ {p} : Waitable(q)' => Waitable(q)
    BY <1>3 DEF Waitable
  <2> QED BY <1>1, <1>3, <2>1 DEF SignalOK
<1>10. Spares
  <2>1. DOMAIN <<>> = {}
    OBVIOUS
  <2> QED BY <1>1, <2>1 DEF Spares, table
<1> QED BY <1>5, <1>6, <1>8, <1>9, <1>10

\* The handler waits for process p.
LEMMA ReapedStep ==
  ASSUME IInv, NEW p \in Pids, HandlerReaps(p)
  PROVE  ForkOK' /\ EntriesOK' /\ Distinct' /\ SignalOK' /\ Spares
<1> USE DEF IInv
<1>1. /\ child[p] \in {"exited", "killed", "stopped"}
      /\ child'[p] = IF child[p] = "stopped" THEN "stopped" ELSE "gone"
      /\ \A q \in Pids \ {p} : child'[q] = child[q] /\ (q \in unreported' <=> q \in unreported)
  BY DEF HandlerReaps, Waitable, TypeOK
<1>2. inhandler = TRUE /\ UNCHANGED <<mask, inhandler, pc, pid, sigchld>>
  BY DEF HandlerReaps, TypeOK
<1>3. \A j \in Slots : \A i \in DOMAIN jobtab[j].procs :
        jobtab[j].procs[i].pid \in Pids /\ jobtab[j].procs[i].status \in ProcStatus
  BY TypedEntry DEF TypeOK
<1>4. EntriesOK' /\ Distinct' /\ Spares /\ \A q : Absent(q) => Absent(q)'
  <2>1. CASE p # cmdoutpid /\ ~ Absent(p)
    <3>1. PICK j \in Slots, V \in Tables, R \in Tables : \E i \in DOMAIN jobtab[j].procs :
           /\ jobtab[j].procs[i].pid = p
           /\ V.this = thisjob
           /\ \A k \in Slots \ {j} : V.tab[k] = jobtab[k]
           /\ V.tab[j].stat = jobtab[j].stat
           /\ DOMAIN V.tab[j].procs = DOMAIN jobtab[j].procs
           /\ \A l \in DOMAIN jobtab[j].procs :
                /\ V.tab[j].procs[l].pid = jobtab[j].procs[l].pid
                /\ V.tab[j].procs[l].status = IF l = i THEN child[p] ELSE jobtab[j].procs[l].status
           /\ Judged(V, R, j)
           /\ Becomes(R)
      BY <2>1, EntryReaped
    <3>2. PICK i \in DOMAIN jobtab[j].procs :
           /\ jobtab[j].procs[i].pid = p
           /\ \A l \in DOMAIN jobtab[j].procs :
                /\ V.tab[j].procs[l].pid = jobtab[j].procs[l].pid
                /\ V.tab[j].procs[l].status = IF l = i THEN child[p] ELSE jobtab[j].procs[l].status
      BY <3>1
    <3>3. jobtab' = R.tab
      BY <3>1 DEF Becomes
    <3>4. \A k \in Slots : \A l \in DOMAIN jobtab'[k].procs :
            /\ l \in DOMAIN jobtab[k].procs
            /\ jobtab'[k].procs[l].pid = jobtab[k].procs[l].pid
            /\ jobtab'[k].procs[l].status = IF k = j /\ l = i THEN child[p] ELSE jobtab[k].procs[l].status
      <4> SUFFICES ASSUME NEW k \in Slots, NEW l \in DOMAIN jobtab'[k].procs
                   PROVE  /\ l \in DOMAIN jobtab[k].procs
                          /\ jobtab'[k].procs[l].pid = jobtab[k].procs[l].pid
                          /\ jobtab'[k].procs[l].status =
                               IF k = j /\ l = i THEN child[p] ELSE jobtab[k].procs[l].status
        OBVIOUS
      <4>1. DOMAIN <<>> = {}
        OBVIOUS
      <4>2. R.tab[k].procs = V.tab[k].procs
        BY <3>1, <3>3, <4>1 DEF Judged
      <4>3. CASE k = j
        BY <3>1, <3>2, <3>3, <4>2, <4>3
      <4>4. CASE k # j
        BY <3>1, <3>3, <4>2, <4>4
      <4> QED BY <4>3, <4>4
    <3>5. \A k \in Slots : \A l \in DOMAIN jobtab[k].procs :
            jobtab[k].procs[l].pid = p => k = j /\ l = i
      BY <3>2 DEF Distinct, DistinctIn
    <3>6. ASSUME NEW k \in Slots, NEW l \in DOMAIN jobtab'[k].procs, "DONE" \in jobtab'[k].stat
          PROVE  jobtab'[k].procs[l].status \in Ended
      <4>1. CASE k # j
        <5>1. "DONE" \in jobtab[k].stat
          BY <3>1, <3>3, <3>6, <4>1 DEF Judged
        <5> QED BY <3>4, <4>1, <5>1 DEF EntriesOK
      <4>2. CASE k = j
        <5>1. "DONE" \notin jobtab[j].stat
          BY <1>1, <3>2 DEF EntriesOK
        <5>2. EndedJob(V.tab[j])
          BY <3>1, <3>3, <3>6, <4>2, <5>1 DEF Judged
        <5> QED BY <3>1, <3>2, <3>4, <4>2, <5>2 DEF EndedJob
      <4> QED BY <4>1, <4>2
    <3>7. EntriesOK'
      <4> SUFFICES ASSUME NEW k \in Slots, NEW l \in DOMAIN jobtab'[k].procs
                   PROVE  LET e == jobtab'[k].procs[l] IN
                            /\ child'[e.pid] # "unborn"
                            /\ e.status \in Ended <=> child'[e.pid] = "gone"
                            /\ e.status = "running" /\ child'[e.pid] = "stopped" => e.pid \in unreported'
                            /\ "DONE" \in jobtab'[k].stat => e.status \in Ended
        BY DEF EntriesOK
      <4>1. CASE k = j /\ l = i
        BY <1>1, <3>2, <3>4, <3>6, <4>1 DEF Ended
      <4>2. CASE ~ (k = j /\ l = i)
        <5>1. /\ l \in DOMAIN jobtab[k].procs
              /\ jobtab'[k].procs[l].pid = jobtab[k].procs[l].pid
              /\ jobtab'[k].procs[l].status = jobtab[k].procs[l].status
              /\ jobtab[k].procs[l].pid \in Pids \ {p}
          BY <1>3, <3>4, <3>5, <4>2
        <5> QED BY <1>1, <3>6, <5>1 DEF EntriesOK
      <4> QED BY <4>1, <4>2
    <3>8. Distinct'
      BY <3>4 DEF Distinct, DistinctIn
    <3>9. \A q : Absent(q) => Absent(q)'
      BY <3>4 DEF Absent
    <3>10. Spares
      <4> SUFFICES ASSUME NEW k \in Slots, NEW l \in DOMAIN jobtab[k].procs,
                          Alive(jobtab[k].procs[l].pid), jobtab'[k].procs = <<>>
                   PROVE  FALSE
        BY DEF Spares
      <4>1. "DONE" \notin jobtab[k].stat /\ DOMAIN <<>> = {}
        BY DoneAreDead
      <4>2. k = j
        BY <3>1, <3>3, <4>1 DEF Judged
      <4>3. EndedJob(V.tab[j])
        BY <3>1, <3>3, <4>1, <4>2 DEF Judged
      <4>4. V.tab[j].procs[l].status \in Ended
        BY <3>1, <4>2, <4>3 DEF EndedJob
      <4>5. CASE l = i
        BY <3>2, <4>2, <4>4, <4>5 DEF Alive, Ended
      <4>6. CASE l # i
        BY <3>2, <4>2, <4>4, <4>6 DEF EntriesOK, Alive
      <4> QED BY <4>5, <4>6
    <3> QED BY <3>7, <3>8, <3>9, <3>10
  <2>2. CASE ~ (p # cmdoutpid /\ ~ Absent(p))
    <3>1. UNCHANGED jobtab
      BY <2>2, TypeParts DEF HandlerReaps, Absent, Holders, PidsOf, table
    <3>2. Absent(p)
      <4>1. p # NoPid
        BY JobsAssumption
      <4> QED BY <2>2, <4>1 DEF ForkOK
    <3>3. \A k \in Slots : \A l \in DOMAIN jobtab[k].procs : jobtab[k].procs[l].pid \in Pids \ {p}
      BY <1>3, <3>2 DEF Absent
    <3>4. EntriesOK'
      BY <1>1, <3>1, <3>3 DEF EntriesOK
    <3>5. Spares
      <4>1. DOMAIN <<>> = {}
        OBVIOUS
      <4> QED BY <3>1, <4>1 DEF Spares
    <3> QED BY <3>1, <3>4, <3>5 DEF Distinct, Absent
  <2> QED BY <2>1, <2>2
<1>5. ForkOK'
  <2>1. pc' # "forked"
    BY <1>2 DEF ForkOK
  <2>2. pc' = "substread" => pid' \in Pids
    BY <1>2 DEF ForkOK
  <2>3. cmdoutpid' # NoPid => child'[cmdoutpid'] # "unborn" /\ Absent(cmdoutpid)'
    <3>1. SUFFICES ASSUME cmdoutpid' # NoPid
                   PROVE  child'[cmdoutpid'] # "unborn" /\ Absent(cmdoutpid)'
      OBVIOUS
    <3>2. PICK c \in Pids : c = cmdoutpid /\ c = cmdoutpid' /\ c # p
      BY <3>1 DEF HandlerReaps, TypeOK
    <3>3. child[c] # "unborn" /\ Absent(c)'
      BY <1>4, <3>1, <3>2 DEF ForkOK
    <3> QED BY <1>1, <3>2, <3>3 DEF Absent
  <2> QED BY <2>1, <2>2, <2>3 DEF ForkOK
<1>6. SignalOK'
  BY <1>2 DEF SignalOK
<1> QED BY <1>4, <1>5, <1>6

\* The two forks: a new process, in no entry yet.
LEMMA ForkStep ==
  ASSUME IInv, getoutput \/ CommandForks
  PROVE  ForkOK' /\ EntriesOK' /\ Distinct' /\ SignalOK' /\ Spares
<1> USE DEF IInv
<1>1. UNCHANGED <<table, inhandler, unreported, sigchld>> /\ inhandler = FALSE /\ pc = "build"
  BY DEF getoutput, CommandForks, Building, At, TypeOK
<1>2. ASSUME UNCHANGED child PROVE ForkOK' /\ EntriesOK' /\ Distinct' /\ SignalOK'
  <2>1. Fewer
    BY <1>1 DEF Fewer, table
  <2>2. EntriesOK' /\ Distinct' /\ \A p : Absent(p) => Absent(p)'
    BY <1>1, <1>2, <2>1, FewerEntries
  <2>3. getoutput /\ pc' = "build" /\ cmdoutpid' = NoPid
    <3>1. ASSUME NEW p \in Fresh PROVE child # [child EXCEPT ![p] = "running"]
      BY DEF Fresh, TypeOK
    <3> QED BY <1>1, <1>2, <3>1 DEF getoutput, CommandForks
  <2>4. ForkOK'
    BY <2>3 DEF ForkOK
  <2>5. SignalOK'
    BY <1>1, <1>2 DEF SignalOK, Waitable
  <2> QED BY <2>2, <2>4, <2>5
<1>3. ASSUME ~ UNCHANGED child PROVE ForkOK' /\ EntriesOK' /\ Distinct' /\ SignalOK'
  <2>1. PICK p \in Fresh :
          /\ child' = [child EXCEPT ![p] = "running"]
          /\ pid' = p /\ mask' = "blocked"
          /\ \/ pc' = "substread" /\ cmdoutpid' = p
             \/ pc' = "forked" /\ cmdoutpid' = cmdoutpid /\ thisjob < MAXJOB - 1
    BY <1>3 DEF getoutput, CommandForks, Goto
  <2>2. p \in Pids /\ child[p] = "unborn" /\ child'[p] = "running"
        /\ \A q \in Pids \ {p} : child'[q] = child[q]
    BY <2>1 DEF Fresh, TypeOK
  <2>3. Absent(p) /\ p # cmdoutpid
    BY <2>2, JobsAssumption DEF Absent, EntriesOK, ForkOK
  <2>4. \A k \in Slots : \A l \in DOMAIN jobtab[k].procs : jobtab[k].procs[l].pid \in Pids \ {p}
    BY <2>3, TypedEntry DEF Absent, TypeOK
  <2>5. EntriesOK'
    BY <1>1, <2>2, <2>4 DEF EntriesOK, table
  <2>6. Distinct' /\ \A q : Absent(q) => Absent(q)'
    BY <1>1 DEF Distinct, Absent, table
  <2>7. ForkOK'
    <3>1. CASE pc' = "substread" /\ cmdoutpid' = p
      BY <2>1, <2>2, <2>3, <2>6, <3>1 DEF ForkOK, Absent
    <3>2. CASE pc' = "forked" /\ cmdoutpid' = cmdoutpid /\ thisjob < MAXJOB - 1
      <4>1. cmdoutpid # NoPid => cmdoutpid \in Pids
        BY DEF TypeOK
      <4>2. cmdoutpid' # NoPid => child'[cmdoutpid'] # "unborn" /\ Absent(cmdoutpid)'
        BY <1>1, <2>2, <2>3, <3>2, <4>1 DEF ForkOK, Absent, table
      <4>3. Absent(pid)'
        BY <1>1, <2>1, <2>3 DEF Absent, table
      <4> QED BY <1>1, <2>1, <2>2, <2>3, <3>2, <4>2, <4>3 DEF ForkOK, table
    <3> QED BY <2>1, <3>1, <3>2
  <2>8. SignalOK'
    BY <1>1, <2>2 DEF SignalOK, Waitable
  <2> QED BY <2>5, <2>6, <2>7, <2>8
<1>4. Spares
  <2>1. DOMAIN <<>> = {}
    OBVIOUS
  <2> QED BY <1>1, <2>1 DEF Spares, table
<1> QED BY <1>2, <1>3, <1>4

\* A sequence with one more element.
LEMMA Appended ==
  ASSUME NEW S, NEW s \in Seq(S), NEW e \in S
  PROVE  /\ DOMAIN s = 1 .. Len(s) /\ Len(s) \in Nat
         /\ DOMAIN Append(s, e) = 1 .. Len(s) + 1
         /\ \A i \in 1 .. Len(s) : Append(s, e)[i] = s[i]
         /\ Append(s, e)[Len(s) + 1] = e
OBVIOUS

\* The process joins its job.
LEMMA AddStep ==
  ASSUME IInv, addproc
  PROVE  ForkOK' /\ EntriesOK' /\ Distinct' /\ SignalOK' /\ Spares
<1> USE DEF IInv
<1> DEFINE j == thisjob
           s == jobtab[j].procs
           e == [pid |-> pid, status |-> "running"]
<1>1. pc = "forked" /\ UNCHANGED <<child, unreported, cmdoutpid, inhandler, sigchld>>
  BY DEF addproc, At, kernel
<1>2. /\ pid \in Pids /\ pid # cmdoutpid /\ child[pid] \notin {"unborn", "gone"}
      /\ child[pid] = "stopped" => pid \in unreported
      /\ Absent(pid)
  BY <1>1 DEF ForkOK
<1>3. thisjob \in Slots
  BY <1>1, Constants DEF ControlOK, Constructing, TypeOK
<1>4. PICK n \in Nat : n = Len(s)
  BY <1>3 DEF TypeOK, Job
<1>5. e \in Process /\ s \in Seq(Process)
  BY <1>2, <1>3 DEF Process, ProcStatus, TypeOK, Job
<1>6. /\ jobtab'[j].stat = jobtab[j].stat \ {"DONE"}
      /\ jobtab'[j].procs = Append(s, e)
      /\ \A k \in Slots \ {j} : jobtab'[k] = jobtab[k]
  <2> DEFINE jn == [stat |-> jobtab[j].stat \ {"DONE"}, procs |-> Append(s, e)]
  <2>1. jobtab' = [jobtab EXCEPT ![j] = jn]
    BY DEF addproc, Becomes, Table
  <2>2. jn.stat = jobtab[j].stat \ {"DONE"} /\ jn.procs = Append(s, e)
    OBVIOUS
  <2> HIDE DEF jn
  <2> QED BY <1>3, <2>1, <2>2 DEF TypeOK
<1>7. /\ DOMAIN jobtab'[j].procs = 1 .. n + 1 /\ DOMAIN s = 1 .. n
      /\ \A i \in 1 .. n : jobtab'[j].procs[i] = s[i]
      /\ jobtab'[j].procs[n + 1] = e
  BY <1>4, <1>5, <1>6, Appended
<1>8. e.pid = pid /\ e.status = "running"
  OBVIOUS
<1>9. \A i \in 1 .. n + 1 : i \in 1 .. n \/ i = n + 1
  OBVIOUS
<1> HIDE DEF e
<1>10. EntriesOK'
  <2> SUFFICES ASSUME NEW k \in Slots, NEW l \in DOMAIN jobtab'[k].procs
               PROVE  LET f == jobtab'[k].procs[l] IN
                        /\ child'[f.pid] # "unborn"
                        /\ f.status \in Ended <=> child'[f.pid] = "gone"
                        /\ f.status = "running" /\ child'[f.pid] = "stopped" => f.pid \in unreported'
                        /\ "DONE" \in jobtab'[k].stat => f.status \in Ended
    BY DEF EntriesOK
  <2>1. CASE k = j /\ l = n + 1
    <3>1. jobtab'[k].procs[l] = e /\ "DONE" \notin jobtab'[k].stat
      BY <1>6, <1>7, <2>1
    <3> QED BY <1>1, <1>2, <1>8, <3>1 DEF Ended
  <2>2. CASE k = j /\ l # n + 1
    <3>1. /\ l \in DOMAIN jobtab[k].procs /\ jobtab'[k].procs[l] = jobtab[k].procs[l]
          /\ "DONE" \notin jobtab'[k].stat
      BY <1>6, <1>7, <1>9, <2>2
    <3> QED BY <1>1, <3>1 DEF EntriesOK
  <2>3. CASE k # j
    BY <1>1, <1>6, <2>3 DEF EntriesOK
  <2> QED BY <2>1, <2>2, <2>3
<1>11. \A k \in Slots : \A l \in DOMAIN jobtab'[k].procs :
         \/ k = j /\ l = n + 1 /\ jobtab'[k].procs[l].pid = pid
         \/ /\ l \in DOMAIN jobtab[k].procs /\ ~ (k = j /\ l = n + 1)
            /\ jobtab'[k].procs[l].pid = jobtab[k].procs[l].pid
  <2> SUFFICES ASSUME NEW k \in Slots, NEW l \in DOMAIN jobtab'[k].procs
               PROVE  \/ k = j /\ l = n + 1 /\ jobtab'[k].procs[l].pid = pid
                      \/ /\ l \in DOMAIN jobtab[k].procs /\ ~ (k = j /\ l = n + 1)
                         /\ jobtab'[k].procs[l].pid = jobtab[k].procs[l].pid
    OBVIOUS
  <2>1. CASE k = j
    BY <1>7, <1>8, <1>9, <2>1
  <2>2. CASE k # j
    BY <1>6, <2>2
  <2> QED BY <2>1, <2>2
<1>12. Distinct'
  BY <1>2, <1>11 DEF Distinct, DistinctIn, Absent
<1>13. \A q : q # pid /\ Absent(q) => Absent(q)'
  BY <1>11 DEF Absent
<1>14. ForkOK'
  <2>1. pc' \in {"launch", "build"}
    BY DEF addproc, AfterCommand, Goto
  <2>2. cmdoutpid # NoPid => Absent(cmdoutpid)'
    <3>1. PICK c : c = cmdoutpid
      OBVIOUS
    <3>2. c # NoPid => Absent(c)'
      BY <1>2, <1>13, <3>1 DEF ForkOK
    <3> QED BY <1>1, <3>1, <3>2 DEF Absent
  <2> QED BY <1>1, <2>1, <2>2 DEF ForkOK
<1>15. SignalOK'
  BY <1>1 DEF SignalOK, Waitable
<1>16. Spares
  <2>1. DOMAIN <<>> = {} /\ n + 1 \in 1 .. n + 1
    OBVIOUS
  <2>2. jobtab'[j].procs # <<>>
    BY <1>7, <2>1
  <2> QED BY <1>6, <2>1, <2>2 DEF Spares
<1> QED BY <1>10, <1>12, <1>14, <1>15, <1>16

\* fg, bg or wait continues the processes of a job that is stopped.
LEMMA ResumeStep ==
  ASSUME IInv, BuiltinResumes
  PROVE  ForkOK' /\ EntriesOK' /\ Distinct' /\ SignalOK' /\ Spares
<1> USE DEF IInv
<1> DEFINE j == Named(Scanned)
           M == IF IsStopped(Scanned, j) THEN makerunning(Scanned, j) ELSE Scanned
           U == Resumed(Scanned, j)
           P == PidsOf(Scanned.tab[j])
<1>1. /\ pc = "builtin" /\ cmd.op \in {"fg", "bg", "wait"} /\ ~ Refused(Scanned) /\ Becomes(U)
      /\ pc' \in {"launch", "wait"} /\ UNCHANGED <<cmdoutpid, inhandler>>
      /\ IF IsStopped(Scanned, j) THEN Continued(P) ELSE UNCHANGED kernel
  BY DEF BuiltinResumes, Builtin, At, Goto, Waits
<1> HIDE DEF Scanned
<1>2. Scanned \in Tables /\ Cleans(Table, Scanned) /\ j \in Slots
  BY <1>1, JobNamed
<1> HIDE DEF j
<1>3. /\ U \in Tables
      /\ \A k \in Slots :
           /\ \/ U.tab[k].procs = M.tab[k].procs
              \/ U.tab[k].procs = <<>> /\ "DONE" \in M.tab[k].stat
           /\ U.tab[k].stat \subseteq
                M.tab[k].stat \cup IF cmd.op = "bg" /\ k = j THEN {"NOSTTY"} ELSE {}
  BY <1>2, ResumedTable
<1> HIDE DEF U
<1>4. jobtab' = U.tab /\ Table.tab = jobtab
  BY <1>1, TypeParts DEF Becomes
<1> HIDE DEF Table
<1>5. /\ M \in Tables
      /\ \A k \in Slots : /\ M.tab[k].stat \subseteq Scanned.tab[k].stat
                           /\ DOMAIN M.tab[k].procs = DOMAIN Scanned.tab[k].procs
      /\ \A k \in Slots : \A l \in DOMAIN Scanned.tab[k].procs :
           /\ M.tab[k].procs[l].pid = Scanned.tab[k].procs[l].pid
           /\ M.tab[k].procs[l].status =
                IF k = j /\ IsStopped(Scanned, j) /\ Scanned.tab[k].procs[l].status = "stopped"
                THEN "running" ELSE Scanned.tab[k].procs[l].status
  <2>1. CASE IsStopped(Scanned, j)
    <3>1. M = makerunning(Scanned, j)
      BY <2>1
    <3> HIDE DEF M
    <3>2. /\ M \in Tables
          /\ \A k \in Slots \ {j} : M.tab[k] = Scanned.tab[k]
          /\ M.tab[j].stat \subseteq Scanned.tab[j].stat
          /\ DOMAIN M.tab[j].procs = DOMAIN Scanned.tab[j].procs
          /\ \A l \in DOMAIN Scanned.tab[j].procs :
              /\ M.tab[j].procs[l].pid = Scanned.tab[j].procs[l].pid
              /\ M.tab[j].procs[l].status = IF Scanned.tab[j].procs[l].status = "stopped" THEN "running"
                                            ELSE Scanned.tab[j].procs[l].status
      BY <1>2, <3>1, MadeRunning
    <3>3. \A k \in Slots : k = j \/ k \in Slots \ {j}
      OBVIOUS
    <3> QED BY <1>2, <2>1, <3>2, <3>3
  <2>2. CASE ~ IsStopped(Scanned, j)
    BY <1>2, <2>2
  <2> QED BY <2>1, <2>2
<1> HIDE DEF M
<1>6. \A k \in Slots : \A l \in DOMAIN jobtab'[k].procs :
        /\ l \in DOMAIN jobtab[k].procs
        /\ Scanned.tab[k].procs = jobtab[k].procs
        /\ jobtab'[k].procs[l].pid = jobtab[k].procs[l].pid
        /\ jobtab'[k].procs[l].status =
             IF k = j /\ IsStopped(Scanned, j) /\ jobtab[k].procs[l].status = "stopped"
             THEN "running" ELSE jobtab[k].procs[l].status
  <2>1. DOMAIN <<>> = {}
    OBVIOUS
  <2> SUFFICES ASSUME NEW k \in Slots, NEW l \in DOMAIN jobtab'[k].procs
               PROVE  /\ l \in DOMAIN jobtab[k].procs
                      /\ Scanned.tab[k].procs = jobtab[k].procs
                      /\ jobtab'[k].procs[l].pid = jobtab[k].procs[l].pid
                      /\ jobtab'[k].procs[l].status =
                           IF k = j /\ IsStopped(Scanned, j) /\ jobtab[k].procs[l].status = "stopped"
                           THEN "running" ELSE jobtab[k].procs[l].status
    OBVIOUS
  <2>2. jobtab'[k].procs = M.tab[k].procs
    BY <1>3, <1>4, <2>1
  <2>3. DOMAIN Scanned.tab[k].procs # {}
    BY <1>5, <2>2
  <2>4. Scanned.tab[k].procs = jobtab[k].procs
    BY <1>2, <1>4, <2>1, <2>3 DEF Cleans
  <2> QED BY <1>5, <2>2, <2>4
<1>7. \A k \in Slots : "DONE" \in jobtab'[k].stat => "DONE" \in jobtab[k].stat
  BY <1>2, <1>3, <1>4, <1>5 DEF Cleans
<1>8. \A k \in Slots : \A l \in DOMAIN jobtab[k].procs : jobtab[k].procs[l].pid \in Pids
  BY TypedEntry DEF TypeOK
<1>9. /\ \A q \in Pids : /\ child'[q] = "unborn" <=> child[q] = "unborn"
                         /\ child'[q] = "gone" <=> child[q] = "gone"
                         /\ child'[q] = "stopped" => child[q] = "stopped"
                         /\ Waitable(q)' => Waitable(q)
      /\ \A q \in Pids : child'[q] = "stopped" /\ q \in unreported => q \in unreported'
      /\ IsStopped(Scanned, j) => \A q \in P : q \in Pids => child'[q] # "stopped"
      /\ sigchld' = sigchld
  BY <1>1 DEF Continued, TypeOK, kernel, Waitable
<1>10. EntriesOK'
  <2> SUFFICES ASSUME NEW k \in Slots, NEW l \in DOMAIN jobtab'[k].procs
               PROVE  LET e == jobtab'[k].procs[l] IN
                        /\ child'[e.pid] # "unborn"
                        /\ e.status \in Ended <=> child'[e.pid] = "gone"
                        /\ e.status = "running" /\ child'[e.pid] = "stopped" => e.pid \in unreported'
                        /\ "DONE" \in jobtab'[k].stat => e.status \in Ended
    BY DEF EntriesOK
  <2>1. /\ l \in DOMAIN jobtab[k].procs
        /\ jobtab'[k].procs[l].pid = jobtab[k].procs[l].pid
        /\ jobtab[k].procs[l].pid \in Pids
    BY <1>6, <1>8
  <2>2. CASE k = j /\ IsStopped(Scanned, j) /\ jobtab[k].procs[l].status = "stopped"
    <3>1. jobtab'[k].procs[l].status = "running" /\ jobtab[k].procs[l].pid \in P
      BY <1>6, <2>1, <2>2 DEF PidsOf
    <3>2. "DONE" \notin jobtab'[k].stat
      BY <1>7, <2>1, <2>2 DEF EntriesOK, Ended
    <3> QED BY <1>9, <2>1, <2>2, <3>1, <3>2 DEF EntriesOK, Ended
  <2>3. CASE ~ (k = j /\ IsStopped(Scanned, j) /\ jobtab[k].procs[l].status = "stopped")
    <3>1. jobtab'[k].procs[l].status = jobtab[k].procs[l].status
      BY <1>6, <2>3
    <3> QED BY <1>7, <1>9, <2>1, <3>1 DEF EntriesOK
  <2> QED BY <2>2, <2>3
<1>11. Distinct'
  BY <1>6 DEF Distinct, DistinctIn
<1>12. \A q : Absent(q) => Absent(q)'
  BY <1>6 DEF Absent
<1>13. ForkOK'
  <2>1. cmdoutpid # NoPid => child'[cmdoutpid] # "unborn" /\ Absent(cmdoutpid)'
    <3>1. PICK c : c = cmdoutpid
      OBVIOUS
    <3>2. c # NoPid => c \in Pids /\ child[c] # "unborn" /\ Absent(c)'
      BY <1>12, <3>1 DEF ForkOK, TypeOK
    <3> QED BY <1>1, <1>9, <3>1, <3>2 DEF Absent
  <2> QED BY <1>1, <2>1 DEF ForkOK
<1>14. SignalOK'
  BY <1>1, <1>9 DEF SignalOK
<1>15. Spares
  <2> SUFFICES ASSUME NEW k \in Slots, NEW l \in DOMAIN jobtab[k].procs,
                      Alive(jobtab[k].procs[l].pid), jobtab'[k].procs = <<>>
               PROVE  FALSE
    BY DEF Spares
  <2>1. "DONE" \notin jobtab[k].stat /\ DOMAIN <<>> = {}
    BY DoneAreDead
  <2>2. Scanned.tab[k].procs = jobtab[k].procs /\ "DONE" \notin Scanned.tab[k].stat
    BY <1>2, <1>4, <2>1 DEF Cleans
  <2>3. U.tab[k].procs = M.tab[k].procs
    BY <1>3, <1>5, <2>2
  <2> QED BY <1>4, <1>5, <2>1, <2>2, <2>3
<1> QED BY <1>10, <1>11, <1>13, <1>14, <1>15

-----------------------------------------------------------------------------
(* The theorems. *)

\* The invariant holds at the start.
LEMMA InitInv ==
  ASSUME Init
  PROVE  IInv
<1>1. zero \in Job /\ zero.procs = <<>> /\ zero.stat = {} /\ DOMAIN zero.procs = {}
  BY DEF zero, Job, Flags
<1>2. \A j \in Slots : jobtab[j] = zero
  BY DEF Init
<1>3. TypeOK
  BY <1>1, Constants DEF Init, TypeOK, NoCommand, Command
<1>4. ControlOK
  BY Constants DEF Init, ControlOK, NoWait, WaitArgs, Places, AtTop, Constructing, Waiting, Sleeping
<1>5. ForkOK /\ EntriesOK /\ Distinct
  BY <1>1, <1>2 DEF Init, ForkOK, EntriesOK, Distinct, DistinctIn
<1>6. LastSlot
  BY <1>1, <1>2, Constants DEF LastSlot
<1>7. SignalOK
  BY DEF Init, SignalOK, Waitable
<1> QED BY <1>3, <1>4, <1>5, <1>6, <1>7 DEF IInv

\* Every step keeps it, and forgets no live process.
LEMMA StepInv ==
  ASSUME IInv, [Next]_vars
  PROVE  IInv' /\ Spares
<1>1. Shape /\ Distinct
  BY DEF IInv, Shape
<1>2. ASSUME Shape', ForkOK' /\ EntriesOK' /\ Distinct' /\ SignalOK' /\ Spares
      PROVE  IInv' /\ Spares
  BY <1>2 DEF IInv, Shape
<1>3. CASE Kernel
  BY <1>1, <1>2, <1>3, KernelShape, KernelStep
<1>4. CASE Signals
  <2>1. CASE HandlerStarts \/ HandlerEnds \/ Interrupt
    BY <1>1, <1>2, <2>1, SignalShape, PlainStep DEF Plain
  <2>2. CASE \E p \in Pids : HandlerReaps(p)
    BY <1>1, <1>2, <2>2, ReapedShape, ReapedStep
  <2> QED BY <1>4, <2>1, <2>2 DEF Signals
<1>5. CASE Prompt
  BY <1>1, <1>2, <1>5, PromptShape, PlainStep DEF Plain
<1>6. CASE \E c \in Lines : execpline(c)
  BY <1>1, <1>2, <1>6, LineShape, PlainStep DEF Plain
<1>7. CASE Pipeline
  <2>1. Shape'
    BY <1>1, <1>7, PipelineShape DEF IInv
  <2>2. CASE getoutput \/ CommandForks
    BY <1>2, <2>1, <2>2, ForkStep
  <2>3. CASE addproc
    BY <1>2, <2>1, <2>3, AddStep
  <2>4. CASE SubstSuspends \/ CommandFails \/ LaunchAsync \/ LaunchSync
    BY <1>2, <2>1, <2>4, PlainStep DEF Plain
  <2> QED BY <1>7, <2>2, <2>3, <2>4 DEF Pipeline
<1>8. CASE Waitjob
  BY <1>1, <1>2, <1>8, WaitShape, PlainStep DEF Plain
<1>9. CASE Builtins
  <2>1. Shape'
    BY <1>1, <1>9, BuiltinShape
  <2>2. CASE BuiltinResumes
    BY <1>2, <2>1, <2>2, ResumeStep
  <2>3. CASE BuiltinRefuses \/ BuiltinDisowns \/ BuiltinLists \/ BuiltinWaitsAll \/ WaitsNext
    BY <1>2, <2>1, <2>3, PlainStep DEF Plain
  <2> QED BY <1>9, <2>2, <2>3 DEF Builtins
<1>10. CASE UNCHANGED vars
  <2>1. UNCHANGED <<table, errflag, cmdoutpid, mask, inhandler, pc, cmd, newjob, pid, wait, kernel>>
    BY <1>10 DEF vars
  <2>2. TypeOK' /\ ControlOK' /\ LastSlot' /\ SignalOK'
    BY <2>1 DEF IInv, TypeOK, ControlOK, LastSlot, SignalOK, Waitable, table, kernel
  <2>3. ForkOK' /\ EntriesOK' /\ Distinct'
    BY <2>1 DEF IInv, ForkOK, Absent, EntriesOK, Distinct, table, kernel
  <2>4. Spares
    <3>1. DOMAIN <<>> = {}
      OBVIOUS
    <3> QED BY <2>1, <3>1 DEF Spares, table
  <2> QED BY <2>2, <2>3, <2>4 DEF IInv
<1> QED BY <1>3, <1>4, <1>5, <1>6, <1>7, <1>8, <1>9, <1>10 DEF Next

\* The inductive invariant holds in every reachable state, for every size of the
\* job table, number of processes and set of builtins, with or without NOTIFY.
THEOREM Invariance == Spec => []IInv
<1>1. Init => IInv
  BY InitInv
<1>2. IInv /\ [Next]_vars => IInv'
  BY StepInv
<1> QED BY <1>1, <1>2, PTL DEF Spec

\* The table, the marks of the main thread and the kernel's state have their types.
THEOREM TypeCorrect == Spec => []TypeOK
<1>1. IInv => TypeOK
  BY DEF IInv
<1> QED BY <1>1, Invariance, PTL

\* No child's end is missed: what the table calls running has not been waited for.
THEOREM NoEndMissed == Spec => []RunningIsUnreaped
<1>1. IInv => RunningIsUnreaped
  BY DEF IInv, EntriesOK, RunningIsUnreaped, Entries, Entry, Ended
<1> QED BY <1>1, Invariance, PTL

\* One SIGCHLD may stand for several children: at rest all have been waited for.
THEOREM AllAreReaped == Spec => []AllReaped
<1>1. IInv => AllReaped
  BY DEF IInv, SignalOK, AllReaped, AtRest, TypeOK
<1> QED BY <1>1, Invariance, PTL

\* At rest the table tells of each process what became of it.
THEOREM TableIsTrue == Spec => []TableTellsTheTruth
<1>1. ASSUME IInv, AtRest, NEW e \in Entries
      PROVE  CASE Entry(e).status = "running" -> child[Entry(e).pid] = "running"
               [] Entry(e).status = "stopped" -> Alive(Entry(e).pid)
               [] OTHER -> child[Entry(e).pid] = "gone"
  <2> DEFINE p == Entry(e).pid
  <2>1. e[1] \in Slots /\ e[2] \in DOMAIN jobtab[e[1]].procs /\ Entry(e) = jobtab[e[1]].procs[e[2]]
    BY DEF Entries, Entry
  <2>2. /\ p \in Pids /\ Entry(e).status \in ProcStatus
    BY <1>1, <2>1, TypedEntry DEF IInv, TypeOK
  <2>3. ~ Waitable(p)
    BY <1>1, <2>2 DEF IInv, SignalOK, AtRest, TypeOK
  <2>4. /\ child[p] \in {"running", "stopped", "gone"} /\ p \notin unreported
        /\ Entry(e).status \in Ended <=> child[p] = "gone"
        /\ Entry(e).status = "running" => child[p] # "stopped"
    BY <1>1, <2>1, <2>2, <2>3 DEF IInv, EntriesOK, TypeOK, Waitable
  <2> QED BY <2>2, <2>4 DEF ProcStatus, Ended, Alive
<1>2. IInv => TableTellsTheTruth
  BY <1>1 DEF TableTellsTheTruth
<1> QED BY <1>2, Invariance, PTL

\* fg, bg and %% find a suitable current job, whatever became of the one that was.
THEOREM CurrentIsSuitable == Spec => []CurrentSuitable
<1>1. IInv => CurrentSuitable
  BY ScannedTable DEF IInv, CurrentSuitable
<1> QED BY <1>1, Invariance, PTL

\* A job that is marked done has no process left.
THEOREM DoneIsEnded == Spec => []DoneMeansEnded
<1>1. IInv => DoneMeansEnded
  BY DEF IInv, EntriesOK, DoneMeansEnded, Statuses, Ended
<1> QED BY <1>1, Invariance, PTL

\* A line read at the prompt finds a free slot, whatever jobs there are.
THEOREM RoomIsLeft == Spec => []RoomForACommand
<1>1. IInv => RoomForACommand
  BY Constants DEF IInv, LastSlot, RoomForACommand, FreeSlots, AtTop
<1> QED BY <1>1, Invariance, PTL

\* Only disown makes the table forget a job that has a live process.
THEOREM LiveJobsAreKept == Spec => ForgottenWhenEnded
<1>1. IInv /\ [Next]_vars =>
        [\A j \in Slots :
           (\E p \in PidsOf(jobtab[j]) : Alive(p)) /\ jobtab'[j].procs = <<>>
             => cmd.op = "disown" \/ (cmd.op = "run" /\ cmd.how = "disown")]_vars
  <2> SUFFICES ASSUME IInv, [Next]_vars, NEW j \in Slots, NEW p \in PidsOf(jobtab[j]),
                      Alive(p), jobtab'[j].procs = <<>>
               PROVE  Disowning
    BY DEF Disowning
  <2>1. PICK i \in DOMAIN jobtab[j].procs : jobtab[j].procs[i].pid = p
    BY DEF PidsOf
  <2> QED BY <2>1, StepInv DEF Spares
<1> QED BY <1>1, Invariance, PTL DEF Spec, ForgottenWhenEnded
=============================================================================
