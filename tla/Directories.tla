---------------------------- MODULE Directories -----------------------------
(* cd, pushd, popd and dirs with the directory stack, and the named           *)
(* directories with the cache of finddir() (builtin.c, hashtable.c, utils.c,   *)
(* linklist.c).  A path is the sequence of its segments; an absolute one       *)
(* begins with the drive.                                                      *)
EXTENDS Integers, Sequences, FiniteSets, FiniteSetsExt, SequencesExt, Lib

CONSTANTS
  Drive,
  Disk,     \* segment -> how the disk spells it
  Size,     \* segment -> its length
  Worlds    \* what a behaviour may be about: dirs (that exist, as the disk spells them),
            \* gone (those that somebody may remove), home, cdpath, options,
            \* DIRSTACKSIZE, args (of cd, pushd and popd), lists (of dirs), names and
            \* values (of parameters and named directories), acts

\* What a world is: its directories are spelled as the disk does.
ASSUME WorldsAssumption ==
  \A w \in Worlds :
    /\ w.home \in w.dirs
    /\ \A d \in w.dirs : d = [i \in DOMAIN d |-> Disk[d[i]]]
    /\ w.DIRSTACKSIZE \in Int
    /\ w.lists \subseteq Seq(Seq(DOMAIN Disk))
    /\ w.cdpath \in Seq(Seq(DOMAIN Disk))
    /\ \A a \in w.args :
         /\ a.kind \in {"none", "count", "dash", "dir", "subst"}
         /\ a.kind = "count" => a.n \in Nat

VARIABLES
  world, dirs,
  cwd,          \* where the process is
  pwd, oldpwd,
  dirstack,
  params,       \* name -> value, a path
  home,
  nameddirtab,  \* name -> directory
  found,        \* [full, last]: finddir_full, and the name found for it or NoName
  did           \* history: [func, arg, ok, stack, promised] of the last command; stack is
                \* the stack as it was, promised what the manual says that it becomes

DirectoriesVars == <<world, dirs, cwd, pwd, oldpwd, dirstack, params, home, nameddirtab, found, did>>

Option(o) == o \in world.options
None == << >>           \* no path
NoName == "no name"
Home == ""              \* homenode's name

-----------------------------------------------------------------------------
(* Paths, and the calls of the system. *)

Absolute(p) == p # None /\ p[1] = Drive

Cased(p) == [i \in DOMAIN p |-> Disk[p[i]]]

\* What GetCurrentDirectory() says after a chdir(): as it was spelled.
Resolved(p) ==
  FoldLeft(LAMBDA r, c : IF c = "." THEN r
                         ELSE IF c = ".." THEN (IF Len(r) > 1 THEN Front(r) ELSE r)
                         ELSE Append(r, c),
           None, IF Absolute(p) THEN p ELSE cwd \o p)

IsDirectory(p) == Cased(Resolved(p)) \in dirs

strlen(p) == FoldLeft(LAMBDA n, c : n + 1 + Size[c], -1, p)

\* dircmp(), with the option WINNTIGNORECASE.
dircmp(d, s) ==
  LET Same(p) == IF Option("WINNTIGNORECASE") THEN Cased(p) ELSE p
  IN  d # None /\ IsPrefix(Same(d), Same(s))

-----------------------------------------------------------------------------
(* Named directories. *)

\* finddir(NULL)
Forgotten == [full |-> None, last |-> NoName]

\* The names in tab, with homenode, that save most.
Shortest(tab, s) ==
  LET diff(n) == IF n = Home THEN IF strlen(home) = 1 THEN 0 ELSE strlen(home)
                 ELSE strlen(tab[n]) - Size[n]
      dir(n)  == IF n = Home THEN home ELSE tab[n]
      fits    == {n \in DOMAIN tab \union {Home} : diff(n) > 0 /\ dircmp(dir(n), s)}
      best    == {n \in fits : \A m \in fits : diff(n) >= diff(m)}
  IN  IF fits = {} THEN {NoName} ELSE IF Home \in best THEN {Home} ELSE best

\* adduserdir(): the table behind.  interact is set.
adduserdir(tab, n, t, always) ==
  IF ~always /\ ~Option("AUTONAMEDIRS") /\ n \notin DOMAIN tab THEN tab
  ELSE IF Absolute(t) THEN With(tab, n, t)
  ELSE But(tab, {n})

\* getnameddir(): [dir, tab].
getnameddir(n) ==
  IF n \in DOMAIN nameddirtab THEN [dir |-> nameddirtab[n], tab |-> nameddirtab]
  ELSE IF n \in DOMAIN params /\ Absolute(params[n])
  THEN [dir |-> params[n], tab |-> adduserdir(nameddirtab, n, params[n], TRUE)]
  ELSE [dir |-> None, tab |-> nameddirtab]

\* A slip: the cache is left as it is.
Entered_KeepsFound(tab, changed) == nameddirtab' = tab /\ found' = found

\* Every change of the table passes addnameddirnode(), removenameddirnode() or
\* emptynameddirtable(), which clear the cache.
Entered(tab, changed) ==
  /\ nameddirtab' = tab
  /\ found' = IF changed THEN Forgotten ELSE found

-----------------------------------------------------------------------------
(* cd, pushd and popd. *)

\* cd_do_chdir(): [to, tab], to is None if there is no such directory.
cd_do_chdir(dest) ==
  LET nocdpath == dest[1] \in {".", ".."}
      hasdot   == ~nocdpath /\ \E i \in DOMAIN world.cdpath : world.cdpath[i] \in {None, <<".">>}
      tried    == (IF hasdot THEN << >> ELSE <<dest>>) \o
                  (IF nocdpath \/ Absolute(dest) THEN << >>
                   ELSE [i \in DOMAIN world.cdpath |-> world.cdpath[i] \o dest])
      First(s) == LET is == {i \in DOMAIN s : IsDirectory(s[i])}
                  IN  IF is = {} THEN None ELSE Resolved(s[Min(is)])
  IN  Given(First(IF Absolute(dest) THEN <<dest>> ELSE tried), LAMBDA to :
        IF to # None \/ Absolute(dest) \/ ~Option("CDABLEVARS")
        THEN [to |-> to, tab |-> nameddirtab]
        ELSE Given(getnameddir(dest[1]), LAMBDA named :   \* cd_able_vars()
               [to |-> IF named.dir = None THEN None ELSE First(<<named.dir \o Tail(dest)>>),
                tab |-> named.tab]))

\* The stack while a command works: pwd has been pushed on it.
Stack == <<pwd>> \o dirstack

\* The place of a +n or -n in stack s, 0 if there is none.
PlaceOf(arg, s) ==
  LET i == IF (arg.sign = "+") # Option("PUSHDMINUS") THEN arg.n + 1 ELSE Len(s) - arg.n
  IN  IF i \in DOMAIN s THEN i ELSE 0

\* dstackent(), for ~+n and ~-n: the path, None if there is none.
dstackent(ch, val) ==
  LET backwards == ch = (IF Option("PUSHDMINUS") THEN "+" ELSE "-")
      n == IF backwards THEN Len(dirstack) - val ELSE val
  IN  IF n = 0 THEN pwd ELSE IF n \in DOMAIN dirstack THEN dirstack[n] ELSE None

\* `cd old new': the first segment of pwd that is old becomes new.
Substituted(arg) ==
  LET is == {i \in DOMAIN pwd : pwd[i] = arg.old}
  IN  IF is = {} THEN None ELSE [pwd EXCEPT ![Min(is)] = arg.new]

\* cd_get_dest() up to the change of directory: [ok, s, dir], dir 0 for NULL.
Chosen(func, arg) ==
  LET S == Stack
      Error == [ok |-> FALSE, s |-> S, dir |-> 0]
      Pushed(d) == [ok |-> TRUE, s |-> <<d>> \o S, dir |-> 0]
  IN CASE arg.kind = "none" ->
            IF func = "popd" THEN [Error EXCEPT !.ok = Len(S) > 1]
            ELSE IF func = "pushd" /\ ~Option("PUSHDTOHOME") /\ Len(S) > 1
            THEN [ok |-> TRUE, s |-> <<S[2], S[1]>> \o SubSeq(S, 3, Len(S)), dir |-> 1]
            ELSE Pushed(home)
     [] arg.kind = "count" -> [ok |-> PlaceOf(arg, S) # 0, s |-> S, dir |-> PlaceOf(arg, S)]
     [] arg.kind = "dash" -> Pushed(oldpwd)
     [] arg.kind = "dir" -> Pushed(arg.dir)
     [] arg.kind = "subst" -> IF Substituted(arg) = None THEN Error ELSE Pushed(Substituted(arg))

remnode(s, i) == SubSeq(s, 1, i - 1) \o SubSeq(s, i + 1, Len(s))

\* cd_get_dest(): [ok, s, dir, cwd, tab].
cd_get_dest(func, arg) ==
  Given(Chosen(func, arg), LAMBDA c :
  Given(IF func = "popd" /\ c.dir = 0 THEN 1 ELSE c.dir, LAMBDA target :
  Given(IF func # "popd" THEN target ELSE IF target = Len(c.s) THEN 0 ELSE target + 1, LAMBDA next :
  Given(IF next = 0 THEN 1 ELSE next, LAMBDA dir :
    IF ~c.ok THEN [ok |-> FALSE, s |-> c.s, dir |-> 0, cwd |-> cwd, tab |-> nameddirtab]
    ELSE IF func = "popd" /\ target # 1
    THEN [ok |-> TRUE, s |-> c.s, dir |-> target, cwd |-> cwd, tab |-> nameddirtab]
    ELSE Given(cd_do_chdir(c.s[dir]), LAMBDA dest :
           LET left == IF target = 0 THEN Tail(c.s)
                       ELSE IF func = "popd" THEN remnode(c.s, dir) ELSE c.s
           IN  IF dest.to = None
               THEN [ok |-> FALSE, s |-> left, dir |-> 0, cwd |-> cwd, tab |-> dest.tab]
               ELSE [ok |-> TRUE, s |-> [c.s EXCEPT ![dir] = dest.to],
                     dir |-> IF target # 0 THEN target ELSE dir, cwd |-> dest.to, tab |-> dest.tab])))))

\* A slip: the list is rolled the other way.
rolllist_Back(s, i) == LET k == Len(s) + 2 - i
                       IN  IF i = 1 THEN s ELSE SubSeq(s, k, Len(s)) \o SubSeq(s, 1, k - 1)

rolllist(s, i) == SubSeq(s, i, Len(s)) \o SubSeq(s, 1, i - 1)

\* The stack, cut to DIRSTACKSIZE, of which one place is for pwd.
Cut(s) ==
  LET size == IF world.DIRSTACKSIZE < 2 THEN 2 ELSE world.DIRSTACKSIZE
  IN  IF world.DIRSTACKSIZE <= 0 THEN s ELSE SubSeq(s, 1, Min({Len(s), size - 1}))

\* Without the first s[i] that is d.
Undoubled(s, d) ==
  LET is == {i \in DOMAIN s : s[i] = d}
  IN  IF Option("PUSHDIGNOREDUPS") /\ is # {} THEN remnode(s, Min(is)) ELSE s

\* cd_new_pwd(): [new, s].
cd_new_pwd(func, S, at) ==
  Given(IF func = "pushd" THEN rolllist(S, at) ELSE S, LAMBDA s :
  Given(IF func = "pushd" THEN 1 ELSE at, LAMBDA dir :
  Given(remnode(s, dir), LAMBDA out :
  Given(func = "popd" /\ out # << >>, LAMBDA popped :
  Given(IF popped THEN out[1] ELSE s[dir], LAMBDA new :
    LET rest == IF out # << >> /\ (popped \/ (func = "cd" /\ ~Option("AUTOPUSHD"))) THEN Tail(out) ELSE out
    IN  [new |-> new, s |-> Cut(Undoubled(rest, new))])))))

\* popd has no other arguments, and nothing is said of it on a stack of one entry.
\* cd +0, which is where the shell is, takes the entry behind it from the stack.
Documented(func, arg) ==
  /\ func = "popd" => arg.kind \in {"none", "count"} /\ dirstack # << >>
  /\ func # "pushd" /\ arg.kind = "count" => PlaceOf(arg, Stack) # 1 \/ func = "popd"

\* zshbuiltins(1): what the command makes of the stack with pwd in front; the first is
\* where it is asked to go.
Meant(func, arg) ==
  LET D == Stack
      i == IF arg.kind = "count" THEN PlaceOf(arg, D) ELSE 0
      Out(k) == remnode(D, k)
      On(d) == IF func = "cd" /\ ~Option("AUTOPUSHD") THEN <<d>> \o Tail(D) ELSE <<d>> \o D
  IN  IF func = "popd" THEN Out(IF i = 0 THEN 1 ELSE i)
      ELSE IF i > 0
      THEN IF func = "pushd" THEN SubSeq(D, i, Len(D)) \o SubSeq(D, 1, i - 1)
           ELSE <<D[i]>> \o (IF Option("AUTOPUSHD") THEN Out(i) ELSE Tail(Out(i)))
      ELSE IF func = "pushd" /\ arg.kind = "none" /\ ~Option("PUSHDTOHOME") /\ Len(D) > 1
      THEN <<D[2], D[1]>> \o SubSeq(D, 3, Len(D))
      ELSE CASE arg.kind = "none" -> On(home)
             [] arg.kind = "dash" -> On(oldpwd)
             [] arg.kind = "dir" -> On(arg.dir)
             [] arg.kind = "subst" -> On(Substituted(arg))
             [] arg.kind = "count" -> << >>

\* popd of an entry behind the first.
Stays(func, arg) == func = "popd" /\ arg.kind = "count" /\ PlaceOf(arg, Stack) > 1

\* History: with the directory that the shell finds for the first.
Promised(func, arg) ==
  LET P == Meant(func, arg)
  IN  IF P = << >> \/ P[1] = None THEN << >>
      ELSE IF Stays(func, arg) THEN P
      ELSE [P EXCEPT ![1] = cd_do_chdir(@).to]

-----------------------------------------------------------------------------
DirectoriesInit ==
  /\ world \in Worlds
  /\ dirs = world.dirs /\ home = world.home
  /\ cwd = world.home /\ pwd = world.home /\ oldpwd = world.home
  /\ dirstack = << >> /\ params = << >> /\ nameddirtab = << >>
  /\ found = Forgotten
  /\ did = [func |-> "none"]

bin_cd(func, arg) ==
  \E got \in {cd_get_dest(func, arg)} :
      /\ IF got.ok
         THEN \E new \in {cd_new_pwd(func, got.s, got.dir)} :
              /\ oldpwd' = pwd
              /\ cwd' = got.cwd
              /\ pwd' = IF Cased(new.new) \in dirs THEN Cased(new.new) ELSE got.cwd
              /\ dirstack' = new.s
         ELSE /\ dirstack' = IF got.s = << >> THEN << >> ELSE Tail(got.s)
              /\ UNCHANGED <<cwd, pwd, oldpwd>>
      /\ Entered(got.tab, got.tab # nameddirtab)
      /\ did' = [func |-> func, arg |-> arg, ok |-> got.ok, stack |-> Stack,
               promised |-> IF Documented(func, arg) THEN Promised(func, arg) ELSE << >>]
      /\ UNCHANGED <<world, dirs, params, home>>

\* dirs with arguments.
bin_dirs(list) ==
  /\ dirstack' = list
  /\ did' = [func |-> "none"]
  /\ UNCHANGED <<world, dirs, cwd, pwd, oldpwd, params, home, nameddirtab, found>>

Elsewhere == UNCHANGED <<world, dirs, cwd, pwd, oldpwd, dirstack>> /\ did' = [func |-> "none"]

\* name=value: strsetfn().
strsetfn(n, t) ==
  \E tab \in {adduserdir(nameddirtab, n, t, FALSE)} :
      /\ params' = With(params, n, t)
      /\ Entered(tab, n \in DOMAIN nameddirtab \union DOMAIN tab)
      /\ Elsewhere /\ UNCHANGED home

\* HOME=value
homesetfn(t) ==
  /\ home' = t /\ found' = Forgotten
  /\ Elsewhere /\ UNCHANGED <<params, nameddirtab>>

\* ~name in a word.
Tilde(n) ==
  /\ n \notin DOMAIN nameddirtab
  /\ Entered(getnameddir(n).tab, getnameddir(n).tab # nameddirtab)
  /\ Elsewhere /\ UNCHANGED <<params, home>>

\* hash -d name=value, unhash -d name, hash -dr.
hash_d(n, t) == Entered(With(nameddirtab, n, t), TRUE) /\ Elsewhere /\ UNCHANGED <<params, home>>
unhash_d(n) ==
  /\ n \in DOMAIN nameddirtab
  /\ Entered(But(nameddirtab, {n}), TRUE)
  /\ Elsewhere /\ UNCHANGED <<params, home>>
hash_dr == Entered(<< >>, TRUE) /\ Elsewhere /\ UNCHANGED <<params, home>>

\* A directory is printed: by the prompt or dirs.
finddir(s) ==
  /\ IF s = found.full THEN UNCHANGED found
     ELSE \E n \in Shortest(nameddirtab, s) : found' = [full |-> s, last |-> n]
  /\ Elsewhere /\ UNCHANGED <<params, home, nameddirtab>>

\* Somebody removes a directory in which no process is.
Vanish(d) ==
  /\ d \in dirs /\ ~IsPrefix(d, Cased(cwd))
  /\ dirs' = {e \in dirs : ~IsPrefix(d, e)}
  /\ did' = [func |-> "none"]
  /\ UNCHANGED <<world, cwd, pwd, oldpwd, dirstack, params, home, nameddirtab, found>>

MaxStack == 3

DirectoriesNext ==
  \/ /\ Len(dirstack) < MaxStack
     /\ \E func \in {"cd", "pushd", "popd"}, arg \in world.args : bin_cd(func, arg)
  \/ \E list \in world.lists : bin_dirs(list)
  \/ \E n \in world.names, t \in world.values : strsetfn(n, t) \/ hash_d(n, t)
  \/ \E n \in world.names : Tilde(n) \/ unhash_d(n)
  \/ world.names # {} /\ (hash_dr \/ finddir(pwd) \/ \E t \in world.values : Absolute(t) /\ homesetfn(t))
  \/ \E d \in world.gone : Vanish(d)

DirectoriesSpec == DirectoriesInit /\ [][DirectoriesNext]_DirectoriesVars

-----------------------------------------------------------------------------
\* Whatever was entered, PWD is where the shell is.
ShellIsAtPwd == pwd = Cased(cwd)

\* The stack is the one that the manual describes; a command that fails leaves it, but
\* for a popd, and a pushd that exchanges the first two.
StackIsAsPromised ==
  LET S == <<pwd>> \o dirstack
      P == did.promised
      Lost == did.func = "popd" \/ (did.func = "pushd" /\ did.arg.kind = "none" /\ ~Option("PUSHDTOHOME"))
  IN  did.func # "none" =>
        /\ did.ok /\ P # << >> => S = <<Cased(P[1])>> \o Cut(Undoubled(Tail(P), P[1]))
        /\ ~did.ok /\ ~Lost => S = did.stack

\* ~+n and ~-n are the entries that cd, pushd and popd find by +n and -n.
TildeNamesEntries ==
  LET S == <<pwd>> \o dirstack
  IN  \A ch \in {"+", "-"}, val \in 0 .. Len(S) :
        LET i == PlaceOf([sign |-> ch, n |-> val], S)
        IN  dstackent(ch, val) = IF i = 0 THEN None ELSE S[i]

\* zshbuiltins(1), cd, pushd, popd and dirs, and the options AUTO_PUSHD,
\* PUSHD_TO_HOME, PUSHD_MINUS, PUSHD_IGNORE_DUPS and DIRSTACKSIZE, after whatever
\* was pushed, rotated, extracted or cut before.
StackMeansWhatItSays == ShellIsAtPwd /\ StackIsAsPromised /\ TildeNamesEntries

\* A name printed for a directory is one that the table has for it now: the cache
\* of finddir() is cleared by whatever changes the table or HOME.
CacheTellsTheTable == found.full # None => found.last \in Shortest(nameddirtab, found.full)
=============================================================================
