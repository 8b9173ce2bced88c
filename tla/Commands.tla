------------------------------ MODULE Commands ------------------------------
(* How a name becomes a command: functions, builtins, the table of external  *)
(* commands and the search of path, and the builtins over these tables       *)
(* (exec.c, hashtable.c, builtin.c).  A command that is found is a pair of    *)
(* the directory it is in and its name.                                      *)
EXTENDS Integers, Sequences, FiniteSets, FiniteSetsExt, Lib

CONSTANTS
  CommandWords, \* words that may stand where a command is expected
  Stem,         \* for the name of a file with an executable extension, the name
                \* without it; for others ""
  Shells        \* what a behaviour may be about: kind, of each directory ("absolute",
                \* "dotted" as /x/../y, "closed" which cannot be listed, "drive" as c:/x,
                \* "dot" which is . or another of one character, "relative" if longer),
                \* paths, options, the files there are and may come and go, builtins,
                \* fpath (files of functions), acts (what is done)

VARIABLES
  shell,        \* one of Shells
  files,        \* of each directory
  path,
  cmdnamtab,    \* name -> [cmd, of hash name=cmd] or [at, the place in path]
  pathchecked,  \* the directories of path before it are in the table
  shfunctab,    \* name -> [disabled, undefined]
  builtintab, aliastab,     \* name -> [disabled]
  stale         \* directories of which the table does not tell what they hold: they
                \* were changed, or had entries that unhash took out

CommandsVars == <<shell, files, path, cmdnamtab, pathchecked, shfunctab, builtintab, aliastab, stale>>

NotFound == <<"", "">>

isset(o) == o \in shell.options
Kind(d) == shell.kind[d]

-----------------------------------------------------------------------------
(* The file system, and the directories of path. *)

\* The names under which a file can be executed.
NamesOf(f) == {f} \union (IF Stem[f] = "" THEN {} ELSE {Stem[f]})

iscom(d, n) == \E f \in files[d] : n \in NamesOf(f)

\* One character, and one before a colon, is not relative here.
isrelative(d) == Kind(d) \in {"relative", "dotted"}

ABSOLUTEP(d) == Kind(d) \notin {"relative", "dot"}

\* hashcmd() looks for a slash only.
Slashed(d) == Kind(d) \notin {"relative", "dot", "drive"}

-----------------------------------------------------------------------------
(* The table of external commands: T is [tab, checked]. *)

\* Files that have no entry yet; the name without the extension is not looked up.
hashdir(tab, i) ==
  LET new   == {f \in files[path[i]] : f \notin DOMAIN tab}
      names == UNION {{f, Stem[f]} : f \in new}
  IN  IF isrelative(path[i]) \/ Kind(path[i]) = "closed" THEN tab
      ELSE [n \in DOMAIN tab \union names |-> IF n \in names THEN [at |-> i] ELSE tab[n]]

\* The table behind the directories from .. to.
HashDirs(tab, from, to) ==
  LET hashed[i \in Nat] == IF i < from THEN tab ELSE hashdir(hashed[i - 1], i) IN hashed[to]

\* The table behind, or the same if no directory from there on has it: the name is
\* entered, then what the directories that were not hashed yet add to that.
hashcmd(T, n, from) ==
  LET has     == {i \in from .. Len(path) : Slashed(path[i]) /\ iscom(path[i], n)}
      i       == Min(has)
      entered == With(T.tab, n, [at |-> i])
  IN  IF has = {} THEN T
      ELSE IF ~isset("HASHDIRS") THEN [T EXCEPT !.tab = entered]
      ELSE [tab |-> HashDirs(entered, T.checked, i), checked |-> i + 1]

fillcmdnamtable(T) == [tab |-> HashDirs(T.tab, T.checked, Len(path)), checked |-> Len(path) + 1]

\* A slip: what was hashed is forgotten, not how far.
emptycmdnamtable_KeepsTheMark == [tab |-> << >>, checked |-> pathchecked]

emptycmdnamtable == [tab |-> << >>, checked |-> 1]

Table == [tab |-> cmdnamtab, checked |-> pathchecked]

-----------------------------------------------------------------------------
(* execute() and findcmd() *)

FirstOf(S, n) == IF S = {} THEN NotFound ELSE <<path[Min(S)], n>>

Having(n) == {i \in DOMAIN path : iscom(path[i], n)}

\* Where the entry leads: to the directories before its own that could not be
\* hashed, then to its own.
ByEntry(tab, n, Skipped(_)) ==
  LET e == tab[n]
  IN  IF n \notin DOMAIN tab THEN NotFound
      ELSE IF "cmd" \in DOMAIN e
      THEN IF iscom(e.cmd[1], e.cmd[2]) THEN e.cmd ELSE NotFound
      ELSE FirstOf({i \in Having(n) : i = e.at \/ (i < e.at /\ ~Skipped(path[i]))}, n)

Or(a, b) == IF a = NotFound THEN b ELSE a

execute(tab, n) == Or(ByEntry(tab, n, ABSOLUTEP), FirstOf(Having(n), n))

findcmd(T, n) ==
  LET U == IF n \notin DOMAIN T.tab /\ isset("HASHCMDS") THEN hashcmd(T, n, 1) ELSE T
  IN  [T |-> U, found |-> Or(ByEntry(U.tab, n, Slashed), FirstOf(Having(n), n))]

-----------------------------------------------------------------------------
(* execcmd(): the command that a word in command position is. *)

Enabled(tab, n) == n \in DOMAIN tab /\ ~tab[n].disabled

\* prefix is the precommand in front, or "".
IsFunction(n, prefix) == prefix = "" /\ Enabled(shfunctab, n)

IsBuiltin(n, prefix) ==
  /\ ~IsFunction(n, prefix) /\ Enabled(builtintab, n)
  /\ prefix = "command" => isset("POSIXBUILTINS")

External(n) ==
  IF n \notin DOMAIN cmdnamtab /\ isset("HASHCMDS") THEN hashcmd(Table, n, pathchecked) ELSE Table

resolved(n, prefix) ==
  IF IsFunction(n, prefix) THEN <<"function", n>>
  ELSE IF IsBuiltin(n, prefix) THEN <<"builtin", n>>
  ELSE IF prefix = "builtin" THEN NotFound
  ELSE execute(External(n).tab, n)

\* whence, for one name; reserved words are no commands.
whence(n) ==
  IF Enabled(aliastab, n) THEN <<"alias", n>>
  ELSE IF Enabled(shfunctab, n) THEN <<"function", n>>
  ELSE IF Enabled(builtintab, n) THEN <<"builtin", n>>
  ELSE IF n \in DOMAIN cmdnamtab /\ "cmd" \in DOMAIN cmdnamtab[n] THEN cmdnamtab[n].cmd
  ELSE findcmd(Table, n).found

-----------------------------------------------------------------------------
CommandsInit ==
  /\ shell \in Shells
  /\ files = shell.files
  /\ path \in shell.paths
  /\ cmdnamtab = << >> /\ pathchecked = 1
  /\ shfunctab = << >> /\ aliastab = << >>
  /\ builtintab = [n \in shell.builtins |-> [disabled |-> FALSE]]
  /\ stale = {}

Tabled(T) == cmdnamtab' = T.tab /\ pathchecked' = T.checked

Others == UNCHANGED <<shell, files, path, builtintab, aliastab, stale>>

\* A command is given.  A function that is undefined is read from fpath; the
\* file is the body, or defines the function.
Command(n, prefix) ==
  /\ Others
  /\ IF IsFunction(n, prefix)
     THEN /\ UNCHANGED <<cmdnamtab, pathchecked>>
          /\ shfunctab' = IF n \in shell.fpath THEN [shfunctab EXCEPT ![n].undefined = FALSE]
                          ELSE shfunctab
     ELSE /\ UNCHANGED shfunctab
          /\ Tabled(IF IsBuiltin(n, prefix) \/ prefix = "builtin" THEN Table ELSE External(n))

Tables == UNCHANGED <<shell, files, path, shfunctab, builtintab, aliastab>>

\* whence and whence -m, which fills the table.
bin_whence(n) ==
  /\ Tabled(IF whence(n)[1] \in {"alias", "function", "builtin"} THEN Table ELSE findcmd(Table, n).T)
  /\ Tables /\ UNCHANGED stale

whence_m == Tabled(fillcmdnamtable(Table)) /\ Tables /\ UNCHANGED stale

\* hash -r, hash -f, hash n=cmd and hash n.
hash_r == Tabled(emptycmdnamtable) /\ stale' = {} /\ Tables
hash_f == Tabled(fillcmdnamtable(Table)) /\ Tables /\ UNCHANGED stale
hash_as(n, d, m) ==
  /\ Tabled([Table EXCEPT !.tab = With(@, n, [cmd |-> <<d, m>>])])
  /\ Tables /\ UNCHANGED stale
hash(n) ==
  /\ n \notin DOMAIN cmdnamtab
  /\ Tabled(hashcmd(Table, n, 1))
  /\ Tables /\ UNCHANGED stale

\* unhash, unfunction (unhash -f) and unalias (unhash -a), of the names in S.
\* unhash leaves pathchecked where it is: no directory before it is looked at again.
unhash(S) ==
  /\ cmdnamtab' = But(cmdnamtab, S) /\ S \cap DOMAIN cmdnamtab # {}
  /\ stale' = stale \union {path[i] : i \in 1 .. pathchecked - 1}
  /\ Tables /\ UNCHANGED pathchecked
unfunction(S) == shfunctab' = But(shfunctab, S) /\ Others /\ UNCHANGED <<pathchecked, cmdnamtab>>
unalias(S) ==
  /\ aliastab' = But(aliastab, S)
  /\ UNCHANGED <<shell, files, path, cmdnamtab, pathchecked, shfunctab, builtintab, stale>>

Switched(tab, S, off) == [n \in DOMAIN tab |-> IF n \in S THEN [tab[n] EXCEPT !.disabled = off] ELSE tab[n]]

\* enable and disable, with -f and -a or neither.
bin_enable(S, off) ==
  /\ UNCHANGED <<shell, files, path, cmdnamtab, pathchecked, stale>>
  /\ \/ shfunctab' = Switched(shfunctab, S, off) /\ UNCHANGED <<builtintab, aliastab>>
     \/ builtintab' = Switched(builtintab, S, off) /\ UNCHANGED <<shfunctab, aliastab>>
     \/ aliastab' = Switched(aliastab, S, off) /\ UNCHANGED <<shfunctab, builtintab>>

bin_alias(n) ==
  /\ aliastab' = With(aliastab, n, [disabled |-> FALSE])
  /\ UNCHANGED <<shell, files, path, cmdnamtab, pathchecked, shfunctab, builtintab, stale>>

\* A definition, and autoload, which leaves an enabled function alone.
execfuncdef(n) ==
  /\ shfunctab' = With(shfunctab, n, [disabled |-> FALSE, undefined |-> FALSE])
  /\ Others /\ UNCHANGED <<cmdnamtab, pathchecked>>
autoload(n) ==
  /\ ~Enabled(shfunctab, n)
  /\ shfunctab' = With(shfunctab, n, [disabled |-> FALSE, undefined |-> TRUE])
  /\ Others /\ UNCHANGED <<cmdnamtab, pathchecked>>

\* path is assigned to: arrfixenv() empties the table.
setpath(p) ==
  /\ path' = p /\ p # path
  /\ Tabled(emptycmdnamtable) /\ stale' = {}
  /\ UNCHANGED <<shell, files, shfunctab, builtintab, aliastab>>

\* Somebody else installs a file or removes it.
Change(d, f) ==
  /\ stale = {}
  /\ files' = [files EXCEPT ![d] = IF f \in @ THEN @ \ {f} ELSE @ \union {f}]
  /\ stale' = stale \union {d}
  /\ UNCHANGED <<shell, path, cmdnamtab, pathchecked, shfunctab, builtintab, aliastab>>

Acts(a) == a \in shell.acts

CommandsNext ==
  \/ \E n \in CommandWords, prefix \in {"", "command", "builtin"} : Acts("run") /\ Command(n, prefix)
  \/ \E n \in CommandWords : Acts("hash") /\ (bin_whence(n) \/ hash(n))
  \/ Acts("hash") /\ (whence_m \/ hash_f \/ hash_r)
  \/ \E n \in CommandWords, m \in CommandWords, d \in DOMAIN files : Acts("hash") /\ hash_as(n, d, m)
  \/ \E S \in SUBSET CommandWords : Acts("hash") /\ unhash(S)
  \/ \E S \in SUBSET CommandWords : Acts("tables") /\ (unfunction(S) \/ unalias(S) \/ \E off \in BOOLEAN : bin_enable(S, off))
  \/ \E n \in CommandWords : Acts("tables") /\ (bin_alias(n) \/ execfuncdef(n) \/ autoload(n))
  \/ \E p \in shell.paths : Acts("path") /\ setpath(p)
  \/ \E c \in shell.changes : Acts("files") /\ Change(c[1], c[2])

CommandsSpec == CommandsInit /\ [][CommandsNext]_CommandsVars

-----------------------------------------------------------------------------
Hashed(n) == n \in DOMAIN cmdnamtab /\ "cmd" \in DOMAIN cmdnamtab[n]

\* Places with the command that one further on may be taken for: hashcmd() does not
\* see c:/x, filling neither /x/../y nor a directory that cannot be listed, and
\* execute() tries none of them before an entry.
PassedOver(n) ==
  {i \in Having(n) : \E j \in Having(n) :
     /\ i < j
     /\ \/ Kind(path[i]) = "drive" /\ Slashed(path[j])
        \/ Kind(path[i]) \in {"dotted", "closed"} /\ Kind(path[j]) # "relative"}

\* zshmisc(1), COMMAND EXECUTION: "the shell searches each element of path for a
\* directory containing an executable file by that name".  Whatever was hashed,
\* filled, looked up and taken out before, what runs is the first on path but for
\* those that may be passed over, or what the user hashed it to; and a command that
\* is on path is found, although files came and went.
RunsTheFirst ==
  \A n \in CommandWords \ {""} :
    LET runs == execute(External(n).tab, n) IN
    /\ Having(n) # {} => runs # NotFound
    /\ stale = {} /\ ~Hashed(n) =>
         \E S \in SUBSET PassedOver(n) : runs = FirstOf(Having(n) \ S, n)

\* zshbuiltins(1), whence: "indicate how it would be interpreted if used as a
\* command name", whatever is disabled, hidden or hashed, if none may be passed over.
WhenceTellsWhatRuns ==
  stale = {} =>
    \A n \in CommandWords \ {""} :
      \/ Enabled(aliastab, n) \/ (Hashed(n) /\ execute(cmdnamtab, n) # cmdnamtab[n].cmd)
      \/ whence(n) = resolved(n, "")
      \/ PassedOver(n) # {}

\* exec.c, hashtable.c, builtin.c: the first of the candidates is run, and whence
\* says which.
CommandsAreFound == RunsTheFirst /\ WhenceTellsWhatRuns
=============================================================================
