------------------------------ MODULE MCTables ------------------------------
(* Instances of components that share nothing: a behaviour is about one part,  *)
(* the others stay where they begin.                                          *)
EXTENDS HashTable, Commands, Directories, TLC

CONSTANT Parts     \* what behaviours are about

VARIABLES
  part,
  mem, live, bounds, mspoilt,                                              \* Malloc
  cmd, pc, script,                                                         \* Redirections
  hand, tab, keys, main, crashed, wanted,                                  \* Keymaps
  paramtab, ppath, environ, winenv, frames, allexport, errflag, scenario, spoilt   \* Params

mvars == <<mem, live, bounds, mspoilt>>
rvars == <<cmd, pc, script>>
kvars == <<hand, tab, keys, main, crashed, wanted>>
pvars == <<paramtab, ppath, environ, winenv, frames, allexport, errflag, scenario, spoilt>>

MCHasher == ("a" :> 5) @@ ("b" :> 1) @@ ("c" :> 2)

-----------------------------------------------------------------------------
\* Blocks of two sizes, one of them small, with and without pools; sbrk() fails.
MCBounds == {[sizes |-> {1, 3}, heapsizes |-> {}, live |-> 3, heaps |-> 0, limit |-> 36],
             [sizes |-> {1, 3}, heapsizes |-> {2, 3}, live |-> 2, heaps |-> 1, limit |-> 32]}

M == INSTANCE Malloc WITH
       M_NSMALL <- 3, M_SNUM <- 3, m_pgsz <- 8, HEAPSIZE <- 5, HEAPFREE <- 9,
       Bounds <- MCBounds, spoilt <- mspoilt

-----------------------------------------------------------------------------
\* Lists of up to three redirections, for every kind of command, with and without
\* MULTIOS, a pipe on either side, a coprocess; or two commands after another.
Redir(type, fd1, word) == [type |-> type, fd1 |-> fd1, fd2 |-> -1, word |-> word, matches |-> <<word>>]

ToFiles ==
  {Redir("READ", 0, "a"), Redir("WRITE", 1, "a"), Redir("WRITE", 1, "b"), Redir("WRITE", 3, "a"),
   Redir("MERGEOUT", 2, "1"), Redir("MERGEOUT", 1, "-"), Redir("WRITE", 1, "missing")}
ToOthers ==
  {Redir("MERGEOUT", 1, w) : w \in {"2", "p", "a", "12"}} \union
  {Redir("MERGEIN", 0, w) : w \in {"-", "p", "a"}} \union
  {Redir("MERGEOUT", 3, "1"), Redir("MERGEIN", 4, "0"), Redir("MERGEOUT", 4, "b"),
   Redir("INPIPE", 0, "i"), Redir("OUTPIPE", 1, "o"), Redir("INPIPE", 0, "missing"),
   Redir("HERESTR", 0, "h"), Redir("WRITE", 0, "b")} \union
  {[Redir(t, 1, "*") EXCEPT !.matches = <<"a", "b">>] : t \in {"WRITE", "MERGEOUT"}} \union
  {[Redir("WRITE", 1, "*") EXCEPT !.matches = << >>]}

MCScripts ==
  LET Three == ToFiles \X ToFiles \X ToFiles
      All   == ToFiles \union ToOthers
      Two   == (ToFiles \X All) \union (All \X ToFiles)
      One(S) == {<<r>> : r \in S}
      Single(S) == {<<k>> : k \in S}
      K(kind, joined, lists) == [kind : {kind}, multios : BOOLEAN, joined : joined, redir : lists]
      Script(coproc, forks, commands) == [coproc : {coproc}, forks : {forks}, commands : commands]
  IN  Script(TRUE, TRUE, Single(K("builtin", {""}, Two) \union K("exec", {""}, Three)
                                \union K("external", {"output"}, Two)))
      \union Script(FALSE, TRUE, Single(K("builtin", {"input"}, Three) \union K("external", {"input"}, Two)))
      \union Script(FALSE, FALSE, Single(K("builtin", {""}, Two)))
      \union Script(TRUE, TRUE, K("exec", {""}, One(All))
                                  \X (K("builtin", {"input"}, One(ToFiles)) \union K("external", {""}, One(ToFiles))))

MCDigit == [w \in {"0", "1", "2", "12"} |-> CASE w = "0" -> 0 [] w = "1" -> 1 [] w = "2" -> 2 [] OTHER -> 12]

R == INSTANCE Redirections WITH
       NLOW <- 5, Digit <- MCDigit, Missing <- {"missing"}, Scripts <- MCScripts

-----------------------------------------------------------------------------
\* Two names on a path of directories of every kind.
MCStem == [f \in {"n", "m", "n.exe"} |-> IF f = "n.exe" THEN "n" ELSE ""]

MCShells ==
  LET base == [kind |-> "d1" :> "absolute" @@ "d2" :> "absolute" @@ "." :> "dot",
               paths |-> {<<"d1", "d2">>, <<".", "d1", "d2">>, <<"d1", ".", "d2">>},
               options |-> {"HASHCMDS", "HASHDIRS"},
               files |-> "d1" :> {"m"} @@ "d2" :> {"n", "m", "n.exe"} @@ "." :> {"n"},
               changes |-> {}, builtins |-> {}, fpath |-> {}, acts |-> {"run", "hash"}]
      tables == [base EXCEPT !.builtins = {"m"}, !.fpath = {"n"}, !.acts = {"run", "tables"},
                             !.paths = {<<"d1", "d2">>}]
  IN  {base, tables,
       [base EXCEPT !.options = {"HASHCMDS"}, !.acts = {"run", "hash", "path"}],
       [base EXCEPT !.files["d2"] = {"n", "m"}, !.changes = {<<"d1", "n">>, <<"d2", "m">>},
                    !.acts = {"run", "hash", "files"}, !.paths = {<<"d1", "d2">>}],
       [tables EXCEPT !.options = {"POSIXBUILTINS"}],
       [base EXCEPT !.kind = @ @@ "c1" :> "drive" @@ "c2" :> "drive" @@ "bin" :> "relative",
                    !.files = @ @@ "c1" :> {"n"} @@ "c2" :> {"n", "m"} @@ "bin" :> {"m"},
                    !.paths = {<<"c1", "c2">>, <<"c1", "bin", "d2">>, <<"d1", "c2", "d2">>}],
       [base EXCEPT !.kind = @ @@ "c1" :> "drive" @@ "dd" :> "dotted" @@ "cl" :> "closed",
                    !.files = @ @@ "c1" :> {"n"} @@ "dd" :> {"n", "m"} @@ "cl" :> {"n"},
                    !.paths = {<<"dd", "c1", ".">>, <<"cl", "d1", "d2">>}]}

-----------------------------------------------------------------------------
\* A disk c: of up to four directories; the stack, then named directories.
Segments == {"c:", "a", "b", "A", ".", "..", "x", "h"}
MCDisk == [s \in Segments |-> IF s = "A" THEN "a" ELSE s]
MCSize == [s \in Segments |-> IF s = "c:" THEN 2 ELSE 1]

MCWorlds ==
  LET A == <<"c:", "a">>
      B == <<"c:", "b">>
      AB == <<"c:", "a", "b">>
      none == [kind |-> "none"]
      Dir(p) == [kind |-> "dir", dir |-> p]
      Nth(s, n) == [kind |-> "count", sign |-> s, n |-> n]
      base == [dirs |-> {<<"c:">>, A, B}, gone |-> {}, home |-> A, cdpath |-> << >>,
               options |-> {}, DIRSTACKSIZE |-> 0, lists |-> {}, names |-> {}, values |-> {},
               args |-> {none, Dir(B), Dir(<<"..">>), Nth("+", 1), Nth("-", 0)}]
      more == [base EXCEPT !.dirs = @ \union {AB}]
  IN  {base,
       [base EXCEPT !.options = {"AUTOPUSHD", "PUSHDMINUS", "PUSHDIGNOREDUPS"}],
       [base EXCEPT !.options = {"AUTOPUSHD", "PUSHDTOHOME"}, !.DIRSTACKSIZE = 3,
                    !.args = {none, [kind |-> "dash"], Dir(<<"..">>), Nth("+", 2)}],
       [more EXCEPT !.cdpath = <<<<"c:">>>>, !.lists = {<<<<"a">>, <<"c:", "x">>>>},
                    !.args = {none, Nth("+", 1), [kind |-> "subst", old |-> "a", new |-> "b"],
                              Dir(<<"b">>), Dir(<<"c:", "A">>)}],
       [base EXCEPT !.names = {"x"}, !.values = {B, <<"b">>}, !.gone = {B},
                    !.options = {"CDABLEVARS", "PUSHDIGNOREDUPS"}, !.args = {Dir(<<"x">>), Dir(B)}],
       [more EXCEPT !.names = {"x", "h"}, !.values = {<<"c:", "A", "b">>}, !.args = {Dir(AB)},
                    !.options = {"AUTONAMEDIRS", "WINNTIGNORECASE", "PUSHDIGNOREDUPS"}]}

-----------------------------------------------------------------------------
\* ^X and ESC begin longer strings, [ and C insert themselves, m has the eighth bit.
MCHands ==
  LET X == <<"^X">>
      E == <<"ESC">>
      base == [binds |-> {<<"C">>, E, E \o <<"[">>, X \o <<"C">>, X \o <<"C", "m">>},
               sends |-> {<<"C">>, X \o <<"C">>}, alts |-> {"C"},
               removes |-> {<<"C">>, E \o <<"[">>, E \o <<"[", "C">>, X \o <<"C">>, X \o <<"C", "m">>, <<"m">>},
               options |-> {}, careful |-> TRUE]
  IN  {base,
       [base EXCEPT !.sends = {}, !.alts = {}, !.binds = {E \o <<"[">>, E, <<"m">>},
                    !.removes = {E \o <<"[", "C">>, E \o <<"m">>, <<"m">>}, !.options = {"emacs", "viins"}],
       [base EXCEPT !.careful = FALSE, !.binds = @ \union {<<"C", "m">>}, !.removes = @ \union {X, E}]}

Inserts == [k \in {"[", "C", "m"} |-> "self-insert"]

K == INSTANCE Keymaps WITH
       Keys <- {"^X", "ESC", "[", "C", "m"}, MetaKeys <- {"m"}, Hands <- MCHands,
       emacsbind <- "^X" :> "prefix" @@ "ESC" :> "prefix" @@ "m" :> "get-line" @@ Inserts,
       viinsbind <- "^X" :> "undefined-key" @@ "ESC" :> "prefix" @@ Inserts,
       vicmdbind <- "^X" :> "undefined-key" @@ "ESC" :> "prefix" @@ "[" :> "undefined-key"
                    @@ "C" :> "vi-change-eol" @@ "m" :> "get-line",
       emacskeys <- <<"ESC", "[", "C">> :> "forward-char" @@ <<"^X", "^X">> :> "exchange-point-and-mark"
                    @@ <<"ESC", "m">> :> "get-line",
       vikeys <- <<"ESC", "[", "C">> :> "forward-char" @@ <<"ESC">> :> "vi-cmd-mode"

-----------------------------------------------------------------------------
\* One ordinary name, HOME, or PATH with path.
MCScenarios ==
  LET On(o)  == [on |-> o, off |-> {}]
      Off(o) == [on |-> {}, off |-> o]
      Plain  == On({})
      Scenario(n, d, a, i, x, o) ==
        [names |-> n, depth |-> d, arrays |-> a, integers |-> i, allexport |-> x, options |-> o]
  IN  {Scenario({"X"}, 2, {<<"1">>}, FALSE, FALSE, {Plain}),
       Scenario({"X"}, 1, {}, TRUE, FALSE, {Plain, On({"integer"}), On({"integer", "exported"})}),
       Scenario({"X"}, 1, {<<"1">>}, FALSE, TRUE, {Plain, On({"exported"}), Off({"exported"})}),
       Scenario({"X"}, 1, {}, TRUE, FALSE, {Plain, On({"readonly"}), Off({"readonly"}), On({"integer"})}),
       Scenario({"HOME"}, 1, {<<"1">>}, TRUE, TRUE,
                {Plain, On({"exported"}), Off({"exported"}), On({"readonly"}), Off({"readonly"}), On({"integer"})}),
       Scenario({"PATH", "path"}, 1, {<<"1", "1">>}, FALSE, FALSE, {On({"unique"})}),
       Scenario({"PATH", "path"}, 1, {<<>>}, FALSE, TRUE, {}),
       Scenario({"PATH", "path"}, 1, {<<"1">>}, FALSE, FALSE, {Off({"exported"}), On({"readonly"})})}

P == INSTANCE Params WITH
       Words <- {"1"}, Scenarios <- MCScenarios, Reuse <- TRUE, PastSpoilt <- FALSE, path <- ppath

-----------------------------------------------------------------------------
(* A part that a behaviour is not about begins in one way.                   *)

Keymaps == {"keymaps", "any keymaps"}

Of(p, S) == IF part = p THEN S ELSE {CHOOSE x \in S : TRUE}

OneScript == CHOOSE s \in MCScripts : ~s.forks

MCInit ==
  /\ part \in Parts
  /\ Init
  /\ bounds \in Of("malloc", MCBounds) /\ M!Init
  /\ shell \in Of("commands", MCShells) /\ CommandsInit
  /\ part = "commands" \/ path = CHOOSE p \in shell.paths : TRUE
  /\ world \in Of("directories", MCWorlds) /\ DirectoriesInit
  /\ hand \in {h \in MCHands : h.careful # (part = "any keymaps")} /\ K!Init
  /\ part \in Keymaps \/ <<hand, main>> = <<CHOOSE h \in MCHands : h.careful, "emacs">>
  /\ scenario \in Of("params", MCScenarios) /\ P!Init
  /\ R!Init
  /\ part = "redirections" \/ (script = OneScript.commands /\ ~cmd.sh.forks)

MCNext ==
  \/ part = "hashtable" /\ Next /\ UNCHANGED <<part, mvars, rvars, CommandsVars, DirectoriesVars, kvars, pvars>>
  \/ part = "malloc" /\ M!Next /\ UNCHANGED <<part, vars, rvars, CommandsVars, DirectoriesVars, kvars, pvars>>
  \/ part = "redirections" /\ R!Next /\ UNCHANGED <<part, vars, mvars, CommandsVars, DirectoriesVars, kvars, pvars>>
  \/ part = "commands" /\ CommandsNext /\ UNCHANGED <<part, vars, mvars, rvars, DirectoriesVars, kvars, pvars>>
  \/ part = "directories" /\ DirectoriesNext /\ UNCHANGED <<part, vars, mvars, rvars, CommandsVars, kvars, pvars>>
  \/ part \in Keymaps /\ K!Next /\ UNCHANGED <<part, vars, mvars, rvars, CommandsVars, DirectoriesVars, pvars>>
  \/ part = "params" /\ P!Next /\ UNCHANGED <<part, vars, mvars, rvars, CommandsVars, DirectoriesVars, kvars>>

MCSpec == MCInit /\ [][MCNext]_<<part, vars, mvars, rvars, CommandsVars, DirectoriesVars, kvars, pvars>>

-----------------------------------------------------------------------------
(* The properties of the instances; those of the hash table, of      *)
(* commands and of directories are their own, and hold where nothing is done. *)

\* mem.c: no byte is given to two callers, and lengths and lists add up.
BlocksHeldApart == part = "malloc" => M!HeldApart /\ M!BlocksAddUp

\* exec.c, utils.c: when a command runs its descriptors are open on what its
\* redirections name, and afterwards the shell has those it had.
DescriptorsAreAsTold ==
  part = "redirections" => R!RedirectionsMeanWhatTheySay /\ R!DescriptorsComeBack

\* zle_main.c: a string of keys runs what was bound to it.
KeysRunWhatWasBound == part \in Keymaps => K!KeysRunWhatWasBound

\* params.c: the environment tells the exported parameters.
EnvironTells == part = "params" => P!EnvironTells

\* builtin.c, params.c: a function's locals end with it and give back what they hid; no step
\* of an assignment, unset or typeset changes a readonly parameter.
FunctionsHaveScopes == [][part = "params" => P!ScopesStep /\ P!ReadonlyStep]_pvars
=============================================================================
