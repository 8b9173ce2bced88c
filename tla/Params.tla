------------------------------- MODULE Params -------------------------------
(***************************************************************************)
(* Parameters (params.c, the typeset builtins of builtin.c, save_params()  *)
(* of exec.c): the table of parameters with the chain `old' of those a     *)
(* local one hides, the environment that the exported ones point into, the *)
(* special parameters, of which PATH and path are two views of one array,  *)
(* and the functions and prefix assignments that make and undo scopes.     *)
(*                                                                         *)
(* The operators named as functions of the program take and return s, the  *)
(* variables as one record.  Strings are sequences of words with colons or *)
(* blanks between them.                                                    *)
(***************************************************************************)
EXTENDS Lib, FiniteSets
LOCAL INSTANCE SequencesExt
LOCAL INSTANCE FiniteSetsExt

CONSTANTS
  Words,          \* the words values are made of: some of "1", "2" and "3"
  Scenarios,      \* what the commands of one behaviour are about: the names,
                  \* the arrays of Words assigned, whether integers are, the
                  \* options of typeset, whether ALL_EXPORT is used, and how
                  \* deep functions are called
  Reuse,          \* an environment string allocated right after another was
                  \* freed gets its address
  PastSpoilt   \* whether to go on from states that are spoilt

VARIABLES
  paramtab,   \* for each name its nodes, the visible one first, then old
  path,       \* the array behind PATH and path
  environ,    \* the string of each name
  winenv,     \* the environment of the process: nt_execve() passes no other, and
              \* what is started inherits this one
  frames,     \* the functions being executed: locals and saved parameters
  allexport,  \* the option ALL_EXPORT
  errflag,
  scenario,   \* one of Scenarios
  spoilt      \* something happened that C leaves undefined, a node was created
              \* where the end of the function will not look for it, a value was
              \* exported that the parameter refused, one of PATH and path was
              \* unset and the other readonly, or a readonly special parameter
              \* was emptied behind a command with an assignment to it

vars == <<paramtab, path, environ, winenv, frames, allexport, errflag, scenario, spoilt>>

----------------------------------------------------------------------------
Ordinary == {"X"}
Specials == {"HOME", "PATH", "path"}
ParamNames    == Ordinary \union Specials

ename(n) == CASE n = "PATH" -> "path" [] n = "path" -> "PATH" [] OTHER -> ""

None  == <<"none">>    \* no string in the environment, no binding
Unset == <<"unset">>

Node(type, special, flags, val, env) ==
  [level |-> 0, type |-> type, special |-> special, flags |-> flags,
   val |-> val, env |-> env]

State ==
  [tab |-> paramtab, path |-> path, environ |-> environ, winenv |-> winenv, frames |-> frames,
   allexport |-> allexport, err |-> FALSE, spoilt |-> FALSE]

\* A function whose prefix assignments are being made, or undone, is not
\* entered yet, or not any more.
locallevel(s) == Cardinality({i \in DOMAIN s.frames : s.frames[i].entered})
Known(s, n)   == s.tab[n] # <<>>
Top(s, n)     == s.tab[n][1]
Has(h, f)     == f \in h.flags
IsSet(s, n)   == Known(s, n) /\ ~Has(Top(s, n), "unset")
WithTop(s, n, h) == [s EXCEPT !.tab[n][1] = h]
zerr(s)       == [s EXCEPT !.err = TRUE]

uniqarray(a) ==
  FoldLeft(LAMBDA r, w : IF Contains(r, w) THEN r ELSE Append(r, w), <<>>, a)

\* An array without elements and one with an empty element look alike.
zjoin(a) == IF a = <<"">> THEN <<>> ELSE a

colonsplit(x, uniq) ==
  IF x = <<>> THEN <<"">> ELSE IF uniq THEN uniqarray(x) ELSE x

\* What getstrvalue() and getarrvalue() return of a whole parameter.
ValueOf(s, n, h) ==
  CASE h.special /\ n = "PATH" -> zjoin(s.path)
    [] h.special /\ n = "path" -> s.path
    [] OTHER                   -> h.val

IsNumber(x) == Len(x) <= 1 /\ x # <<"">>
matheval(x) == IF x = <<>> THEN <<"0">> ELSE x

----------------------------------------------------------------------------
(* The environment.  A node's env is "none", "here" (the string of the     *)
(* name that is in environ) or "freed".                                    *)

\* The string of n is freed or moved: pointers to it that others hold.
StringMoves(s, n) ==
  LET Moved(h) == IF h.env = "here" THEN [h EXCEPT !.env = "freed"] ELSE h
      Each(c)  == FoldLeft(LAMBDA r, h : Append(r, Moved(h)), <<>>, c)
  IN [s EXCEPT
             !.tab[n] = Each(@),
             !.frames = FoldLeft(LAMBDA r, f :
               Append(r, IF f.name = n THEN [f EXCEPT !.saved = Each(@)] ELSE f), <<>>, @)]

\* A string that is there is replaced without telling the process of it.
addenv(s, n, v) ==
  IF s.environ[n] = None THEN [s EXCEPT !.environ[n] = v, !.winenv[n] = v]
  ELSE [(IF Reuse THEN s ELSE StringMoves(s, n)) EXCEPT !.environ[n] = v]

\* The visible node is the one whose string is replaced.
replenv(s, n, v) ==
  Given(IF Reuse THEN s ELSE StringMoves(s, n), LAMBDA t :
    WithTop([t EXCEPT !.environ[n] = v, !.winenv[n] = v], n, [Top(t, n) EXCEPT !.env = "here"]))

\* The visible node of n gets the string v.
PointToEnv(s, n, v) ==
  Given(addenv(s, n, v), LAMBDA t : WithTop(t, n, [Top(t, n) EXCEPT !.env = "here"]))

\* The caller has set env to NULL: a string that is not in environ any
\* more is freed a second time.
delenv(s, n) ==
  Given(WithTop(s, n, [Top(s, n) EXCEPT !.env = "none"]), LAMBDA t :
    IF Top(s, n).env = "here" THEN [StringMoves(t, n) EXCEPT !.environ[n] = None, !.winenv[n] = None]
    ELSE [t EXCEPT !.spoilt = TRUE])

\* Variant: a string once there is only replaced while the array is not empty.
arrfixenv_NotEmpty(s) ==
  Given(WithTop(s, "PATH", [Top(s, "PATH") EXCEPT !.flags =
          IF s.allexport THEN @ \union {"exported"} ELSE @]), LAMBDA t :
    IF ~Has(Top(t, "PATH"), "exported") \/ t.path = <<>> THEN t
    ELSE IF t.environ["PATH"] # None
    THEN replenv(t, "PATH", zjoin(t.path))
    ELSE PointToEnv(t, "PATH", zjoin(t.path)))

\* PATH follows the array.
arrfixenv(s) ==
  Given(WithTop(s, "PATH", [Top(s, "PATH") EXCEPT !.flags =
          IF s.allexport THEN @ \union {"exported"} ELSE @]), LAMBDA t :
    IF ~Has(Top(t, "PATH"), "exported") THEN t
    ELSE IF t.environ["PATH"] # None
    THEN replenv(t, "PATH", zjoin(t.path))
    ELSE PointToEnv(t, "PATH", zjoin(t.path)))

----------------------------------------------------------------------------
(* The functions sets.cfn, sets.ifn and sets.afn of the kinds of node.     *)

colonarrsetfn(s, x) ==
  arrfixenv([s EXCEPT !.path = colonsplit(x, Has(Top(s, "PATH"), "unique"))])

arrvarsetfn(s, x) ==
  arrfixenv([s EXCEPT !.path = IF Has(Top(s, "path"), "unique") THEN uniqarray(x) ELSE x])

SetFn(s, n, x) ==
  LET h == Top(s, n)
  IN CASE h.special /\ n = "PATH" -> colonarrsetfn(s, x)
       [] h.special /\ n = "path" -> arrvarsetfn(s, x)
       [] h.type = "array" /\ Has(h, "unique") ->
            WithTop(s, n, [h EXCEPT !.val = uniqarray(x)])
       [] OTHER -> WithTop(s, n, [h EXCEPT !.val = x])

\* The same with NULL.  An integer keeps its value.
UnsetFn(s, n) ==
  LET h == Top(s, n)
  IN CASE h.special /\ n = "PATH" -> arrfixenv([s EXCEPT !.path = <<>>])
       [] h.special /\ n = "path" -> [s EXCEPT !.path = <<>>]
       [] h.type = "integer"      -> s
       [] OTHER                   -> WithTop(s, n, [h EXCEPT !.val = <<>>])

----------------------------------------------------------------------------
(* Creating, setting and unsetting.                                        *)

\* The type an integer that was unset leaves behind in the union.
Misread(h, type) == h.type = "integer" /\ type # "integer" /\ h.val # <<"0">>

createparam(s, n, type, flags) ==
  IF Known(s, n) /\ (Top(s, n).level = locallevel(s) \/ Top(s, n).special)
  THEN IF IsSet(s, n) THEN s
       ELSE Given(Top(s, n), LAMBDA h :
         Given(WithTop([s EXCEPT !.spoilt = @ \/ (~h.special /\ Misread(h, type))], n,
                 IF h.special
                 THEN [h EXCEPT !.flags =
                         flags \union (IF s.allexport THEN {"exported"} ELSE {})]
                 ELSE [h EXCEPT !.flags = flags, !.type = type,
                         !.val = IF type = "integer" THEN <<"0">> ELSE <<>>]), LAMBDA t :
           IF h.special /\ ename(n) # "" /\ Known(t, ename(n))
           THEN WithTop(t, ename(n), [Top(t, ename(n)) EXCEPT !.flags =
                  @ \ {"unset", "unique", "readonly", "exported"}])
           ELSE t))
  ELSE [s EXCEPT !.tab[n] =
          <<Node(type, FALSE, flags, IF type = "integer" THEN <<"0">> ELSE <<>>, "none")>> \o @]

\* The first half of unsetparam_pm() empties a parameter, the second marks
\* it or takes it out of the table; between them its other name is unset.
Empty(s, n) ==
  Given(UnsetFn(s, n), LAMBDA t :
    IF Has(Top(t, n), "exported") /\ Top(t, n).env # "none" THEN delenv(t, n) ELSE t)

\* Variant: a local parameter that is unset goes at once.
Retire_LocalGoes(s, n) ==
  IF Top(s, n).special THEN WithTop(s, n, [Top(s, n) EXCEPT !.flags = @ \union {"unset"}])
  ELSE [s EXCEPT !.tab[n] = Tail(@)]

Retire(s, n) ==
  Given(Top(s, n), LAMBDA h :
    IF (h.level > 0 /\ locallevel(s) >= h.level) \/ (h.special /\ h.level = 0)
    THEN WithTop(s, n, [h EXCEPT !.flags = @ \union {"unset"}])
    ELSE [s EXCEPT !.tab[n] = Tail(@)])

IsProtected(s, n) == Has(Top(s, n), "readonly") /\ Top(s, n).level <= locallevel(s)

UnsetOther(s, n) ==
  CASE ~Top(s, n).special \/ ename(n) = "" \/ ~Known(s, ename(n)) -> s
    [] IsProtected(s, ename(n)) -> [zerr(s) EXCEPT !.spoilt = TRUE]
    [] OTHER -> Retire(Empty(s, ename(n)), ename(n))

unsetparam_pm(s, n) ==
  IF IsProtected(s, n) THEN zerr(s) ELSE Retire(UnsetOther(Empty(s, n), n), n)

unsetparam(s, n) == IF Known(s, n) THEN unsetparam_pm(s, n) ELSE s

\* What setstrvalue() does after the value is set: the environment follows.
ExportValue(s, n) ==
  LET h == Top(s, n)
  IN IF \/ h.env = "none" /\ ~Has(h, "exported") /\ ~(s.allexport /\ Len(s.tab[n]) = 1)
        \/ h.type = "array" \/ (h.special /\ ename(n) # "")
     THEN s
     ELSE CASE h.env = "here"  -> replenv(s, n, ValueOf(s, n, h))
            [] h.env = "freed" -> WithTop(s, n, [h EXCEPT !.env = "none"])
            [] OTHER -> PointToEnv(WithTop(s, n,
                          [h EXCEPT !.flags = @ \union {"exported"}]), n, ValueOf(s, n, h))

setarrvalue(s, n, x) ==
  IF Has(Top(s, n), "readonly") \/ Top(s, n).type # "array" THEN zerr(s)
  ELSE SetFn(s, n, x)

setstrvalue(s, n, x) ==
  IF Has(Top(s, n), "readonly") THEN zerr(s)
  ELSE ExportValue(
         CASE Top(s, n).type = "scalar"  -> SetFn(s, n, x)
           [] Top(s, n).type = "integer" -> SetFn(s, n, matheval(x))
           [] OTHER -> setarrvalue(s, n, IF x = <<>> THEN <<"">> ELSE x), n)

setintvalue(s, n, w) ==
  IF Has(Top(s, n), "readonly") THEN zerr(s)
  ELSE IF Top(s, n).type = "integer" THEN ExportValue(SetFn(s, n, <<w>>), n)
  ELSE setstrvalue(s, n, <<w>>)

setsparam(s, n, x) ==
  Given(CASE ~IsSet(s, n) -> createparam(s, n, "scalar", {})
          [] IsSet(s, n) /\ Top(s, n).type = "array" /\ ~Top(s, n).special ->
               createparam(unsetparam(s, n), n, "scalar", {})
          [] OTHER -> s,
        LAMBDA t : IF IsSet(t, n) THEN setstrvalue(t, n, x) ELSE t)

setaparam(s, n, x) ==
  Given(CASE ~IsSet(s, n) -> createparam(s, n, "array", {})
          [] IsSet(s, n) /\ Top(s, n).type # "array" /\ ~Top(s, n).special ->
               createparam(unsetparam(s, n), n, "array", Top(s, n).flags \cap {"unique"})
          [] OTHER -> s,
        LAMBDA t : IF IsSet(t, n) THEN setarrvalue(t, n, x) ELSE t)

\* A new integer gets its value and nothing else.
setiparam(s, n, w) ==
  IF IsSet(s, n) THEN setintvalue(s, n, w)
  ELSE Given(createparam(s, n, "integer", {}), LAMBDA t :
    IF Top(t, n).special THEN t ELSE WithTop(t, n, [Top(t, n) EXCEPT !.val = <<w>>]))

----------------------------------------------------------------------------
(* typeset_single() of builtin.c.  A value None means none was given.      *)

Typed(S) == IF "integer" \in S THEN "integer" ELSE "scalar"

\* -U of a special parameter makes the array unique at once.
UniqueNow(s, n, on, off) ==
  LET h == Top(s, n)
  IN IF "unique" \in on /\ ~(Has(h, "readonly") /\ "readonly" \notin off)
     THEN CASE h.special /\ ename(n) # "" -> arrfixenv([s EXCEPT !.path = uniqarray(@)])
            [] h.type = "array" -> WithTop(s, n, [h EXCEPT !.val = uniqarray(@)])
            [] OTHER -> s
     ELSE s

\* An existing parameter gets the flags, its place in the environment and
\* the value.
ChangeFlags(s, n, on, off, value) ==
  Given(UniqueNow(s, n, on, off), LAMBDA t0 :
  Given(WithTop(t0, n, [Top(t0, n) EXCEPT !.flags = (@ \union on) \ (off \union {"unset"})]),
  LAMBDA t :
    IF Top(t, n).type = "array" THEN t
    ELSE Given(CASE Has(Top(t, n), "exported") /\ Top(t, n).env = "none" ->
                      PointToEnv([t EXCEPT !.spoilt = @ \/ (value # None /\ Has(Top(t, n), "readonly"))],
                                 n, IF value # None THEN value ELSE ValueOf(t, n, Top(t, n)))
                 [] ~Has(Top(t, n), "exported") /\ Top(t, n).env # "none" -> delenv(t, n)
                 [] OTHER -> t,
               LAMBDA u : IF value # None THEN setsparam(u, n, value) ELSE u)))

UseExisting(s, n, on, off, value) ==
  LET h   == Top(s, n)
      on1 == IF h.special THEN on \ {"integer"} ELSE on
      on2 == IF h.level > 0 THEN on1 \ {"exported"} ELSE on1
      off1 == IF h.special THEN off \ {"integer"} ELSE off
  IN IF \/ on1 # on2 /\ on2 = {} /\ off1 = {}        \* a local one is not exported
        \/ on2 = {} /\ off = {} /\ value = None       \* only printed
     THEN s
     ELSE ChangeFlags(s, n, on2, off1, value)

CreateLocal(s, n, on, export, value) ==
  Given(createparam(s, n, Typed(on), on \ {"integer", "readonly"}), LAMBDA t :
  Given(IF export THEN t ELSE WithTop(t, n, [Top(t, n) EXCEPT !.level = locallevel(t)]), LAMBDA u :
  Given(IF value # None THEN setsparam(u, n, value) ELSE u, LAMBDA v :
    WithTop(v, n, [Top(v, n) EXCEPT !.flags = @ \union (on \cap {"readonly"})]))))

ListLocal(s, n, export) ==
  IF export \/ s.frames = <<>> THEN s
  ELSE [s EXCEPT !.frames[Len(s.frames)].locals = @ \union {n}]

\* The type changes: the old parameter goes and its value is assigned.
Convert(s, n, on, off, export, value) ==
  LET h     == Top(s, n)
      kept  == IF value # None THEN value ELSE ValueOf(s, n, h)
      on1   == IF Has(h, "readonly") THEN on \union ({"readonly"} \ off) ELSE on
      s1    == WithTop(s, n, [h EXCEPT !.flags = @ \ {"readonly"}])
  IN CreateLocal(unsetparam_pm(s1, n), n, on1, export, kept)

typeset_single(s, n, on, off, value) ==
  LET export == "exported" \in on \union off
      h      == Top(s, n)
      usable == /\ Known(s, n)
                /\ ~Has(h, "unset") \/ (h.special /\ h.level = locallevel(s))
                /\ h.special \/ h.level = locallevel(s) \/ export
      tc     == /\ usable /\ ~h.special
                /\ \/ "integer" \in off /\ h.type = "integer"
                   \/ "integer" \in on /\ h.type # "integer"
  IN CASE tc -> Convert(s, n, on, off, export, value)
       [] usable /\ ~tc -> UseExisting(s, n, on, off, value)
       [] OTHER -> CreateLocal(ListLocal(s, n, export), n, on, export, value)

----------------------------------------------------------------------------
(* Prefix assignments: save_params() and restore_params() of exec.c.       *)

NoPrefix == [name |-> "", list |-> FALSE, val |-> <<>>]

\* A special parameter is copied, unless it is readonly: then the copy is
\* the parameter itself, whose u holds NULL.
Saved(s, n) ==
  IF ~Known(s, n) THEN <<>>
  ELSE IF ~Top(s, n).special THEN s.tab[n]
  ELSE <<[Top(s, n) EXCEPT
           !.val = IF Has(Top(s, n), "readonly") THEN None ELSE ValueOf(s, n, Top(s, n)),
           !.env = "none"]>>

save_params(s, p) ==
  [s EXCEPT
     !.frames = Append(@, [name |-> p.name, locals |-> {}, entered |-> FALSE,
                           saved |-> IF p.name = "" THEN <<>> ELSE Saved(s, p.name)]),
     !.tab = [n \in ParamNames |->
        IF n = p.name /\ Known(s, n) /\ ~Top(s, n).special THEN <<>> ELSE @[n]]]

\* addvars(): for a function the parameter is exported.
addvars(s, p, export) ==
  IF p.name = "" THEN s
  ELSE IF p.list THEN setaparam(s, p.name, p.val)
  ELSE [setsparam([s EXCEPT !.allexport = @ \/ export], p.name, p.val)
          EXCEPT !.allexport = s.allexport]

RemoveTemporary(s, n) ==
  IF n # "" /\ Known(s, n) /\ ~Top(s, n).special
  THEN unsetparam_pm(WithTop(s, n, [Top(s, n) EXCEPT !.flags = @ \ {"readonly"}]), n)
  ELSE s

RestoreOrdinary(s, n, saved) ==
  Given([s EXCEPT !.tab[n] = saved], LAMBDA t :
    IF Has(saved[1], "exported")
    THEN PointToEnv([t EXCEPT !.spoilt = @ \/ Has(saved[1], "unset") \/ saved[1].type = "array"],
                    n, ValueOf(t, n, saved[1]))
    ELSE t)

\* The string of a special parameter is put into the environment for the
\* copy: the parameter's own pointer is left to a string that was freed, or
\* the string is nobody's when it was unset in the function.
RestoreSpecial(s, n, copy) ==
  Given(WithTop(s, n, [Top(s, n) EXCEPT !.flags = copy.flags]), LAMBDA t :
  Given(IF copy.val = None THEN [UnsetFn(t, n) EXCEPT !.spoilt = TRUE]
                           ELSE SetFn(t, n, copy.val), LAMBDA u :
    IF ~Has(copy, "exported") THEN u
    ELSE IF copy.val = None THEN PointToEnv(u, n, ValueOf(u, n, Top(u, n)))
    ELSE addenv([u EXCEPT !.spoilt = @ \/ Has(copy, "unset") \/ Top(u, n).env # "here"], n, ValueOf(u, n, Top(u, n)))))

restore_params(s) ==
  Given(RemoveTemporary(s, Last(s.frames).name), LAMBDA t :
  Given([t EXCEPT !.frames = Front(@)], LAMBDA u :
    IF Last(t.frames).saved = <<>> THEN u
    ELSE IF Last(t.frames).saved[1].special
    THEN RestoreSpecial(u, Last(t.frames).name, Last(t.frames).saved[1])
    ELSE RestoreOrdinary(u, Last(t.frames).name, Last(t.frames).saved)))

\* The end of doshfunc(), then restore_params().
DropLocals(s, locals) ==
  FoldSet(LAMBDA n, t : IF Known(t, n) /\ Top(t, n).level > locallevel(t)
                        THEN unsetparam_pm(t, n) ELSE t, s, locals)

Enter(s, b) == [s EXCEPT !.frames[Len(s.frames)].entered = b]

LeaveFunction(s) ==
  restore_params(DropLocals(Enter(s, FALSE), s.frames[Len(s.frames)].locals))

----------------------------------------------------------------------------
(* The commands.                                                           *)

\* A pointer to a string that was freed is left, also where the string of a
\* local parameter has its address; the mark that a parameter is exported is
\* gone and its string is not (of PATH when path is set after it was unset, of a
\* special one behind a builtin it was exported for by ALL_EXPORT); a node is where the end of its function will
\* not find it, or a special one has become local.
Dangling(s)  ==
  \E n \in ParamNames : \E i \in DOMAIN s.tab[n] :
    \/ s.tab[n][i].env = "freed"
    \/ s.tab[n][i].env = "here" /\ ~Has(s.tab[n][i], "exported")
    \/ s.tab[n][i].env = "here" /\ \E j \in 1 .. i - 1 : s.tab[n][j].env = "here"
Misplaced(s) ==
  \E n \in ParamNames : \E i \in DOMAIN s.tab[n] :
    \/ s.tab[n][i].special /\ s.tab[n][i].level > 0
    \/ i > 1 /\ s.tab[n][i - 1].level <= s.tab[n][i].level

Becomes(s) ==
  /\ paramtab' = s.tab
  /\ path' = s.path
  /\ environ' = s.environ
  /\ winenv' = s.winenv
  /\ frames' = s.frames
  /\ errflag' = s.err
  /\ spoilt' = (spoilt \/ s.spoilt \/ Dangling(s) \/ Misplaced(s))
  /\ UNCHANGED <<allexport, scenario>>

Ready == ~errflag /\ (PastSpoilt \/ ~spoilt)

Arrays  == scenario.arrays
names   == scenario.names
Options == scenario.options
Strings(n) == IF n = "PATH" THEN Arrays ELSE {<<w>> : w \in Words}

AssignString ==
  /\ Ready
  /\ \E n \in names : \E x \in Strings(n) : Becomes(setsparam(State, n, x))

AssignArray ==
  /\ Ready
  /\ \E n \in names, x \in Arrays : Becomes(setaparam(State, n, x))

\* An assignment in an arithmetic expression.
AssignInteger ==
  /\ Ready /\ scenario.integers
  /\ \E n \in names, w \in Words : Becomes(setiparam(State, n, w))

bin_unset ==
  /\ Ready
  /\ \E n \in names : Becomes(unsetparam(State, n))

\* Left out: values that are no numbers for integers, and -i for path, which
\* clears the bit that says that it is an array.
CanConvert(s, n, o, value) ==
  "integer" \in o.on =>
    /\ n # "path"
    /\ IF value # None THEN IsNumber(value) ELSE Known(s, n) => IsNumber(ValueOf(s, n, Top(s, n)))

bin_typeset ==
  /\ Ready
  /\ \E n \in names, o \in Options :
     \E x \in Strings(n) \union {None} :
        /\ CanConvert(State, n, o, x)
        /\ Becomes(typeset_single(State, n, o.on, o.off, x))

SetAllExport ==
  /\ Ready /\ scenario.allexport
  /\ allexport' = ~allexport
  /\ UNCHANGED <<paramtab, path, environ, winenv, frames, errflag, scenario, spoilt>>

PrefixAssignments ==
  {NoPrefix}
    \union UNION {{[name |-> n, list |-> FALSE, val |-> x] : x \in Strings(n)} : n \in names}
    \union {[name |-> n, list |-> TRUE, val |-> x] : n \in names, x \in Arrays}

\* A function is called; when an assignment fails, it is not.
CallFunction ==
  /\ Ready
  /\ Len(frames) < scenario.depth
  /\ \E p \in PrefixAssignments :
       LET s == addvars(save_params(State, p), p, TRUE)
       IN Becomes(IF s.err THEN restore_params(s) ELSE Enter(s, TRUE))

\* A builtin that does nothing to parameters itself.
CallBuiltin ==
  /\ Ready
  /\ \E p \in PrefixAssignments \ {NoPrefix} :
       Becomes(restore_params(addvars(save_params(State, p), p, FALSE)))

\* An error ends all that is being executed.
Return ==
  /\ PastSpoilt \/ ~spoilt
  /\ frames # <<>>
  /\ Becomes([LeaveFunction(State) EXCEPT !.err = errflag])

Prompt ==
  /\ errflag /\ frames = <<>>
  /\ errflag' = FALSE
  /\ UNCHANGED <<paramtab, path, environ, winenv, frames, allexport, scenario, spoilt>>

----------------------------------------------------------------------------
\* The shell has been started with HOME and PATH in its environment.
Init ==
  /\ paramtab = [n \in ParamNames |->
       CASE n = "HOME" -> <<Node("scalar", TRUE, {"exported"}, <<"1">>, "here")>>
         [] n = "PATH" -> <<Node("scalar", TRUE, {"exported"}, <<>>, "here")>>
         [] n = "path" -> <<Node("array", TRUE, {}, <<>>, "none")>>
         [] OTHER      -> <<>>]
  /\ path = <<"1">>
  /\ environ = [n \in ParamNames |-> IF n \in {"HOME", "PATH"} THEN <<"1">> ELSE None]
  /\ winenv = environ
  /\ frames = <<>>
  /\ allexport = FALSE
  /\ errflag = FALSE
  /\ scenario \in Scenarios
  /\ spoilt = FALSE

Next ==
  \/ AssignString \/ AssignArray \/ AssignInteger \/ bin_unset \/ bin_typeset
  \/ SetAllExport \/ CallFunction \/ CallBuiltin \/ Return \/ Prompt

Spec == Init /\ [][Next]_vars

----------------------------------------------------------------------------
(* Properties.                                                             *)

\* PATH and path are one parameter; whether it is set is a matter of the names,
\* and elements that are repeated go when either of them is unique.
Same(n, m) == m # "" /\ (n = m \/ ename(n) = m)

\* The chain that was visible when function k was the innermost one: the
\* next function called with an assignment to n has saved it.
Later(n, k) == {j \in k + 1 .. Len(frames) : Same(n, frames[j].name)}

ChainAt(n, k) ==
  IF Later(n, k) = {} THEN paramtab[n]
  ELSE frames[CHOOSE j \in Later(n, k) : \A i \in Later(n, k) : j <= i].saved

AtLevel(n, k, l) == SelectSeq(ChainAt(n, k), LAMBDA h : h.level = l)

ValueIn(n, k, h) ==
  CASE n = "path" -> uniqarray(zjoin(IF Later(n, k) = {} THEN path ELSE h.val))
    [] n # "path" /\ Has(h, "unset") -> Unset
    [] OTHER -> h.val

\* What the scope of function k holds for n, that of the shell being 0: its
\* own node, else that of the assignment in front of the call.
BindingOf(n, k) ==
  LET own  == AtLevel(n, k, k)
      base == AtLevel(n, k, 0)
  IN CASE k > 0 /\ own # <<>> -> ValueIn(n, k, own[1])
       [] k > 0 /\ own = <<>> /\ ~Same(n, frames[k].name) -> None
       [] OTHER -> IF base = <<>> THEN Unset ELSE ValueIn(n, k, base[1])

ScopesOfParams ==
  [k \in 1 .. Len(frames) + 1 |-> [n \in ParamNames \ {"PATH"} |-> BindingOf(n, k - 1)]]

\* Functions see, change and give back parameters as if each had a scope of
\* its own: chains, levels, the list of locals and the saved parameters
\* bring that about, whatever is set, unset, converted and called.
Abstract ==
  INSTANCE Scopes WITH
    Names <- ParamNames \ {"PATH"}, Locals <- Ordinary,
    Values <- UNION {c.arrays : c \in Scenarios} \union {<<>>, <<"">>, <<"0">>} \union {<<w>> : w \in Words},
    scopes <- ScopesOfParams

ScopesStep == spoilt' \/ Abstract!Next \/ UNCHANGED ScopesOfParams

\* A string in the environment belongs to a parameter, the visible one or one that
\* is saved, and tells the value of the visible one it belongs to, also behind all
\* that moves nodes from the table to the saved parameters and back (addenv(),
\* replenv(), delenv(), arrfixenv() and the callers that keep env); and a process
\* started now finds that string.  Not so in a function called with an assignment
\* to a parameter that was exported, until the function sets it, and for HOME from
\* the first command with an assignment to it on: addenv() has replaced the string.
Owners(n) == {i \in DOMAIN paramtab[n] : paramtab[n][i].env = "here"}

SavedOwners(n) ==
  {k \in DOMAIN frames : frames[k].name = n
     /\ \E i \in DOMAIN frames[k].saved : frames[k].saved[i].env = "here"}

EnvironTells ==
  ~spoilt => \A n \in ParamNames :
    /\ environ[n] # None => Owners(n) # {} \/ SavedOwners(n) # {}
    /\ \A i \in Owners(n) : environ[n] = ValueOf(State, n, paramtab[n][i])
    /\ winenv[n] = environ[n] \/ SavedOwners(n) # {} \/ n = "HOME"

\* A readonly parameter of the shell or of a function that is being executed
\* stays, and keeps its value until it is made writable or converted, whatever is
\* assigned to it, unset, called with an assignment to it or declared below it.
Own(n, k) == AtLevel(n, k, k)

ReadonlyStep ==
  spoilt' \/ \A n \in Ordinary, k \in 0 .. Len(frames) :
    k <= Len(frames)' /\ Own(n, k) # <<>> /\ Has(Own(n, k)[1], "readonly") =>
      /\ Own(n, k)' # <<>>
      /\ LET h == Own(n, k)[1]
             g == Own(n, k)'[1]
         IN Has(g, "readonly") /\ g.type = h.type => g.val = h.val
=============================================================================
