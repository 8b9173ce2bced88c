------------------------------ MODULE Compctl ------------------------------
(***************************************************************************)
(* The compctl builtin (builtin.c): reading definitions of completions,     *)
(* keeping them, printing them.  A word is a sequence of characters.        *)
(*                                                                          *)
(* A completion is a record: alts, the flags joined by +, each with its     *)
(* extended completions (ext: a condition and a completion), and dflt, true *)
(* when the last + stands for the default completion.                       *)
(***************************************************************************)
EXTENDS Lib, SequencesExt, FiniteSetsExt, TLC

Letters == <<"f", "c", "q", "o", "v", "b", "A", "I", "F", "p", "E", "j", "r", "z", "B", "R", "G", "u", "d", "e",
             "N", "O", "Z", "U", "n", "Q", "m", "w">>
Arguments == <<"k", "K", "X", "P", "S", "g", "s", "l">>
SPECIAL == {"C", "D", "T"}
EXCMDS == "e"
DISCMDS == "d"

Zero == [mask |-> {}, arg |-> <<>>, hnum |-> 0, ext |-> <<>>]
Completion(flags) == [alts |-> <<[Zero EXCEPT !.mask = flags]>>, dflt |-> FALSE]

---------------------------------------------------------------------------
(* Conditions: s[...][...], p[1,2] ... *)

\* Names for the commas and brackets that divide arguments, once marked.
Comma == "M,"
End == "M]"

\* The end of the argument whose [ is before i: its characters are marked on the way.
\* level is 0 once its ] is found.
RECURSIVE Marked(_, _, _)
Marked(t, i, level) ==
    IF level = 0 \/ i > Len(t) THEN [t |-> t, i |-> i, level |-> level]
    ELSE CASE t[i] = "\\" /\ i < Len(t) -> Marked(t, i + 2, level)
           [] t[i] = "[" -> Marked(t, i + 1, level + 1)
           [] t[i] = "]" -> Marked(IF level = 1 THEN [t EXCEPT ![i] = End] ELSE t, i + 1, level - 1)
           [] t[i] = "," /\ level = 1 -> Marked([t EXCEPT ![i] = Comma], i + 1, level)
           [] OTHER -> Marked(t, i + 1, level)

RECURSIVE SkipBlanks(_, _)
SkipBlanks(t, i) == IF Peek(t, i) = " " THEN SkipBlanks(t, i + 1) ELSE i

Digits == [d \in {"0", "1", "2", "3"} |-> CASE d = "0" -> 0 [] d = "1" -> 1 [] d = "2" -> 2 [] d = "3" -> 3]
RECURSIVE atoi(_, _)
atoi(t, n) == IF t # <<>> /\ Head(t) \in DOMAIN Digits THEN atoi(Tail(t), 10 * n + Digits[Head(t)]) ELSE n
RECURSIVE Decimal(_)
Decimal(n) == (IF n < 10 THEN <<>> ELSE Decimal(n \div 10)) \o <<CHOOSE d \in DOMAIN Digits : Digits[d] = n % 10>>

\* Every comma that is left is text.
Text(a) == [i \in DOMAIN a |-> IF a[i] = Comma THEN "," ELSE a[i]]

\* What a [...] means to a condition of this type; <<>> is an error.
Argument(type, a) ==
    LET cut == SelectInSeq(a, LAMBDA c : c = Comma)
        first == IF cut = 0 THEN a ELSE SubSeq(a, 1, cut - 1)
        rest == From(a, cut + 1)
    IN  CASE type \in {"p", "m"} -> <<atoi(first, 0), IF cut = 0 THEN atoi(a, 0) ELSE atoi(rest, 0)>>
          [] type \in {"s", "S"} -> <<Text(a)>>
          [] cut = 0 -> <<>>
          [] type \in {"r", "R"} -> <<first, Text(rest)>>
          [] OTHER -> <<atoi(first, 0), Text(rest)>>

\* The arguments from i on.
RECURSIVE ArgumentsAt(_, _, _, _)
ArgumentsAt(type, t, i, args) ==
    IF Peek(t, i) # "[" THEN [ok |-> TRUE, i |-> i, args |-> args]
    ELSE Given(Marked(t, i + 1, 1), LAMBDA m :
         IF m.level > 0 THEN [ok |-> FALSE, i |-> i, args |-> args]
         ELSE Given(Argument(type, SubSeq(m.t, SkipBlanks(t, i + 1), m.i - 2)), LAMBDA a :
              IF a = <<>> THEN [ok |-> FALSE, i |-> i, args |-> args]
              ELSE ArgumentsAt(type, t, m.i, Append(args, a))))

\* What is left where a condition was expected and the word ended.
CCT_UNUSED == [type |-> " ", args |-> <<>>]

\* The conditions of a word from i on: alternatives (,) of conditions that hold together.
RECURSIVE Conditions(_, _, _)
Conditions(t, i, ors) ==
    IF i > Len(t)
    THEN [ok |-> TRUE, ors |-> IF Last(ors) = <<>> THEN [ors EXCEPT ![Len(ors)] = <<CCT_UNUSED>>] ELSE ors]
    ELSE Given(SkipBlanks(t, i), LAMBDA j :
         LET type == Peek(t, j)
         IN  IF type \notin {"s", "S", "p", "c", "C", "w", "W", "n", "N", "m", "r", "R"} \/ Peek(t, j + 1) # "["
             THEN [ok |-> FALSE, ors |-> ors]
             ELSE Given(ArgumentsAt(type, t, j + 1, <<>>), LAMBDA r :
                  LET more == [ors EXCEPT ![Len(ors)] = Append(@, [type |-> type, args |-> r.args])]
                      k == SkipBlanks(t, r.i)
                  IN  CASE ~r.ok -> [ok |-> FALSE, ors |-> ors]
                        [] r.ok /\ Peek(t, k) = "," -> Conditions(t, k + 1, Append(more, <<>>))
                        [] OTHER -> Conditions(t, k, more)))

---------------------------------------------------------------------------
(* Reading. *)

\* Where get_compctl() is: the words left (the first may have been read in part), the flags being
\* collected, what is assigned so far and to which of the special completions, and the
\* static flags.
Reading(argv, isdef, cclist) ==
    [ok |-> TRUE, argv |-> argv, cct |-> Zero, alts |-> <<Zero>>, dflt |-> FALSE, ready |-> 0, hx |-> FALSE,
     isdef |-> isdef, cclist |-> cclist, special |-> ""]
Fails(g) == [g EXCEPT !.ok = FALSE]

cc_assign(g, reass) ==
    LET illegal == "l" \in DOMAIN g.cct.arg /\ DOMAIN g.cct.arg \intersect {"k", "g", "s", "K", "X", "P"} # {}
        new == IF reass /\ "L" \notin g.cclist THEN g.cclist \intersect SPECIAL ELSE {}
    IN  CASE illegal \/ \E x, y \in new : x # y -> Fails(g)
          [] OTHER -> [g EXCEPT !.alts[Len(g.alts)] = g.cct, !.special = IF new = {} THEN @ ELSE CHOOSE x \in new : TRUE]

\* A flag that is followed by its argument, in the same word or in the next.
TakeArgument(g, k, Put(_, _)) ==
    LET word == Head(g.argv)
    IN  CASE k < Len(word) -> [g EXCEPT !.cct = Put(@, From(word, k + 1)), !.argv = Tail(@)]
          [] Len(g.argv) > 1 /\ k = Len(word) -> [g EXCEPT !.cct = Put(@, g.argv[2]), !.argv = From(@, 3)]
          [] OTHER -> Fails(g)

PutPattern(g) ==
    IF ~g.ok \/ g.argv = <<>> THEN Fails(g)
    ELSE [g EXCEPT !.cct.arg = ("H" :> IF Head(g.argv) = <<"*">> THEN <<>> ELSE Head(g.argv)) @@ @, !.argv = Tail(@)]

RECURSIVE get_compctl(_, _), get_xcompctl(_, _)

\* The flags of the first word, from character k on.
RECURSIVE Flags(_, _, _)
Flags(g, k, first) ==
    LET c == Peek(Head(g.argv), k)
    IN  CASE c = "" -> [g EXCEPT !.argv = Tail(@)]
          [] c \in Range(Letters) -> Flags([g EXCEPT !.cct.mask = @ \union {c}], k + 1, first)
          [] c = "a" -> Flags([g EXCEPT !.cct.mask = @ \union {"R", "G"}], k + 1, first)
          [] c \in Range(Arguments) -> TakeArgument(g, k, LAMBDA cct, w : [cct EXCEPT !.arg = (c :> w) @@ @])
          [] c = "H" -> PutPattern(TakeArgument(g, k, LAMBDA cct, w : [cct EXCEPT !.hnum = atoi(w, 0)]))
          [] c \in SPECIAL /\ first /\ ~g.hx ->
                Flags([g EXCEPT !.cclist = @ \union {c}, !.isdef = @ \/ c = "D"], k + 1, first)
          [] c = "L" /\ first /\ ~g.hx -> Flags([g EXCEPT !.cclist = @ \union {c}], k + 1, first)
          [] c = "x" /\ first /\ Len(g.argv) > 1 ->      \* what follows -x in its word is not read
                Given(get_xcompctl([g EXCEPT !.argv = From(@, 2)], <<>>), LAMBDA h :
                    IF h.ok THEN [h EXCEPT !.ready = 2] ELSE h)
          [] c \in {"-", "+"} /\ ~first -> [g EXCEPT !.argv[1] = From(@, k - 1), !.ready = 1]
          [] OTHER -> Fails(g)

\* The + between two completions.
Alternative(g, first) ==
    IF ~g.ok \/ g.ready = 1 \/ g.argv = <<>> \/ Head(g.argv) # <<"+">> THEN g
    ELSE Given(cc_assign(g, first /\ ~g.hx), LAMBDA h :
         LET rest == Tail(g.argv)
             next == [h EXCEPT !.hx = TRUE, !.ready = 0, !.argv = rest]
         IN  IF ~h.ok THEN h
             ELSE IF rest = <<>> \/ Peek(Head(rest), 1) # "-" \/ Head(rest) \in {<<"-">>, <<"-", "-">>}
                  THEN [next EXCEPT !.dflt = @ \/ ~g.isdef]
                  ELSE [next EXCEPT !.alts = Append(@, Zero), !.cct = Zero])

RECURSIVE AllFlags(_, _)
AllFlags(g, first) ==
    IF \/ ~g.ok \/ g.ready # 0 \/ g.argv = <<>> \/ Peek(Head(g.argv), 1) # "-"
       \/ first /\ Len(Head(g.argv)) = 1
    THEN g
    ELSE Given(IF Len(Head(g.argv)) = 1 THEN [g EXCEPT !.argv[1] = <<"-", "+">>] ELSE g, LAMBDA h :
         AllFlags(Alternative(Flags(h, 2, first), first), first))

get_compctl(g, first) ==
    IF first /\ Head(g.argv) = <<"+">> /\ ~(Len(g.argv) > 1 /\ Peek(g.argv[2], 1) = "-" /\ Len(g.argv[2]) > 1)
    THEN [g EXCEPT !.cclist = {"REMOVE"}, !.argv = IF Len(@) > 1 /\ Peek(@[2], 1) = "-" THEN From(@, 3) ELSE Tail(@)]
    ELSE Given(AllFlags(g, first), LAMBDA h :
         IF ~h.ok THEN h
         ELSE LET skip == h.ready = 0 /\ h.argv # <<>> /\ Peek(Head(h.argv), 1) = "-"
                  plain == h.cct.mask \intersect {EXCMDS, DISCMDS} = {}
              IN  cc_assign([h EXCEPT !.argv = IF skip THEN Tail(@) ELSE @,
                                      !.cct.mask = IF plain THEN @ \union {EXCMDS} ELSE @], first /\ ~h.hx))

\* Completions with conditions; ext are those read before.
get_xcompctl(g, ext) ==
    Given(Conditions(Head(g.argv), 1, <<<<>>>>), LAMBDA c :
    Given(IF ~c.ok THEN Fails(g) ELSE get_compctl(Reading(Tail(g.argv), g.isdef, g.cclist), FALSE), LAMBDA in :
        LET new == Append(ext, [cond |-> c.ors, cc |-> [alts |-> in.alts, dflt |-> in.dflt]])
            rest == in.argv
            Done(left) == [g EXCEPT !.argv = left, !.cct.ext = new]
        IN  CASE ~c.ok \/ ~in.ok -> Fails(g)
              [] c.ok /\ in.ok /\ rest = <<>> -> IF g.cclist \intersect SPECIAL # {} THEN Done(<<>>) ELSE Fails(g)
              [] OTHER ->
                 CASE Peek(Head(rest), 1) # "-" \/ (Len(rest) = 1 /\ Peek(Head(rest), 2) \in {"", "+"}) -> Fails(g)
                   [] Head(rest) = <<"-", "-">> -> Done(Tail(rest))
                   [] Head(rest) = <<"-", "+">> /\ rest[2] = <<"-", "-">> -> Done(From(rest, 3))
                   [] OTHER -> get_xcompctl([g EXCEPT !.argv = Tail(rest)], new)))

---------------------------------------------------------------------------
(* Printing, as compctl -L does. *)

Concat(words) == FoldLeft(LAMBDA s, w : s \o w, <<>>, words)
Between(words, sep) == [i \in 1..2 * Len(words) - 1 |-> IF i % 2 = 1 THEN words[(i + 1) \div 2] ELSE sep]

PrintedArgument(type, a) ==
    CASE type \in {"p", "m"} -> Decimal(a[1]) \o <<",">> \o Decimal(a[2])
      [] type \in {"s", "S"} -> a[1]
      [] type \in {"r", "R"} -> a[1] \o <<",">> \o a[2]
      [] OTHER -> Decimal(a[1]) \o <<",">> \o a[2]
PrintedCondition(c) ==
    <<c.type>> \o Concat([i \in DOMAIN c.args |-> <<"[">> \o PrintedArgument(c.type, c.args[i]) \o <<"]">>])
PrintedConditions(ors) ==
    Concat(Between([i \in DOMAIN ors |->
        Concat(Between([j \in DOMAIN ors[i] |-> PrintedCondition(ors[i][j])], <<" ">>))], <<" ", ",", " ">>))

\* The flags that are shown.
Shown(mask) == IF DISCMDS \in mask THEN mask ELSE mask \ {EXCMDS}
PrintedFlags(mask) ==
    LET a == IF {"R", "G"} \subseteq mask THEN <<"a">> ELSE <<>>
        rest == SelectSeq(Letters, LAMBDA c : c \in mask \ (IF a = <<>> THEN {} ELSE {"R", "G"}))
    IN  IF mask = {} THEN <<>> ELSE <<<<"-">> \o a \o rest>>
Option(alt, c) == IF c \in DOMAIN alt.arg THEN <<<<"-", c>>, alt.arg[c]>> ELSE <<>>

RECURSIVE printcompctl(_)
PrintedExt_NoDash(ext) == Concat([i \in DOMAIN ext |-> <<PrintedConditions(ext[i].cond)>> \o printcompctl(ext[i].cc)])
PrintedExt(ext) ==
    Concat(Between([i \in DOMAIN ext |-> <<PrintedConditions(ext[i].cond)>> \o printcompctl(ext[i].cc)], <<<<"-">>>>))
PrintedAlternative(alt) ==
    PrintedFlags(Shown(alt.mask)) \o Concat([i \in DOMAIN Arguments |-> Option(alt, Arguments[i])])
    \o (IF "H" \in DOMAIN alt.arg THEN <<<<"-", "H">>, Decimal(alt.hnum), alt.arg["H"]>> ELSE <<>>)
    \o (IF alt.ext = <<>> THEN <<>> ELSE <<<<"-", "x">>>> \o PrintedExt(alt.ext) \o <<<<"-", "-">>>>)
printcompctl(cc) ==
    Concat(Between([i \in DOMAIN cc.alts |-> PrintedAlternative(cc.alts[i])], <<<<"+">>>>))
    \o (IF cc.dflt THEN <<<<"+">>>> ELSE <<>>)

\* The command that is printed for a name, or for one of the special completions.
PrintedFor(name, cc) ==
    printcompctl(cc) \o (IF Peek(name, 1) \in {"-", "+"} THEN <<<<"-">>>> ELSE <<>>) \o <<name>>
PrintedSpecial(c, cc) == <<<<"-", c>>>> \o printcompctl(cc)

---------------------------------------------------------------------------
(* The builtin.  A table has the completions of commands (names) and the special ones. *)

InitialTable ==
    [compctltab |-> <<>>, special |-> [c \in SPECIAL |-> Completion(CASE c = "C" -> {"c"} [] c = "D" -> {"f"} [] c = "T" -> {})]]

\* Entries are shown when the flags asked for are among theirs.
Wanted(showmask, cc) == showmask = {} \/ Shown(cc.alts[1].mask) \intersect showmask # {}

\* What is printed, in no order, by compctl with these flags and names.
Listing(table, names, cclist, showmask) ==
    IF names = <<>> /\ cclist \intersect SPECIAL = {}
    THEN {PrintedFor(n, table.compctltab[n]) : n \in {n \in DOMAIN table.compctltab : Wanted(showmask, table.compctltab[n])}}
         \union {PrintedSpecial(c, table.special[c]) : c \in {c \in SPECIAL : Wanted(showmask, table.special[c])}}
    ELSE {PrintedFor(n, table.compctltab[n]) : n \in Range(names) \intersect DOMAIN table.compctltab}
         \union {PrintedSpecial(c, table.special[c]) : c \in cclist \intersect SPECIAL}

\* A special completion is replaced while its flags are read: a mistake behind a + comes
\* too late for it.
compctl_process_cc(table, names, g) ==
    IF "REMOVE" \in g.cclist THEN [table EXCEPT !.compctltab = [n \in DOMAIN @ \ Range(names) |-> @[n]]]
    ELSE [table EXCEPT !.compctltab = [n \in Range(names) |-> [alts |-> g.alts, dflt |-> g.dflt]] @@ @]

bin_compctl(table, argv) ==
    IF argv = <<>> THEN [table |-> table, ret |-> 0, printed |-> Listing(table, <<>>, {}, {})]
    ELSE Given(get_compctl(Reading(argv, FALSE, {}), TRUE), LAMBDA g :
         LET cc == [alts |-> g.alts, dflt |-> g.dflt]
             now == IF g.special = "" THEN table ELSE [table EXCEPT !.special[g.special] = cc]
             lists == "L" \in g.cclist \/ (g.argv = <<>> /\ g.cclist \intersect SPECIAL = {})
             showmask == IF g.argv = <<>> /\ g.special = "" THEN Shown(g.alts[1].mask) ELSE {}
             unknown == {n \in Range(g.argv) : n \notin DOMAIN table.compctltab}
         IN  CASE ~g.ok -> [table |-> now, ret |-> 1, printed |-> {}]
               [] g.ok /\ lists ->
                    [table |-> now, ret |-> IF unknown = {} THEN 0 ELSE 1, printed |-> Listing(now, g.argv, g.cclist, showmask)]
               [] g.ok /\ ~lists ->
                    [table |-> IF g.cclist \intersect SPECIAL # {} THEN now ELSE compctl_process_cc(now, g.argv, g),
                     ret |-> 0, printed |-> {}])

---------------------------------------------------------------------------
(* What the printed form means. *)

\* Definitions that cannot be read again: a condition left out behind a comma, a name that
\* begins with - or + behind extended completions (the - before it is read as a name), flags
\* that show nothing before a +, and what a command that failed left of a special one.
Unreadable(t) ==
    LET all == {t.compctltab[n] : n \in DOMAIN t.compctltab} \union {t.special[c] : c \in SPECIAL}
    IN  \/ \E cc \in all : \E i \in DOMAIN cc.alts : \E x \in Range(cc.alts[i].ext) : \E ands \in Range(x.cond) :
              CCT_UNUSED \in Range(ands)
        \/ \E n \in DOMAIN t.compctltab : LET cc == t.compctltab[n] IN
              \/ printcompctl(cc) # <<>> /\ Head(printcompctl(cc)) = <<"+">>
              \/ Peek(n, 1) \in {"-", "+"} /\ ~cc.dflt /\ Last(cc.alts).ext # <<>>
        \/ \E c \in SPECIAL : Len(t.special[c].alts) > 1 /\ Last(t.special[c].alts) = Zero

\* How the definitions of a table are read again, by a shell that has none.
ReadAgain(lines) == FoldSet(LAMBDA line, t : bin_compctl(t, line).table, InitialTable, lines)

\* -e is the rule, and is not printed.
RECURSIVE Plain(_)
Plain(cc) ==
    [cc EXCEPT !.alts = [i \in DOMAIN @ |->
        [@[i] EXCEPT !.mask = Shown(@), !.ext = [j \in DOMAIN @ |-> [@[j] EXCEPT !.cc = Plain(@)]]]]]
PlainTable(t) ==
    [compctltab |-> [n \in DOMAIN t.compctltab |-> Plain(t.compctltab[n])], special |-> [c \in SPECIAL |-> Plain(t.special[c])]]
============================================================================
