-------------------------------- MODULE Glob --------------------------------
(***************************************************************************)
(* Filename generation (glob()): a word is cut into a pattern and its       *)
(* qualifiers, the pattern into the components of a path (parsepat()), which *)
(* scanner() follows through the tree of files; insert() tests and marks     *)
(* what is found, and the words are sorted.                                 *)
(*                                                                         *)
(* A word is a sequence of characters and tokens.  A tree gives, for the    *)
(* path of each file (a sequence of names), what stat() tells of it.  The    *)
(* root of the tree is the current directory, too.  There are no links: the  *)
(* port has no lstat().                                                     *)
(***************************************************************************)
EXTENDS PatternLang

None == [type |-> "none"]
PATH_MAX == 1024

---------------------------------------------------------------------------
(* Names of files.  These are the calls of the system.                      *)

Names(s) == LET cut == FoldLeft(LAMBDA r, c : IF c = "/" THEN Append(r, <<>>) ELSE Append(Front(r), Append(Last(r), c)), <<<<>>>>, s)
            IN  SelectSeq(cut, LAMBDA n : n \notin {<<>>, <<".">>})
\* What a directory must be: "x/" and "x/.".
MustBeDir(s) == s # <<>> /\ (Last(s) = "/" \/ (Last(s) = "." /\ Peek(s, Len(s) - 1) \in {"", "/"}))
stat(tree, s) ==
    IF s = <<>> \/ Names(s) \notin DOMAIN tree THEN None
    ELSE IF MustBeDir(s) /\ tree[Names(s)].type # "dir" THEN None ELSE tree[Names(s)]
exists(tree, s) == stat(tree, s) # None
\* What readdir() gives of the directory, "" being the current one.
Entries(tree, s) ==
    LET dir == Names(s)
    IN  IF dir \notin DOMAIN tree \/ tree[dir].type # "dir" THEN {}
        ELSE {Last(p) : p \in {p \in DOMAIN tree : p # <<>> /\ Front(p) = dir}}

---------------------------------------------------------------------------
(* haswilds(): the place of the first token of a pattern, that of the colon *)
(* of a word that has modifiers only, or the end; 0 when there is nothing.   *)

haswilds(s) ==
    LET lev(i) == Cardinality({k \in 1..i : s[k] = "Inpar"}) - Cardinality({k \in 1..i : s[k] = "Outpar"})
        wilds == {i \in DOMAIN s : \/ s[i] \in {"Star", "Inbrack", "Inang"}
                                   \/ s[i] = "Quest" /\ ~(i = 2 /\ s[1] = "%")
                                   \/ s[i] = "Bar" /\ lev(i) # 0
                                   \/ EXTENDEDGLOB /\ s[i] \in {"Pound", "Hat"}}
        \* A group that is closed before the end is not one of modifiers.
        from == Max({0} \union {i \in DOMAIN s : s[i] = "Outpar" /\ lev(i) = 0 /\ i < Len(s)})
        colons == {i \in from+1..Len(s) : s[i] = ":" /\ lev(i) = 1}
    IN  IF s = <<"Inbrack">> \/ s = <<"Outbrack">> THEN 0
        ELSE IF wilds # {} THEN Min(wilds)
        ELSE IF colons = {} \/ lev(Len(s)) # 0 THEN 0
        ELSE IF s[Min(colons) - 1] = "Inpar" THEN Min(colons) ELSE Len(s) + 1

---------------------------------------------------------------------------
(* modify(): :h :t :r :e, and f before them, which repeats.                 *)

Shorten(c, s) ==
    LET at(x) == SelectLastInSeq(s, LAMBDA y : y = x)
    IN  CASE c = "h" -> IF at("/") = 0 THEN s ELSE SubSeq(s, 1, IF at("/") = 1 THEN 1 ELSE at("/") - 1)
          [] c = "t" -> From(s, at("/") + 1)
          [] c = "r" -> IF at(".") <= 1 THEN s ELSE SubSeq(s, 1, at(".") - 1)
          [] c = "e" -> IF at(".") <= 1 THEN s ELSE From(s, at(".") + 1)

RECURSIVE Repeatedly(_, _)
Repeatedly(c, s) == IF Shorten(c, s) = s THEN s ELSE Repeatedly(c, Shorten(c, s))

\* What is no modifier ends them.
RECURSIVE modify(_, _)
modify(s, m) ==
    LET f == Peek(m, 2) = "f"
        c == Peek(m, IF f THEN 3 ELSE 2)
    IN  IF Peek(m, 1) # ":" \/ c \notin {"h", "t", "r", "e"} THEN s
        ELSE modify(IF f THEN Repeatedly(c, s) ELSE Shorten(c, s), From(m, IF f THEN 4 ELSE 3))

---------------------------------------------------------------------------
(* Qualifiers.  Sets of mode bits stand for octal numbers.                  *)

\* The bits that a letter asks for.
Flag == "r" :> 8 @@ "w" :> 7 @@ "x" :> 6 @@ "A" :> 5 @@ "I" :> 4 @@ "E" :> 3 @@ "R" :> 2 @@ "W" :> 1 @@ "X" :> 0
        @@ "s" :> 11 @@ "S" :> 10 @@ "t" :> 9
Octal(ds) == FoldLeft(LAMBDA v, d : {b + 3 : b \in v} \union (CASE d = "0" -> {} [] d = "1" -> {0} [] d = "2" -> {1} [] d = "3" -> {0, 1}), {}, ds)
Units == "p" :> 512 @@ "P" :> 512 @@ "k" :> 1024 @@ "K" :> 1024 @@ "m" :> 1048576 @@ "M" :> 1048576
Times == "h" :> 3600 @@ "m" :> 60 @@ "w" :> 604800 @@ "M" :> 2592000 @@ "s" :> 1
Number_(func, data) == [func |-> func, data |-> data, range |-> 0, units |-> 1, sense |-> FALSE]

\* qual*(): whether test q holds of a file; what a time is compared with is the age.
Compared(v, q) == CASE q.range < 0 -> v < q.data [] q.range > 0 -> v > q.data [] q.range = 0 -> v = q.data
Holds(f, q) ==
    CASE q.func = "qualflags" -> f.bits \cap q.data # {}
      [] q.func = "qualeqflags" -> f.bits = q.data
      [] q.func = "qualmode" -> f.type = q.data
      [] q.func = "qualiscom" -> f.type = "file" /\ 6 \in f.bits
      [] q.func = "qualischar" -> f.type = "char"
      [] q.func = "qualisblk" -> FALSE
      [] q.func \in {"dev", "uid", "gid"} -> f[q.func] = q.data
      [] q.func = "nlink" -> Compared(f.nlink, q)
      [] q.func = "size" -> Compared((f.size + q.units - 1) \div q.units, q)
      [] q.func \in {"atime", "mtime", "ctime"} -> Compared(f[q.func] \div q.units, q)

\* The tests are alternatives of conjunctions; ct says whether the last of them has a test.
NoQualifiers(options) ==
    [alts |-> <<>>, ct |-> 0, sense |-> FALSE, colonmod |-> <<>>, err |-> FALSE, nullglob |-> "NULLGLOB" \in options,
     markdirs |-> "MARKDIRS" \in options, listtypes |-> FALSE, noglobdots |-> "GLOBDOTS" \notin options]

AddTest(r, q) ==
    LET test == [q EXCEPT !.sense = r.sense]
    IN  [r EXCEPT !.ct = @ + 1, !.alts = IF @ = <<>> THEN <<<<test>>>> ELSE Append(Front(@), Append(Last(@), test))]

\* A number behind a letter, with what it counts and which side of it is meant (getrange).
Ranged(s, i, func, units) ==
    LET u == Peek(s, i) \in DOMAIN units
        sign == Peek(s, IF u THEN i + 1 ELSE i)
        at == i + (IF u THEN 1 ELSE 0) + (IF sign \in {"+", "-"} THEN 1 ELSE 0)
        ds == DigitsAt(s, at)
    IN  [i |-> at + Len(ds), err |-> ds = <<>>,
         q |-> [Number_(func, zstrtol(ds)) EXCEPT !.units = IF u THEN units[s[i]] ELSE IF "h" \in DOMAIN units THEN 86400 ELSE 1,
                                                  !.range = IF sign = "+" THEN 1 ELSE IF sign = "-" THEN -1 ELSE 0]]

\* Without a number u and g name somebody: nobody is known.
Measured(s, i) ==
    CASE s[i] = "L" -> Ranged(s, i + 1, "size", Units)
      [] s[i] = "l" -> Ranged(s, i + 1, "nlink", <<>>)
      [] s[i] = "a" -> Ranged(s, i + 1, "atime", Times)
      [] s[i] = "m" -> Ranged(s, i + 1, "mtime", Times)
      [] s[i] = "c" -> Ranged(s, i + 1, "ctime", Times)
      [] s[i] \in {"d", "u", "g"} ->
           Given(DigitsAt(s, i + 1), LAMBDA ds :
               [i |-> i + 1 + Len(ds), err |-> ds = <<>>,
                q |-> Number_(CASE s[i] = "d" -> "dev" [] s[i] = "u" -> "uid" [] s[i] = "g" -> "gid", zstrtol(ds))])
      [] s[i] = "o" ->
           Given(DigitsAt(s, i + 1), LAMBDA ds : [i |-> i + 1 + Len(ds), err |-> ds = <<>>, q |-> Number_("qualeqflags", Octal(ds))])

Tests == "/" :> Number_("qualmode", "dir") @@ "." :> Number_("qualmode", "file") @@ "Star" :> Number_("qualiscom", 0)
         @@ "U" :> Number_("uid", 0) @@ "G" :> Number_("gid", 0)
         @@ [c \in DOMAIN Flag |-> Number_("qualflags", {Flag[c]})]

\* The qualifiers of s from i on.  A comma begins an alternative when there is a test before it.
RECURSIVE Qualifiers(_, _, _)
Qualifiers(s, i, r) ==
    LET c == Peek(s, i)
        Go(t) == Qualifiers(s, i + 1, t)
    IN  CASE c = "" \/ r.err -> r
          [] idigit(c) -> Given(DigitsAt(s, i), LAMBDA ds : Qualifiers(s, i + Len(ds), AddTest(r, Number_("qualflags", Octal(ds)))))
          [] c = "," -> Go([r EXCEPT !.sense = FALSE, !.ct = 0, !.alts = IF r.ct > 0 THEN Append(@, <<>>) ELSE @])
          [] c = ":" -> [r EXCEPT !.colonmod = From(s, i)]
          [] c \in {"Hat", "^"} -> Go([r EXCEPT !.sense = ~@])
          [] c = "-" -> Go(r)
          [] c = "%" -> IF Peek(s, i + 1) = "b" THEN Qualifiers(s, i + 2, AddTest(r, Number_("qualisblk", 0)))
                        ELSE Qualifiers(s, IF Peek(s, i + 1) = "c" THEN i + 2 ELSE i + 1, AddTest(r, Number_("qualischar", 0)))
          [] c = "M" -> Go([r EXCEPT !.markdirs = ~r.sense])
          [] c = "T" -> Go([r EXCEPT !.listtypes = ~r.sense])
          [] c = "N" -> Go([r EXCEPT !.nullglob = ~r.sense])
          [] c = "D" -> Go([r EXCEPT !.noglobdots = r.sense])
          [] c \in DOMAIN Tests -> Go(AddTest(r, Tests[c]))
          [] c \in {"L", "l", "a", "m", "c", "d", "u", "g", "o"} ->
               Given(Measured(s, i), LAMBDA m : Qualifiers(s, m.i, [AddTest(r, m.q) EXCEPT !.err = m.err]))
          [] OTHER -> [r EXCEPT !.err = TRUE]

---------------------------------------------------------------------------
(* insert(): a file that was found becomes a word.                          *)

file_type(f) ==
    CASE f.type = "dir" -> "/" [] f.type = "char" -> "%" [] OTHER -> IF f.bits \cap {0, 3, 6} # {} THEN "*" ELSE " "

Accepts_AllTests(alts, f) == \A i \in DOMAIN alts : \A j \in DOMAIN alts[i] : Holds(f, alts[i][j]) # alts[i][j].sense
Accepts(alts, f) == \E i \in DOMAIN alts : \A j \in DOMAIN alts[i] : Holds(f, alts[i][j]) # alts[i][j].sense

insert(g, found, s) ==
    LET f == stat(g.tree, s)
        marked == f # None /\ (g.listtypes \/ (g.markdirs /\ f.type = "dir"))
    IN  IF g.alts # <<>> /\ (f = None \/ ~Accepts(g.alts, f)) THEN found
        ELSE Append(found, modify(IF marked THEN Append(s, file_type(f)) ELSE s, g.colonmod))

---------------------------------------------------------------------------
(* parsecomplist(): the components of a path, each to be met once, any number *)
(* of times (closure 1) or at least once (closure 2).  err is the flag left.  *)

Slash(s, i) == Min({Len(s) + 1} \union {k \in i..Len(s) : s[k] = "/"})
\* The component in s[a..b-1], which must all belong to it.
Whole(s, a, b, top) ==
    Given(parsecompsw(SubSeq(s, a, b - 1), 1, <<>>, top), LAMBDA r : IF r.c # <<>> /\ r.i = b - a + 1 THEN r.c ELSE <<>>)

RECURSIVE parsecomplist(_)
parsecomplist(s) ==
    LET Failed == [q |-> <<>>, err |-> TRUE]
        Then(comp, closure, k) ==
            Given(parsecomplist(From(s, k)), LAMBDA r :
                IF r.q = <<>> THEN r ELSE [r EXCEPT !.q = <<[comp |-> comp, closure |-> closure]>> \o @])
        stars == IF IsPrefix(<<"Star", "Star", "/">>, s) THEN 3
                 ELSE IF IsPrefix(<<"Star", "Star", "Star", "/">>, s) THEN 4 ELSE 0
        close == IF Peek(s, 1) = "Inpar" THEN skipparens(s, 1) ELSE 0
        slash == Slash(s, 1)
    IN  IF stars > 0
        THEN [Then([Comp(<<"Star">>, <<>>) EXCEPT !.last = TRUE], 1, stars + 1) EXCEPT !.err = @ \/ parsecomplist(From(s, stars + 1)).q = <<>>]
        ELSE IF close > 2 /\ Pounds(s, close) > 0 /\ Peek(s, close - 2) = "/"
        THEN Given(Whole(s, 2, slash, FALSE), LAMBDA c :
                 IF c = <<>> THEN [Failed EXCEPT !.err = FALSE]
                 ELSE IF slash # close - 2 THEN Failed
                 ELSE \* what follows may fail to be a pattern unnoticed
                      Given(parsecomplist(From(s, close + Pounds(s, close))), LAMBDA r :
                          [r EXCEPT !.q = <<[comp |-> c[1], closure |-> Pounds(s, close)]>> \o @]))
        ELSE Given(Whole(s, 1, slash, TRUE), LAMBDA c :
                 IF c = <<>> THEN [Failed EXCEPT !.err = FALSE]
                 ELSE IF slash > Len(s) THEN [q |-> <<[comp |-> c[1], closure |-> 0]>>, err |-> FALSE]
                 ELSE Then(c[1], 0, slash + 1))

---------------------------------------------------------------------------
(* scanner(): follows the components from the k-th on, buf being the path so *)
(* far.  What is found is added to st.found; a closure that must be met at    *)
(* least once may be met any number of times from then on (st.met), for the   *)
(* rest of the search.                                                      *)

addpath(buf, s) == buf \o s \o <<"/">>
Fits(buf, s) == Len(s) + Len(buf) + 2 < PATH_MAX

RECURSIVE scanner(_, _, _, _)
scanner(g, k, buf, st) ==
    IF k > Len(g.q) THEN st
    ELSE LET c == g.q[k].comp
             closure == IF k \in st.met THEN 1 ELSE g.q[k].closure
             last == k = Len(g.q)
             next == IF closure > 0 THEN k ELSE k + 1
             Found(r, s) == [r EXCEPT !.found = insert(g, @, s)]
             Down(r, name) == IF Fits(buf, name) THEN scanner(g, next, addpath(buf, name), r) ELSE r
         IN  Given(CASE closure = 0 -> st
                     [] closure = 1 -> scanner(g, k + 1, buf, st)
                     [] closure = 2 -> [st EXCEPT !.met = @ \union {k}], LAMBDA r :
             IF c.next = <<>> /\ c.left = <<>> /\ haswilds(c.str) = 0
             THEN \* a straight string
                  IF ~last
                  THEN IF closure > 0 /\ (c.str = <<".">> \/ ~exists(g.tree, addpath(buf, c.str))) THEN r ELSE Down(r, c.str)
                  ELSE IF c.str = <<>>
                  THEN IF exists(g.tree, Append(buf, ".")) THEN Found(r, buf) ELSE r
                  ELSE IF exists(g.tree, buf \o c.str) THEN Found(r, buf \o c.str) ELSE r
             ELSE FoldSet(LAMBDA name, x :
                              IF last THEN Found(x, buf \o name)
                              ELSE IF closure > 0 /\ stat(g.tree, buf \o name).type # "dir" THEN x
                              ELSE Down(x, name),
                          r, {name \in Entries(g.tree, buf) : domatch(name, c, g.noglobdots)}))

---------------------------------------------------------------------------
(* The order of the words; the comparison is reversed, and so are the words  *)
(* when each is put in front of those before it.                            *)

Rank(c) == IF c = "" THEN 0 ELSE IF c = " " THEN 1 ELSE CHOOSE i \in 2..20 : <<"!", "%", "*", "-", ".", "/", "0", "1", "2", "3", "[", "]", "^", "a", "b", "c">>[i - 1] = c
notstrcmp(options, a, b) ==
    LET Cmp(x, y) == Rank(x) - Rank(y)
        i == Min({k \in 1..Len(a) + 1 : Peek(a, k) # Peek(b, k) \/ k > Len(a)})
        cmp == Cmp(Peek(b, i), Peek(a, i))
        \* the numbers the first difference is in, without zeros
        start == Max({0} \union {k \in 1..i-1 : ~idigit(b[k])}) + 1
        Digs(s) == LET ds == DigitsAt(s, start) IN From(ds, Min({Len(ds) + 1} \union {k \in DOMAIN ds : ds[k] # "0"}))
        c == Digs(b)
        d == Digs(a)
    IN  IF /\ "NUMERICGLOBSORT" \in options /\ (idigit(Peek(a, i)) \/ idigit(Peek(b, i)))
           /\ idigit(Peek(a, start)) /\ idigit(Peek(b, start)) /\ c # d
        THEN IF Len(c) # Len(d) THEN Len(c) - Len(d)
             ELSE LET k == Min({k \in DOMAIN c : c[k] # d[k]}) IN Cmp(c[k], d[k])
        ELSE cmp

Sorted(options, found) == Reverse(SortSeq(found, LAMBDA a, b : notstrcmp(options, a, b) < 0))

---------------------------------------------------------------------------
(* glob(): the words that a word becomes; bad are the marks it leaves in     *)
(* badcshglob.                                                              *)

untokenize(w) == [i \in DOMAIN w |-> untok(w[i])]

\* Where the qualifiers of w begin, 0 when it has none: the last group, without alternatives.
Qualified(w) ==
    LET i == Max({1} \union {i \in 1..Len(w)-1 : w[i] \in {"Bar", "Outpar", "Inpar"} \/ (EXTENDEDGLOB /\ w[i] = "Tilde")})
    IN  IF Last(w) = "Outpar" /\ Len(w) > 1 /\ w[i] = "Inpar" THEN i ELSE 0

glob(tree, options, w) ==
    LET Words(ws, bad) == [words |-> ws, err |-> FALSE, bad |-> bad]
        Error == [words |-> <<>>, err |-> TRUE, bad |-> {}]
        Literal(e) == [words |-> <<untokenize(w)>>, err |-> e, bad |-> {}]
        h == haswilds(w)
        i == Qualified(w)
    IN  IF h = 0 THEN Literal(FALSE)
        ELSE IF Peek(w, h) = ":" /\ w[h - 1] = "Inpar"
        THEN Words(<<modify(untokenize(SubSeq(w, 1, h - 2)), untokenize(SubSeq(w, h, Len(w) - 1)))>>, {})
        ELSE Given(IF i = 0 THEN NoQualifiers(options) ELSE Qualifiers(SubSeq(w, i + 1, Len(w) - 1), 1, NoQualifiers(options)), LAMBDA r :
             Given(IF i = 0 THEN w ELSE SubSeq(w, 1, i - 1), LAMBDA str :
             Given(Peek(str, 1) = "/", LAMBDA absolute :
             Given(parsecomplist(IF absolute THEN Tail(str) ELSE str), LAMBDA p :
                 IF r.err THEN Error
                 ELSE IF p.q = <<>> \/ p.err THEN IF "BADPATTERN" \in options THEN Error ELSE Literal(p.err)
                 ELSE Given(scanner([tree |-> tree, q |-> p.q, alts |-> r.alts, colonmod |-> r.colonmod, markdirs |-> r.markdirs,
                                     listtypes |-> r.listtypes, noglobdots |-> r.noglobdots],
                                    1, IF absolute THEN <<"/">> ELSE <<>>, [found |-> <<>>, met |-> {}]).found, LAMBDA found :
                          IF found # <<>> THEN Words(Sorted(options, found), {2})
                          ELSE IF r.nullglob THEN Words(<<>>, {})
                          ELSE IF "CSHNULLGLOB" \in options THEN Words(<<>>, {1})
                          ELSE IF "NOMATCH" \in options THEN Error ELSE Literal(FALSE))))))

\* globlist(): the words of a command.
globlist(tree, options, ws) ==
    Given(FoldLeft(LAMBDA r, w : IF r.err THEN r
                                 ELSE Given(glob(tree, options, w), LAMBDA x :
                                     [words |-> r.words \o x.words, err |-> x.err, bad |-> r.bad \union x.bad]),
                   [words |-> <<>>, err |-> FALSE, bad |-> {}], ws), LAMBDA r :
        [words |-> r.words, err |-> r.err \/ r.bad = {1}])

---------------------------------------------------------------------------
(* What zshexpn(1) says of file names.                                      *)

\* The components of a pattern, with how often each is met: once, or from least on.
RECURSIVE Segments(_)
Segments(s) ==
    LET slash == Slash(s, 1)
        Seg(text, least, often) == <<[text |-> text, least |-> least, often |-> often]>>
    IN  IF slash <= Len(s) /\ \E n \in {2, 3} : slash = n + 1 /\ \A i \in 1..n : Peek(s, i) = "Star"
        THEN Seg(<<"Star">>, 0, TRUE) \o Segments(From(s, slash + 1))
        ELSE IF Peek(s, 1) = "Inpar" /\ Peek(s, slash + 1) = "Outpar" /\ Peek(s, slash + 2) = "Pound"
        THEN IF Peek(s, slash + 3) = "Pound" THEN Seg(SubSeq(s, 2, slash - 1), 1, TRUE) \o Segments(From(s, slash + 4))
             ELSE Seg(SubSeq(s, 2, slash - 1), 0, TRUE) \o Segments(From(s, slash + 3))
        ELSE Seg(SubSeq(s, 1, slash - 1), 1, FALSE) \o IF slash > Len(s) THEN <<>> ELSE Segments(From(s, slash + 1))

\* A dot at the beginning must be matched explicitly.
NameFits(text, name, dots) ==
    /\ name[1] = "." => dots \/ Peek(text, 1) = "."
    /\ <<1, Len(name) + 1>> \in Meaning(text, name).rel

\* The components, with those of the names that fit.
Fitting(segs, names, dots) == [i \in DOMAIN segs |-> [names |-> {n \in names : NameFits(segs[i].text, n, dots)}] @@ segs[i]]

RECURSIVE PathFits(_, _)
PathFits(segs, path) ==
    IF segs = <<>> \/ (Len(segs) = 1 /\ segs[1].text = <<>>) THEN path = <<>>
    ELSE \E n \in segs[1].least .. (IF segs[1].often THEN Len(path) ELSE 1) :
            /\ n <= Len(path)
            /\ \A i \in 1..n : path[i] \in segs[1].names
            /\ PathFits(Tail(segs), From(path, n + 1))

\* The pattern and the qualifiers of a word; the sublists of these.
PatternOf(w) == IF Qualified(w) = 0 THEN w ELSE SubSeq(w, 1, Qualified(w) - 1)
QualifiersOf(w) == IF Qualified(w) = 0 THEN <<>> ELSE SubSeq(w, Qualified(w) + 1, Len(w) - 1)
ListOf(quals, i) == Cardinality({k \in 1..i-1 : quals[k] = ","})
Negated(quals, i) == Cardinality({k \in 1..i-1 : quals[k] = "Hat" /\ ListOf(quals, k) = ListOf(quals, i)}) % 2 = 1
Tells == {"/", ".", "Star", "r", "w", "x", "R", "L"}
Set(quals, letter, default) ==
    LET at == {i \in DOMAIN quals : quals[i] = letter} IN IF at = {} THEN default ELSE ~Negated(quals, Max(at))

\* L[k][+-]n at i.
Kilo(quals, i) == Peek(quals, i + 1) = "k"
Sign(quals, i) == Peek(quals, IF Kilo(quals, i) THEN i + 2 ELSE i + 1)
Count(quals, i) == DigitsAt(quals, i + 1 + (IF Kilo(quals, i) THEN 1 ELSE 0) + (IF Sign(quals, i) \in {"+", "-"} THEN 1 ELSE 0))
SizeIs(f, quals, i) ==
    LET n == zstrtol(Count(quals, i)) * (IF Kilo(quals, i) THEN 1024 ELSE 1)
    IN  CASE Sign(quals, i) = "+" -> f.size > n
          [] Sign(quals, i) = "-" -> f.size <= n - (IF Kilo(quals, i) THEN 1024 ELSE 1)
          [] OTHER -> n - (IF Kilo(quals, i) THEN 1024 ELSE 1) < f.size /\ f.size <= n
Told(f, quals, i) ==
    CASE quals[i] = "/" -> f.type = "dir"
      [] quals[i] = "." -> f.type = "file"
      [] quals[i] = "Star" -> f.type = "file" /\ 6 \in f.bits
      [] quals[i] = "r" -> 8 \in f.bits [] quals[i] = "w" -> 7 \in f.bits
      [] quals[i] = "x" -> 6 \in f.bits [] quals[i] = "R" -> 2 \in f.bits
      [] quals[i] = "L" -> SizeIs(f, quals, i)

\* The whole list matches if one of the sublists does, all qualifiers of it.
Qualifies(f, quals) ==
    \E k \in 0..Cardinality({i \in DOMAIN quals : quals[i] = ","}) :
        \A i \in DOMAIN quals : quals[i] \in Tells /\ ListOf(quals, i) = k => Told(f, quals, i) # Negated(quals, i)
WellMade(quals) ==
    /\ \A i \in DOMAIN quals : quals[i] \in Tells \union {",", "Hat", "M", "T", "N", "D", "k", "+", "-", "1", "2", "0", "3"}
    /\ \A i \in DOMAIN quals : quals[i] = "L" => Count(quals, i) # <<>>

\* By the first difference, a number as a whole counting when that is asked for.
Before(options, a, b) ==
    LET i == Min({k \in 1..Len(a) + 1 : Peek(a, k) # Peek(b, k) \/ k > Len(a)})
        start == Max({0} \union {k \in 1..i-1 : ~idigit(a[k])}) + 1
        m == zstrtol(DigitsAt(a, start))
        n == zstrtol(DigitsAt(b, start))
    IN  IF /\ "NUMERICGLOBSORT" \in options /\ DigitsAt(a, start) # <<>> /\ DigitsAt(b, start) # <<>>
           /\ (idigit(Peek(a, i)) \/ idigit(Peek(b, i))) /\ m # n
        THEN m < n ELSE Rank(Peek(a, i)) < Rank(Peek(b, i))

\* Whether a word is a pattern, and the words that it stands for.
IsPattern(w) == \E i \in DOMAIN w : w[i] \in {"Star", "Pound", "Quest"}
Files(tree, options, w) ==
    Given(QualifiersOf(w), LAMBDA quals :
    Given(Fitting(Segments(PatternOf(w)), UNION {Range(p) : p \in DOMAIN tree}, Set(quals, "D", "GLOBDOTS" \in options)), LAMBDA segs :
        {p \in DOMAIN tree : /\ PathFits(segs, p)
                             /\ Last(segs).text = <<>> => tree[p].type = "dir"
                             /\ Qualifies(tree[p], quals)}))
WordOf(tree, options, w, p) ==
    LET path == FoldLeft(LAMBDA r, n : IF r = <<>> THEN n ELSE r \o <<"/">> \o n, <<>>, p)
        quals == QualifiersOf(w)
    IN  CASE Last(Segments(PatternOf(w))).text = <<>> -> IF p = <<>> THEN <<>> ELSE Append(path, "/")
          [] Set(quals, "T", FALSE) -> Append(path, file_type(tree[p]))
          [] ~Set(quals, "T", FALSE) /\ Set(quals, "M", "MARKDIRS" \in options) /\ tree[p].type = "dir" -> Append(path, "/")
          [] OTHER -> path
WordsOf(tree, options, w, files) ==
    SortSeq(FoldSet(LAMBDA p, r : Append(r, WordOf(tree, options, w, p)), <<>>, files),
            LAMBDA a, b : Before(options, a, b))

\* What the words of a command become.  The manual has it that CSH_NULL_GLOB overrides
\* NULL_GLOB: the code does it the other way.
Says(tree, options, ws) ==
    Given([k \in DOMAIN ws |-> Files(tree, options, ws[k])], LAMBDA files :
    LET patterns == {k \in DOMAIN ws : IsPattern(ws[k])}
        missing == {k \in patterns : files[k] = {} /\ ~Set(QualifiersOf(ws[k]), "N", "NULLGLOB" \in options)}
    IN  [err |-> \/ \E k \in patterns : ~WellMade(QualifiersOf(ws[k]))
                 \/ missing # {} /\ IF "CSHNULLGLOB" \in options THEN \A k \in patterns : files[k] = {} ELSE "NOMATCH" \in options,
         words |-> FlattenSeq([k \in DOMAIN ws |->
                      IF k \notin patterns \/ (k \in missing /\ "CSHNULLGLOB" \notin options) THEN <<untokenize(ws[k])>>
                      ELSE WordsOf(tree, options, ws[k], files[k])])])

\* Words that are not compared: at least once (##) behind a component that may be met in several ways;
\* sublists without a test; qualifiers behind a slash, where stat() is not told to be a
\* directory's; the current directory by its name; groups that are neither.
Peculiar(w) ==
    LET s == PatternOf(w)
        segs == Segments(s)
        quals == QualifiersOf(w)
    IN  \/ \E i, j \in DOMAIN segs : i < j /\ segs[j].often /\ segs[j].least = 1 /\ (IsPattern(segs[i].text) \/ segs[i].often)
        \/ \E i \in DOMAIN segs : segs[i].text = <<".">> \/ (segs[i].text = <<>> /\ i < Len(segs))
        \/ "," \in Range(quals) /\ \E k \in 0..Len(quals) : /\ k <= ListOf(quals, Len(quals) + 1)
                                                          /\ ~\E i \in DOMAIN quals : quals[i] \in Tells /\ ListOf(quals, i) = k
        \/ Last(segs).text = <<>> /\ quals # <<>>
        \/ \E i \in DOMAIN segs : Range(segs[i].text) \cap {"Inpar", "Outpar", "Pound", "Hat", ":"} # {}
Closures(w) == Cardinality({i \in DOMAIN Segments(PatternOf(w)) : Segments(PatternOf(w))[i].often})

=============================================================================
