------------------------------- MODULE Input -------------------------------
(***************************************************************************)
(* Characters on their way to the lexer (input.c, hist.c): the stack of     *)
(* input, history expansion, and the line that is kept for the history      *)
(* while it is read.                                                        *)
(*                                                                          *)
(* One record holds it all; c is the character an operation returns, "" the *)
(* end of the input.  Names in capitals are the names of the C source.      *)
(***************************************************************************)
EXTENDS Lib, SequencesExt, FiniteSetsExt, TLC

CONSTANTS
    Aliases,        \* what aliases stand for: [text, global] for a word
    Options         \* the options that are set

isset(o) == o \in Options
bangchar == "!"
hatchar == "^"
NL == "NL"          \* the newline
inblank(c) == c \in {" ", NL}
idigit(c) == c \in {"0", "1", "2", "3"}
DigitOf(c) == CHOOSE d \in 0..3 : ToString(d) = c
NULL == <<"NULL">>  \* no string

---------------------------------------------------------------------------
(* The input stack. *)

Blank == [buf |-> <<>>, ptr |-> 1, ct |-> 0, flags |-> {}, alias |-> NULL]

inputsetline(s, str, flags) ==
    [s EXCEPT !.inbuf = str, !.inptr = 1, !.inflags = flags,
              !.inct = IF "CONT" \in flags THEN @ + Len(str) ELSE Len(str)]

\* A level that is pushed for an expansion goes on in the one below.  The entry above
\* the highest one in use marks the end for inungetc().
inpush(s, str, flags, alias) ==
    LET expansion == flags \intersect {"ALIAS", "HIST"} # {}
        old == s.inflags \ {"ALCONT"}
        new == CASE expansion -> flags \union {"CONT", "ALIAS"}
                 [] ~expansion /\ "ALIAS" \in old /\ "CONT" \in flags -> flags \union {"ALIAS"}
                 [] OTHER -> flags
        entry == [buf |-> s.inbuf, ptr |-> s.inptr, ct |-> s.inct, alias |-> alias,
                  flags |-> IF expansion THEN old \union {"ALCONT"} ELSE old]
    IN  inputsetline([s EXCEPT !.instack = SubSeq(@, 1, s.top - 1) \o <<entry, Blank>>, !.top = @ + 1, !.inbufpush = 0,
                               !.inuse = @ \union ({alias} \ {NULL})], str, new)

\* Back to behind the last word (histbackword()).
histbackword(s) ==
    IF Len(s.chwords) % 2 = 0 /\ s.chwords # <<>> THEN [s EXCEPT !.chline = SubSeq(@, 1, Last(s.chwords))] ELSE s

inpoptop(s) ==
    LET e == s.instack[s.top - 1]
        below == [s EXCEPT !.top = @ - 1, !.inbuf = e.buf, !.inptr = e.ptr, !.inbufpush = e.ptr, !.inct = e.ct,
                           !.inflags = e.flags]
        done == [below EXCEPT !.inuse = @ \ {e.alias}]
    IN  CASE "ALCONT" \notin e.flags \/ e.alias = NULL -> below
          [] OTHER -> LET text == Aliases[e.alias].text
                      IN  IF text # <<>> /\ Last(text) = " " THEN histbackword([done EXCEPT !.inalmore = TRUE]) ELSE done

\* The next line that is typed; there may be none.
inputline(s) ==
    IF s.lines = <<>> THEN [s EXCEPT !.lexstop = TRUE]
    ELSE inputsetline([s EXCEPT !.lines = Tail(@), !.isfirstch = TRUE,
                                !.spaceflag = IF s.isfirstln THEN Head(s.lines)[1] = " " ELSE @], Head(s.lines), {})

\* ingetc()
RECURSIVE Read(_)
Read(s) ==
    CASE s.lexstop -> [s EXCEPT !.c = ""]
      [] ~s.lexstop /\ s.inptr <= Len(s.inbuf) -> [s EXCEPT !.c = s.inbuf[s.inptr], !.inptr = @ + 1, !.inct = @ - 1]
      [] OTHER ->
         CASE "CONT" \in s.inflags -> Read(inpoptop(s))
           [] "CONT" \notin s.inflags /\ (s.strin \/ s.errflag) -> [s EXCEPT !.lexstop = TRUE, !.c = ""]
           [] OTHER -> Read(inputline(s))

\* Back up over expansions that were pushed when nothing was left to read below them.
RECURSIVE Repush(_)
Repush(s) ==
    Given([s EXCEPT !.inuse = @ \union ({s.instack[s.top].alias} \ {NULL}), !.top = @ + 1], LAMBDA t :
        LET e == t.instack[t.top]
        IN  IF "ALCONT" \in e.flags /\ e.ptr > Len(e.buf) THEN Repush(t)
            ELSE [t EXCEPT !.inflags = {"CONT", "ALIAS"}, !.inbuf = <<>>, !.inptr = 1, !.inbufpush = 0])

\* inungetc()
Return(s, c) ==
    IF s.lexstop THEN s
    ELSE Given(CASE s.inptr > 1 -> [s EXCEPT !.inptr = @ - 1, !.inct = @ + 1]
                 [] s.inptr = 1 /\ "CONT" \in s.inflags -> inpush(s, <<c>>, {"CONT"}, NULL)
                 [] OTHER -> inpush(s, <<c>>, {"CONT"}, NULL), LAMBDA t :
         IF t.inptr = t.inbufpush /\ "ALCONT" \in t.inflags THEN Repush(t) ELSE t)

\* The record holds these four as functions (of Any state), so that TLC takes each of
\* them apart once and not again for every call.
ingetc(s) == s.ingetc[s]
inungetc(s, c) == s.inungetc[s, c]
hgetc(s) == s.hgetc[s]
hungetc(s, c) == s.hungetc[s, c]
safeinungetc(s, c) == IF s.lexstop THEN [s EXCEPT !.lexstop = FALSE] ELSE inungetc(s, c)

---------------------------------------------------------------------------
(* The line for the history, and its words. *)

\* A bang that is not to be expanded again gets a backslash.
hwaddc(s, c) ==
    IF s.errflag \/ s.lexstop THEN s
    ELSE [s EXCEPT !.chline = @ \o (IF c = bangchar /\ s.stophist < 2 /\ s.qbang THEN <<"\\", c>> ELSE <<c>>)]

RECURSIVE herrflush(_)
herrflush(s) ==
    IF s.lexstop \/ s.inct = 0 \/ s.strin THEN s ELSE Given(ingetc(s), LAMBDA t : herrflush(hwaddc(t, t.c)))

hwbegin(s, offset) ==
    LET even == IF Len(s.chwords) % 2 = 1 THEN Front(s.chwords) ELSE s.chwords
    IN  [s EXCEPT !.hwgetword = IF "ALIAS" \in s.inflags /\ "HIST" \notin s.inflags THEN Len(even) ELSE -1,
                  !.chwords = Append(even, Len(s.chline) + offset)]

\* The words of an alias are not kept: its name is.
hwend(s) ==
    IF Len(s.chwords) % 2 = 0 THEN s
    ELSE IF Len(s.chline) <= Last(s.chwords) THEN [s EXCEPT !.chwords = Front(@)]
    ELSE LET words == Append(s.chwords, Len(s.chline))
             n == s.hwgetword
         IN  IF n = -1 THEN [s EXCEPT !.chwords = words]
             ELSE [s EXCEPT !.chwords = SubSeq(words, 1, n), !.chline = SubSeq(@, 1, words[IF n > 0 THEN n ELSE 1])]

---------------------------------------------------------------------------
(* Events. *)

\* Events first..curhist - 1 are in the list; while a line is read curhist is that line.
quietgethist(s, ev) ==
    CASE ev \in DOMAIN s.hist -> s.hist[ev]
      [] ev = s.curhist -> [text |-> s.chline, words |-> SubSeq(s.chwords, 1, 2 * (Len(s.chwords) \div 2))]
      [] OTHER -> [text |-> NULL, words |-> <<>>]

Fail(s) == [s EXCEPT !.errflag = TRUE, !.bad = TRUE]
zerr(s) == Fail(herrflush(s))

nwords(e) == Len(e.words) \div 2
getargc(e) == IF nwords(e) = 0 THEN 0 ELSE nwords(e) - 1

StartsAt(t, w, i) == \A k \in DOMAIN w : Peek(t, i + k - 1) = w[k]
\* Where w is first in t, from place i on; 0 when it is not (strstr(3)).
strstr(t, w, i) ==
    Given({k \in i..Len(t) + 1 : StartsAt(t, w, k)}, LAMBDA at : IF at = {} THEN 0 ELSE Min(at))
Rindex(t, c) == SelectLastInSeq(t, LAMBDA x : x = c)

hcomsearch(s, w) ==
    Given({ev \in DOMAIN s.hist : StartsAt(s.hist[ev].text, w, 1)}, LAMBDA evs : IF evs = {} THEN -1 ELSE Max(evs))
hconsearch(s, w) ==
    Given({ev \in DOMAIN s.hist : strstr(s.hist[ev].text, w, 1) > 0}, LAMBDA evs : IF evs = {} THEN -1 ELSE Max(evs))
\* The word that holds place pos (from 0) of an event.
WordAt(e, pos) == Cardinality({k \in 1..nwords(e) : e.words[2 * k - 1] <= pos}) - 1

---------------------------------------------------------------------------
(* What is done to the words that were taken. *)

\* & stands for what was found, a backslash takes its meaning away (convamps()).
RECURSIVE convamps(_, _)
convamps(out, in) ==
    CASE out = <<>> -> <<>>
      [] Peek(out, 1) = "\\" -> IF Len(out) = 1 THEN <<>> ELSE <<out[2]>> \o convamps(From(out, 3), in)
      [] Peek(out, 1) = "&" -> in \o convamps(Tail(out), in)
      [] OTHER -> <<Head(out)>> \o convamps(Tail(out), in)

RECURSIVE SubstFrom(_, _, _, _, _)
SubstFrom(str, in, out, gbal, from) ==
    Given(strstr(str, in, from), LAMBDA i :
        IF i = 0 THEN str
        ELSE LET new == SubSeq(str, 1, i - 1) \o out \o From(str, i + Len(in))
             IN  IF gbal THEN SubstFrom(new, in, out, gbal, i + Len(out)) ELSE new)
subst(str, in, out, gbal) ==
    IF in = <<>> THEN SubstFrom(str, str, convamps(out, str), FALSE, 1)
    ELSE SubstFrom(str, in, convamps(out, in), gbal, 1)

remtpath(str) == LET i == Rindex(str, "/") IN IF i = 0 THEN NULL ELSE SubSeq(str, 1, IF i = 1 THEN 1 ELSE i - 1)
remtext(str) == LET i == Rindex(str, ".") IN IF i <= 1 THEN NULL ELSE SubSeq(str, 1, i - 1)
rembutext(str) == LET i == Rindex(str, ".") IN IF i <= 1 THEN NULL ELSE From(str, i + 1)
remlpaths(str) == LET i == Rindex(str, "/") IN IF i = 0 THEN NULL ELSE From(str, i + 1)
Upper(str) == [i \in DOMAIN str |-> CASE str[i] = "a" -> "A" [] str[i] = "b" -> "B" [] OTHER -> str[i]]
Lower(str) == [i \in DOMAIN str |-> CASE str[i] = "A" -> "a" [] str[i] = "B" -> "b" [] OTHER -> str[i]]
\* Each blank is put outside of the quotes, which makes it divide words.
quotebreak(str) ==
    <<"'">> \o FoldLeft(LAMBDA r, c : r \o (CASE c = "'" -> <<"'", "\\", "'", "'">> [] inblank(c) -> <<"'", c, "'">> [] OTHER -> <<c>>),
                        <<>>, str) \o <<"'">>

---------------------------------------------------------------------------
(* Reading a reference to the history. *)

\* What is read up to stop, a backslash quoting; the rest of the line is left.
RECURSIVE hdynread2(_, _, _)
hdynread2(s, stop, buf) ==
    Given(ingetc(s), LAMBDA t :
        CASE t.c = stop \/ t.lexstop -> [t EXCEPT !.buf = buf]
          [] t.c # stop /\ ~t.lexstop /\ t.c = NL -> [inungetc(t, NL) EXCEPT !.buf = buf]
          [] OTHER -> IF t.c = "\\" THEN Given(ingetc(t), LAMBDA u : hdynread2(u, stop, Append(buf, u.c)))
                      ELSE hdynread2(t, stop, Append(buf, t.c)))

getsubsargs(s) ==
    Given(ingetc(s), LAMBDA d :
    Given(hdynread2(d, d.c, <<>>), LAMBDA l :
    Given(hdynread2(l, d.c, <<>>), LAMBDA r :
    Given([r EXCEPT !.hsubl = IF l.buf # <<>> THEN l.buf ELSE @, !.hsubr = r.buf], LAMBDA t :
        IF t.hsubl # NULL /\ strstr(t.sline, t.hsubl, 1) = 0 THEN zerr(t) ELSE t))))

RECURSIVE NumberFrom(_, _)
NumberFrom(s, n) ==
    IF idigit(s.c) THEN Given(ingetc(s), LAMBDA t : NumberFrom(t, 10 * n + DigitOf(s.c)))
    ELSE [inungetc(s, s.c) EXCEPT !.arg = n]

\* One word of an event: arg is -1 when none is named.
getargspec(s, argc, evset) ==
    Given(ingetc(s), LAMBDA t :
        CASE t.c = "0" -> [t EXCEPT !.arg = 0]
          [] t.c # "0" /\ idigit(t.c) -> NumberFrom(t, 0)
          [] t.c = "^" -> [t EXCEPT !.arg = 1]
          [] t.c = "$" -> [t EXCEPT !.arg = argc]
          [] t.c = "%" -> IF evset \/ t.marg = -1 THEN zerr(t) ELSE [t EXCEPT !.arg = t.marg]
          [] OTHER -> [inungetc(t, t.c) EXCEPT !.arg = -1])

getargs(s, e, arg1, arg2) ==
    IF arg2 < arg1 \/ arg1 >= nwords(e) \/ arg2 >= nwords(e) THEN zerr(s)
    ELSE [s EXCEPT !.sline = SubSeq(e.text, e.words[2 * arg1 + 1] + 1, e.words[2 * arg2 + 2])]

\* Modifiers; c is the first character behind them in the end.
RECURSIVE Modifiers(_, _, _)
Result(s, brace, str) == IF str = NULL THEN zerr(s) ELSE Modifiers([s EXCEPT !.sline = str], FALSE, brace)
Substituted(s, brace, gbal) ==
    IF s.bad THEN s
    ELSE IF s.hsubl = NULL \/ s.hsubr = NULL THEN zerr(s)
    ELSE Modifiers([s EXCEPT !.sline = subst(@, s.hsubl, s.hsubr, gbal)], FALSE, brace)
Modifier(s, brace, gbal) ==
    CASE s.c = "p" -> Modifiers([s EXCEPT !.histdone = {"DONE", "NOEXEC"}], FALSE, brace)
      [] s.c = "h" -> Result(s, brace, remtpath(s.sline))
      [] s.c = "e" -> Result(s, brace, rembutext(s.sline))
      [] s.c = "r" -> Result(s, brace, remtext(s.sline))
      [] s.c = "t" -> Result(s, brace, remlpaths(s.sline))
      [] s.c = "s" -> Substituted(getsubsargs(s), brace, gbal)
      [] s.c = "&" -> Substituted(s, brace, gbal)
      [] s.c = "x" -> Result(s, brace, quotebreak(s.sline))
      [] s.c = "l" -> Result(s, brace, Lower(s.sline))
      [] s.c = "u" -> Result(s, brace, Upper(s.sline))
      [] OTHER -> zerr(s)
Modifiers(s, colon, brace) ==
    Given(IF colon THEN [s EXCEPT !.c = ":"] ELSE ingetc(s), LAMBDA t :
        CASE t.c = ":" -> Given(ingetc(t), LAMBDA u :
                IF u.c = "g" THEN Modifier(ingetc(u), brace, TRUE) ELSE Modifier(u, brace, FALSE))
          [] t.c # ":" /\ brace -> IF t.c = "}" THEN t ELSE Fail(inungetc(t, t.c))
          [] OTHER -> inungetc(t, t.c))

\* What was taken becomes input.  bare remembers that it has a bang that nothing protects, or begins as a
\* quick substitution: the line that is kept is not what will be read then.
Bare(str) == Peek(SelectSeq(str, LAMBDA c : c # " "), 1) = hatchar \/ \E i \in DOMAIN str : str[i] = bangchar /\ (i = 1 \/ str[i - 1] # "\\")
Insert(s) ==
    IF s.bad THEN s
    ELSE ingetc(inpush([s EXCEPT !.lexstop = FALSE,
                                 !.histdone = @ \union {"DONE"} \union (IF isset("HISTVERIFY") THEN {"NOEXEC", "RECALL"} ELSE {}),
                                 !.bare = @ \/ Bare(s.sline)],
                       s.sline, {"HIST"}, NULL))

\* The event is chosen: ev, whether it was named, and the character behind it.
RECURSIVE SearchText(_, _), EventName(_, _)
SearchText(s, buf) ==
    Given(ingetc(s), LAMBDA t :
        IF t.c \in {"?", NL} \/ t.lexstop THEN [t EXCEPT !.buf = buf] ELSE SearchText(t, Append(buf, t.c)))
EventName(s, buf) ==
    IF \/ inblank(s.c) \/ s.lexstop \/ s.c \in {";", ":", "^", "$", "*", "%", "}", "'", "DQ", "BQ"}
       \/ buf # <<>> /\ (s.c = "-" \/ ((idigit(buf[1]) \/ buf[1] = "-") /\ ~idigit(s.c)))
    THEN [s EXCEPT !.buf = buf]
    ELSE IF s.c \in {"#", bangchar} THEN [ingetc(s) EXCEPT !.buf = Append(buf, s.c)]
    ELSE Given(ingetc(s), LAMBDA t : EventName(t, Append(buf, s.c)))

RECURSIVE Atoi(_, _)
Atoi(w, n) == IF w # <<>> /\ idigit(w[1]) THEN Atoi(Tail(w), 10 * n + DigitOf(w[1])) ELSE n
atoi(w) == IF Peek(w, 1) = "-" THEN -Atoi(Tail(w), 0) ELSE Atoi(w, 0)

Event(s) ==
    IF s.c = "?"
    THEN Given(SearchText(s, <<>>), LAMBDA t :
         Given(IF t.c # NL /\ ~t.lexstop THEN ingetc(t) ELSE t, LAMBDA u :
         LET ev == hconsearch(u, t.buf)
             found == [u EXCEPT !.mev = ev, !.ev = ev, !.evset = FALSE, !.hsubl = t.buf]
         IN  IF ev = -1 THEN zerr(found)
             ELSE [found EXCEPT !.marg = WordAt(u.hist[ev], strstr(u.hist[ev].text, t.buf, 1) - 1)]))
    ELSE Given(EventName(s, <<>>), LAMBDA t :
         LET n == atoi(t.buf)
             At(ev) == [t EXCEPT !.ev = ev, !.evset = TRUE]
         IN  CASE t.buf = <<>> /\ t.c = "%" -> [t EXCEPT !.ev = IF t.marg # -1 THEN t.mev ELSE t.defev, !.evset = FALSE]
               [] t.buf = <<>> /\ t.c # "%" ->
                    [t EXCEPT !.ev = IF isset("CSHJUNKIEHISTORY") THEN t.curhist - 1 ELSE t.defev, !.evset = t.c # ":"]
               [] t.buf # <<>> /\ n # 0 -> At(IF n < 0 THEN t.curhist + n ELSE n)
               [] OTHER -> CASE t.buf[1] = bangchar -> At(t.curhist - 1)
                             [] t.buf[1] = "#" -> At(t.curhist)
                             [] OTHER -> IF hcomsearch(t, t.buf) = -1 THEN zerr(t) ELSE At(hcomsearch(t, t.buf)))

\* The words that are taken: of the event, or of the one that was searched for last (%).
Range1(s, e, farg, colon, brace) ==      \* farg is known
    LET first == IF farg = -1 THEN 0 ELSE farg
        bare == colon /\ farg = -1
        Upto(t, larg, c) == Given(getargs(t, e, first, larg), LAMBDA u : IF u.bad THEN u ELSE Modifiers(u, c, brace))
    IN  Given(ingetc(s), LAMBDA t :
        CASE t.c = "*" -> Upto(t, getargc(e), FALSE)
          [] t.c = "-" -> Given(getargspec(t, getargc(e), s.evset), LAMBDA u :
                IF u.bad THEN u ELSE Upto(u, IF u.arg = -1 THEN getargc(e) - 1 ELSE u.arg, FALSE))
          [] OTHER -> Upto(inungetc(t, t.c), IF farg = -1 THEN getargc(e) ELSE farg, bare))
Words(s, brace) ==
    LET colon == s.c = ":"
    IN  Given(IF colon THEN ingetc(s) ELSE s, LAMBDA t :
        LET again == colon /\ t.c = "%" /\ t.marg # -1
            e == quietgethist(t, IF again THEN t.mev ELSE t.ev)
        IN  CASE again /\ t.evset -> zerr(t)
              [] t.c = "*" -> Given(getargs(t, e, 1, getargc(e)), LAMBDA u : IF u.bad THEN u ELSE Modifiers(u, FALSE, brace))
              [] OTHER ->
                 Given(getargspec(inungetc(IF again THEN [t EXCEPT !.defev = t.mev] ELSE t, t.c), getargc(e), t.evset), LAMBDA u :
                     IF u.bad THEN u ELSE Range1(u, e, u.arg, colon, brace)))

\* Behind a bang.
Bang(s, brace) ==
    CASE s.c = "DQ" -> ingetc([s EXCEPT !.stophist = 1])
      [] (~brace /\ inblank(s.c)) \/ s.c \in {"=", "("} \/ s.lexstop -> [safeinungetc(s, s.c) EXCEPT !.c = bangchar]
      [] OTHER -> Given(Event(s), LAMBDA t :
            CASE t.bad -> t
              [] ~t.bad /\ quietgethist(t, t.ev).text = NULL -> zerr([t EXCEPT !.defev = t.ev])
              [] OTHER -> Insert(Words([t EXCEPT !.defev = t.ev], brace)))

\* ^this^that at the beginning of a line.
Quick(s) ==
    LET e == quietgethist(s, s.defev)
    IN  IF e.text = NULL THEN zerr(s)
        ELSE Given(getargs(s, e, 0, getargc(e)), LAMBDA t :
             IF t.bad THEN t
             ELSE Given(getsubsargs(t), LAMBDA u :
                  IF u.bad \/ u.hsubl = NULL THEN [u EXCEPT !.bad = TRUE]
                  ELSE Insert(Modifiers([u EXCEPT !.sline = subst(@, u.hsubl, u.hsubr, FALSE)], FALSE, FALSE))))

histsubchar(s) ==
    LET later == [s EXCEPT !.isfirstch = @ /\ s.c = " "]
    IN  CASE s.isfirstch /\ s.c = hatchar -> Quick(inungetc([s EXCEPT !.isfirstch = FALSE], hatchar))
          [] s.c = "\\" -> Given(ingetc(later), LAMBDA g :
                IF g.c = bangchar /\ ~g.lexstop THEN [g EXCEPT !.qbang = TRUE] ELSE [safeinungetc(g, g.c) EXCEPT !.c = "\\"])
          [] s.c = bangchar -> Given(ingetc(later), LAMBDA t : IF t.c = "{" THEN Bang(ingetc(t), TRUE) ELSE Bang(t, FALSE))
          [] OTHER -> later

\* The next character for the lexer.
NextChar(s) ==
    Given(ingetc([s EXCEPT !.qbang = FALSE]), LAMBDA in :
    Given(IF in.stophist = 0 /\ "ALIAS" \notin in.inflags THEN histsubchar(in) ELSE in, LAMBDA t :
        CASE t.bad -> [t EXCEPT !.bad = FALSE, !.errflag = TRUE, !.lexstop = TRUE, !.c = ""]
          [] ~t.bad /\ "HIST" \in t.inflags /\ t.stophist = 0 ->
                IF t.c # "\\" THEN hwaddc([t EXCEPT !.qbang = FALSE], t.c)
                ELSE Given(ingetc(t), LAMBDA u :
                     IF u.c = bangchar THEN hwaddc([u EXCEPT !.qbang = TRUE], u.c)
                     ELSE Given([safeinungetc(u, u.c) EXCEPT !.qbang = FALSE, !.c = "\\"], LAMBDA v : hwaddc(v, v.c)))
          [] ~t.bad /\ ("HIST" \notin t.inflags \/ t.stophist # 0) /\ (t.stophist # 0 \/ "ALIAS" \in t.inflags) ->
                hwaddc([t EXCEPT !.qbang = t.c = bangchar /\ t.stophist < 2], t.c)
          [] OTHER -> hwaddc(t, t.c)))

\* Takes back a character of hgetc(), and the backslash that a bang got.  wrong remembers
\* that it was another one than the last of the line.
RECURSIVE Unget(_, _, _), Unget_KeepsBackslash(_, _, _)
Unget_KeepsBackslash(s0, c, doit) ==
    IF s0.lexstop THEN s0
    ELSE IF s0.chline = <<>> THEN [s0 EXCEPT !.wrong = TRUE]
    ELSE Given([s0 EXCEPT !.chline = Front(@), !.wrong = @ \/ Last(s0.chline) # c, !.qbang = FALSE], LAMBDA t : inungetc(t, c))
Unget(s0, c, doit) ==
    IF s0.lexstop THEN s0
    ELSE Given(IF /\ Len(s0.chline) > 1 /\ Last(s0.chline) # c /\ s0.stophist < 4
                  /\ Last(s0.chline) = NL /\ s0.chline[Len(s0.chline) - 1] = "\\"
               THEN hungetc(hungetc(s0, NL), "\\") ELSE s0, LAMBDA s :
         IF s.chline = <<>> THEN [s EXCEPT !.wrong = TRUE]
         ELSE LET line == Front(s.chline)
                  q == c = bangchar /\ s.stophist < 2 /\ Peek(line, Len(line)) = "\\"
              IN  Given([s EXCEPT !.chline = line, !.wrong = @ \/ Last(s.chline) # c, !.qbang = q], LAMBDA t :
                  Given(IF doit THEN inungetc(t, c) ELSE t, LAMBDA u :
                      IF ~q THEN u
                      ELSE Unget(u, "\\", u.stophist = 0 /\ ("HIST" \in u.inflags \/ "ALIAS" \notin u.inflags)))))

---------------------------------------------------------------------------
(* A line. *)

hbegin(hist, lines) ==
    [inbuf |-> <<>>, inptr |-> 1, inflags |-> {}, inct |-> 0, inbufpush |-> 0, instack |-> <<>>, top |-> 1, lines |-> lines,
     inuse |-> {}, inalmore |-> FALSE, lexstop |-> FALSE, errflag |-> FALSE, bad |-> FALSE, wrong |-> FALSE, c |-> "",
     isfirstln |-> TRUE, isfirstch |-> TRUE, spaceflag |-> FALSE, stophist |-> 0, histdone |-> {}, qbang |-> FALSE,
     chline |-> <<>>, chwords |-> <<>>, hwgetword |-> -1, hist |-> hist, curhist |-> Cardinality(DOMAIN hist) + 1,
     defev |-> Cardinality(DOMAIN hist), mev |-> -1, marg |-> -1, ev |-> -1, evset |-> FALSE, arg |-> -1,
     hsubl |-> NULL, hsubr |-> NULL, buf |-> <<>>, sline |-> <<>>,
     tok |-> "ENDINPUT", tokstr |-> <<>>, hasstr |-> FALSE, err |-> "", go |-> "", w |-> <<>>,
     incmdpos |-> TRUE, incond |-> FALSE, inredir |-> FALSE, oldpos |-> FALSE, tokfd |-> -1, isnewlin |-> 0, nostore |-> FALSE,
     strin |-> FALSE, past |-> FALSE, bare |-> FALSE,
     ingetc |-> [s \in Any |-> Read(s)], inungetc |-> [s \in Any, c \in Any |-> Return(s, c)],
     hgetc |-> [s \in Any |-> NextChar(s)], hungetc |-> [s \in Any, c \in Any |-> Unget(s, c, TRUE)]]

\* The entry that hend() makes of the line.
hend(s) ==
    LET text == IF s.chline # <<>> /\ Last(s.chline) = NL /\ Len(s.chline) > 1 THEN Front(s.chline) ELSE s.chline
        n == Len(s.chwords)
        words == IF n > 1 /\ s.chwords[n - 1] >= Len(text) THEN SubSeq(s.chwords, 1, n - 2) ELSE s.chwords
        saved == ~(text = <<>> \/ text = <<NL>> \/ (isset("HISTIGNORESPACE") /\ s.spaceflag) \/ "RECALL" \in s.histdone \/ s.nostore)
    IN  [save |-> saved, text |-> text, words |-> words]
============================================================================
