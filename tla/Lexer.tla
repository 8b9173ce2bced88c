------------------------------- MODULE Lexer -------------------------------
(***************************************************************************)
(* Characters become tokens and words (lex.c).  The characters of a word    *)
(* that mean something are marked: they get the names zsh.h gives them.     *)
(* Not here: what the lexer tells the line editor and the prompt, and       *)
(* here-documents.                                                          *)
(***************************************************************************)
EXTENDS Input

SQ == "'"

\* The character that each mark stands for (ztokens).
ztokens ==
    "Pound" :> "#" @@ "String" :> "$" @@ "Hat" :> "^" @@ "Star" :> "*" @@ "Inpar" :> "(" @@ "Outpar" :> ")" @@ "Qstring" :> "$"
    @@ "Equals" :> "=" @@ "Bar" :> "|" @@ "Inbrace" :> "{" @@ "Outbrace" :> "}" @@ "Inbrack" :> "[" @@ "Outbrack" :> "]"
    @@ "Tick" :> "BQ" @@ "Inang" :> "<" @@ "Outang" :> ">" @@ "Quest" :> "?" @@ "Tilde" :> "~" @@ "Qtick" :> "BQ"
    @@ "Comma" :> "," @@ "Snull" :> SQ @@ "Dnull" :> "DQ" @@ "Bnull" :> "\\"
itok(c) == c \in DOMAIN ztokens
Char(c) == IF itok(c) THEN ztokens[c] ELSE c
untokenize(w) == FoldLeft(LAMBDA r, c : Append(r, Char(c)), <<>>, w)
lextok2 ==
    "*" :> "Star" @@ "?" :> "Quest" @@ "{" :> "Inbrace" @@ "[" :> "Inbrack" @@ "$" :> "String" @@ "~" :> "Tilde"
    @@ "#" :> "Pound" @@ "^" :> "Hat"
Mark(c) == IF c \in DOMAIN lextok2 THEN lextok2[c] ELSE c
iident(c) == idigit(c) \/ c \in {"a", "b", "A", "B", "_"}

\* A word may get what is read at the end of the input, a blank; past remembers it.
add(s, c) == IF c = "" THEN [s EXCEPT !.tokstr = Append(@, " "), !.past = TRUE] ELSE [s EXCEPT !.tokstr = Append(@, c)]
Drop(s, n) == [s EXCEPT !.tokstr = SubSeq(@, 1, Len(@) - n)]
STOPHIST(s) == [s EXCEPT !.stophist = @ + 4]
ALLOWHIST(s) == [s EXCEPT !.stophist = @ - 4]
Back(s, c) == [hungetc(s, c) EXCEPT !.lexstop = FALSE]      \* hungetc(c), lexstop = 0

---------------------------------------------------------------------------
(* Parentheses of a command substitution, up to the one that closes it. *)

\* Add c and what follows up to the character stop, which is left in c.  quoting: a
\* backslash takes the next character along.
RECURSIVE Through(_, _, _)
Through(s, stop, quoting) ==
    Given(hgetc(s), LAMBDA t :
        IF t.c = stop \/ t.lexstop THEN t
        ELSE IF quoting /\ t.c = "\\" THEN Given(hgetc(add(t, t.c)), LAMBDA u : Through(add(u, u.c), stop, TRUE))
             ELSE Through(add(t, t.c), stop, quoting))

\* c is the character to add next; the last one is not added.
RECURSIVE Skipcomm(_, _)
Skipcomm(s, pct) ==
    Given(hgetc(add(s, s.c)), LAMBDA t :
        LET More(u, n) == IF n = 0 THEN u ELSE Skipcomm(u, n)
        IN  CASE t.lexstop -> t
              [] ~t.lexstop /\ t.c = "(" -> More(t, pct + 1)
              [] t.c = ")" -> More(t, pct - 1)
              [] t.c = "\\" -> More(hgetc(add(t, t.c)), pct)
              [] t.c = SQ -> More(ALLOWHIST(Through(STOPHIST(add(t, t.c)), SQ, FALSE)), pct)
              [] t.c \in {"DQ", "BQ"} -> More(Through(add(t, t.c), t.c, TRUE), pct)
              [] OTHER -> More(t, pct))
\* err is "" when all went well.
skipcomm(s) == Given(Skipcomm([s EXCEPT !.c = "Inpar"], 1), LAMBDA t : [t EXCEPT !.err = IF t.lexstop THEN "1" ELSE ""])

---------------------------------------------------------------------------
(* Text in double quotes, or an arithmetic expression. *)

dquote_parse(s, endchar, sub) == s.dquote_parse[s, endchar, sub]        \* see ingetc()

\* What cmd_or_math() reads again because it is no arithmetic: newest first.
RECURSIVE ReadAgain(_, _)
ReadAgain(s, n) ==
    IF Len(s.tokstr) <= n THEN hungetc(s, "(") ELSE ReadAgain(Drop(hungetc(s, Char(Last(s.tokstr))), 1), n)
\* go is "math" when it was arithmetic.
cmd_or_math(s) ==
    Given(dquote_parse(s, ")", FALSE), LAMBDA t :
        LET Comm(u, c) == [ReadAgain(Back(u, c), Len(s.tokstr)) EXCEPT !.go = "comm", !.err = ""]
        IN  IF t.err # "" THEN Comm(t, t.err)
            ELSE Given(hgetc(t), LAMBDA u : IF u.c = ")" /\ ~u.lexstop THEN [u EXCEPT !.go = "math"] ELSE Comm(Back(u, u.c), ")")))

cmd_or_math_sub(s) ==
    Given(hgetc(s), LAMBDA t :
        IF t.c # "(" \/ t.lexstop THEN skipcomm(Back(t, t.c))
        ELSE Given(cmd_or_math(add(add(t, "Inpar"), "(")), LAMBDA u :
             IF u.go = "math" THEN [add(u, ")") EXCEPT !.err = ""] ELSE skipcomm(Drop(u, 2))))
\* At the end, or at an error (err).
EndQuoted(s, q, intick, err) ==
    [(IF intick = 2 THEN ALLOWHIST(s) ELSE s) EXCEPT
        !.err = IF s.lexstop THEN IF intick > 0 \/ q.end # "" \/ err # "" THEN "1" ELSE ""
                ELSE IF err = "1" THEN s.c ELSE err]
RECURSIVE Quoted(_, _, _, _), QuotedChar(_, _, _, _)
Quoted(s, q, open, intick) ==
    Given(hgetc(s), LAMBDA t :
        IF t.lexstop \/ (t.c = q.end /\ open.bct = 0 /\ intick = 0 /\ ~(q.math /\ (open.pct > 0 \/ open.brct > 0)))
        THEN EndQuoted(t, q, intick, "")
        ELSE QuotedChar(t, q, open, intick))
QuotedChar(s, q, open, intick) ==
    LET Go(t, c, o, tick, err) ==
            IF err # "" \/ t.lexstop THEN EndQuoted([t EXCEPT !.c = c], q, tick, err) ELSE Quoted(add(t, c), q, o, tick)
        Plain(t, c) == Go(t, c, open, intick, "")
        Closing(n) == IF n = 0 /\ q.math THEN "1" ELSE ""
    IN  CASE s.c = "\\" ->
               Given(hgetc(s), LAMBDA t :
                   CASE t.c = NL -> IF q.sub \/ ~isset("CSHJUNKIEQUOTES") \/ q.end # "DQ"
                                    THEN Quoted(t, q, open, intick) ELSE Plain(t, NL)
                     [] t.c # NL /\ (t.c \in {"$", "\\", q.end, "BQ"} \/ (t.c = "}" /\ intick = 0 /\ open.bct > 0)) /\ ~t.lexstop ->
                          Plain(add(t, "Bnull"), t.c)
                     [] OTHER -> QuotedChar(add(t, "\\"), q, open, intick))
          [] s.c = NL -> Go(s, NL, open, intick, IF ~q.sub /\ isset("CSHJUNKIEQUOTES") /\ q.end = "DQ" THEN "1" ELSE "")
          [] s.c = "$" /\ intick = 0 ->
               Given(hgetc(s), LAMBDA t :
                   CASE t.c = "(" -> Given(cmd_or_math_sub(add(t, "Qstring")), LAMBDA u : Go(u, "Outpar", open, intick, u.err))
                     [] t.c = "[" -> Given(dquote_parse(add(add(t, "String"), "Inbrack"), "]", q.sub), LAMBDA u :
                                        Go(u, "Outbrack", open, intick, u.err))
                     [] t.c = "{" -> Go(add(t, "Qstring"), "Inbrace", [open EXCEPT !.bct = @ + 1], intick, "")
                     [] t.c = "$" -> Plain(add(t, "Qstring"), "$")
                     [] OTHER -> Plain(Back(t, t.c), "Qstring"))
          [] s.c = "}" /\ intick = 0 /\ open.bct > 0 -> Go(s, "Outbrace", [open EXCEPT !.bct = @ - 1], intick, "")
          [] s.c = "BQ" -> Go(IF intick = 2 THEN ALLOWHIST(s) ELSE s, "Qtick", open, IF intick = 0 THEN 1 ELSE 0, "")
          [] s.c = SQ /\ intick = 1 -> Go(STOPHIST(s), SQ, open, 2, "")
          [] s.c = SQ /\ intick = 2 -> Go(ALLOWHIST(s), SQ, open, 1, "")
          [] s.c = "(" -> Go(s, "(", [open EXCEPT !.pct = @ + 1], intick, "")
          [] s.c = ")" -> Go(s, ")", [open EXCEPT !.pct = @ - 1], intick, Closing(open.pct))
          [] s.c = "[" -> Go(s, "[", [open EXCEPT !.brct = @ + 1], intick, "")
          [] s.c = "]" -> Go(s, "]", [open EXCEPT !.brct = @ - 1], intick, Closing(open.brct))
          [] s.c = "DQ" /\ intick = 0 /\ (q.end # "" \/ open.bct > 0) ->
               IF open.bct = 0 THEN Go(s, "DQ", open, intick, "1")
               ELSE Given(dquote_parse(add(s, "Dnull"), "DQ", q.sub), LAMBDA u : Go(u, "Dnull", open, intick, u.err))
          [] OTHER -> Plain(s, s.c)

\* q: end, the character that ends it ("" at the end of a string), sub, whether this is inside a
\* substitution, and the open parentheses, brackets, braces and backquotes.
InQuotes(s, endchar, sub) ==
    Quoted(s, [end |-> endchar, sub |-> sub, math |-> endchar \in {")", "]"}], [pct |-> 0, brct |-> 0, bct |-> 0], 0)

---------------------------------------------------------------------------
(* A word. *)

\* What gettokstr() knows of the word so far: open braces, parentheses and brackets, the brace
\* of a parameter it is in (0: none), fdpar, how far the beginning is (intpos), the kind of token.
NewWord == [bct |-> 0, pct |-> 0, brct |-> 0, brace |-> 0, fdpar |-> FALSE, intpos |-> 1, peek |-> "STRING"]

\* name=, name[...]= or digits=, where an assignment may be.
RECURSIVE SkipWhile(_, _, _)
SkipWhile(w, i, digits) ==
    IF i \in DOMAIN w /\ (IF digits THEN idigit(w[i]) ELSE iident(w[i])) THEN SkipWhile(w, i + 1, digits) ELSE i
RECURSIVE PastBrackets(_, _, _)
PastBrackets(w, i, level) ==
    CASE i \notin DOMAIN w -> i
      [] i \in DOMAIN w /\ w[i] = "Inbrack" -> PastBrackets(w, i + 1, level + 1)
      [] i \in DOMAIN w /\ w[i] = "Outbrack" -> IF level = 1 THEN i + 1 ELSE PastBrackets(w, i + 1, level - 1)
      [] OTHER -> IF level = 0 THEN i ELSE PastBrackets(w, i + 1, level)
IsName(w) ==
    IF idigit(Peek(w, 1)) THEN SkipWhile(w, 1, TRUE) > Len(w) ELSE PastBrackets(w, SkipWhile(w, 1, FALSE), 0) > Len(w)

\* The end of a word at s.c, which is not part of it.  A brace that closes nothing is a word
\* of its own.
EndWord(s, sub, l, unmatched) ==
    LET t == hungetc(s, s.c)
        n == Len(t.tokstr)
        u == IF unmatched \/ l.brace > 0 THEN [t EXCEPT !.errflag = TRUE] ELSE t
    IN  [(IF /\ l.brace = 0 /\ ~isset("IGNOREBRACES") /\ ~sub /\ n > 1 /\ l.peek = "STRING"
             /\ u.tokstr[n] = "}" /\ u.tokstr[n - 1] # "Bnull"
          THEN hungetc([Drop(u, 1) EXCEPT !.lexstop = FALSE], "}") ELSE u) EXCEPT !.tok = l.peek]
Whole(s, tok) == [s EXCEPT !.tok = tok]

\* Between single quotes, behind the first; '' is a quote in it, with RC_QUOTES.
RECURSIVE SingleQuoted(_, _), UpToQuote(_, _)
UpToQuote(s, sub) ==
    Given(hgetc(s), LAMBDA t :
        CASE t.c = SQ \/ t.lexstop -> t
          [] t.c # SQ /\ ~t.lexstop /\ t.c = NL /\ ~sub /\ isset("CSHJUNKIEQUOTES") ->
                IF Last(t.tokstr) = "\\" THEN UpToQuote(add(Drop(t, 1), NL), sub) ELSE t
          [] OTHER -> UpToQuote(add(t, t.c), sub))
SingleQuoted(s, sub) ==
    Given(ALLOWHIST(UpToQuote(STOPHIST(s), sub)), LAMBDA t :
        IF t.c # SQ \/ t.lexstop THEN [t EXCEPT !.go = "unmatched"]
        ELSE Given(hgetc(t), LAMBDA e :
             IF e.c # SQ \/ e.lexstop \/ ~isset("RCQUOTES") THEN [Back(e, e.c) EXCEPT !.go = ""]
             ELSE SingleQuoted(add(e, e.c), sub)))

\* A command substitution in the old form, behind the first backquote.
RECURSIVE Backquoted(_, _, _)
Backquoted(s, sub, inquote) ==
    LET End(t) == [(IF inquote THEN ALLOWHIST(t) ELSE t) EXCEPT !.go = IF t.c = "BQ" /\ ~t.lexstop THEN "" ELSE "unmatched"]
    IN  Given(hgetc(s), LAMBDA t :
        CASE t.c = "BQ" \/ t.lexstop -> End(t)
          [] t.c = "\\" -> Given(hgetc(t), LAMBDA u :
                CASE u.c # NL -> Backquoted(add(add(u, IF u.c \in {"BQ", "\\", "$"} THEN "Bnull" ELSE "\\"), u.c), sub, inquote)
                  [] OTHER -> Backquoted(IF ~sub /\ isset("CSHJUNKIEQUOTES") THEN add(u, NL) ELSE u, sub, inquote))
          [] t.c = NL /\ ~sub /\ isset("CSHJUNKIEQUOTES") -> End(t)
          [] t.c = SQ -> Backquoted(IF inquote THEN ALLOWHIST(add(t, SQ)) ELSE STOPHIST(add(t, SQ)), sub, ~inquote)
          [] OTHER -> Backquoted(add(t, t.c), sub, inquote))

RECURSIVE UpToOutang(_)
UpToOutang(s) == IF s.c = ">" \/ s.lexstop THEN s ELSE UpToOutang(hgetc(add(s, s.c)))

RECURSIVE gettokstr(_, _, _)
Brk(s, sub, l) == EndWord(s, sub, l, FALSE)
Error(s, sub, l) == EndWord([s EXCEPT !.c = s.err], sub, [l EXCEPT !.peek = "LEXERR"], FALSE)
Unmatched(s, sub, l) == EndWord(s, sub, [l EXCEPT !.peek = "LEXERR"], TRUE)
\* add(ch), and on to the next character.
Add(s, sub, ch, l) ==
    Given(hgetc(add(s, ch)), LAMBDA u :
    Given([l EXCEPT !.intpos = IF @ > 0 THEN @ - 1 ELSE 0], LAMBDA n :
        IF u.lexstop THEN Brk(u, sub, n) ELSE gettokstr(u, sub, n)))
Comm(s, sub, l) == IF s.err # "" THEN Error(s, sub, l) ELSE Add(s, sub, "Outpar", l)

\* Braces, redirections, assignments and quotes in a word.
BraceOrQuote(s, sub, l) ==
    LET c == Mark(s.c)
        inparam == l.brace > 0
    IN  CASE s.c = "{" ->
               CASE isset("IGNOREBRACES") \/ sub -> Add(s, sub, "{", l)
                 [] ~(isset("IGNOREBRACES") \/ sub) /\ s.tokstr = <<>> /\ s.incmdpos -> Whole(add(s, "{"), "STRING")
                 [] OTHER -> Add(s, sub, c, [l EXCEPT !.bct = @ + 1])
          [] s.c = "}" ->
               IF ((isset("IGNOREBRACES") \/ sub) /\ ~inparam) \/ l.bct = 0 THEN Add(s, sub, c, l)
               ELSE Add(s, sub, "Outbrace", [l EXCEPT !.bct = @ - 1, !.brace = IF l.bct = l.brace THEN 0 ELSE @])
          [] s.c = "," -> Add(s, sub, IF ~isset("IGNOREBRACES") /\ ~sub /\ l.bct > l.brace THEN "Comma" ELSE c, l)
          [] s.c = ">" ->
               IF l.intpos = 0 THEN IF inparam \/ sub THEN Add(s, sub, c, l) ELSE Brk(s, sub, l)
               ELSE Given(hgetc(s), LAMBDA e :
                    IF e.c # "(" THEN Brk([Back(e, e.c) EXCEPT !.c = ">"], sub, l) ELSE Comm(skipcomm(add(e, "Outang")), sub, l))
          [] s.c = "<" ->
               IF isset("SHGLOB") /\ sub THEN Add(s, sub, c, l)
               ELSE Given(hgetc(s), LAMBDA e :
                    CASE e.c = "(" /\ l.intpos > 0 -> Comm(skipcomm(add(e, "Inang")), sub, l)
                      [] idigit(e.c) \/ e.c = "-" -> Add(UpToOutang(add(e, "Inang")), sub, "Outang", l)
                      [] OTHER -> Given([Back(e, e.c) EXCEPT !.c = "<"], LAMBDA t : IF inparam \/ sub THEN Add(t, sub, c, l) ELSE Brk(t, sub, l)))
          [] s.c = "=" ->
               CASE l.intpos > 0 ->
                      Given(hgetc(s), LAMBDA e :
                          IF e.c # "(" THEN Add(Back(e, e.c), sub, "Equals", l) ELSE Comm(skipcomm(add(e, "Equals")), sub, l))
                 [] l.intpos = 0 /\ ~sub /\ l.peek # "ENVSTRING" /\ s.incmdpos /\ l.bct = 0 /\ l.brct = 0 /\ IsName(s.tokstr) ->
                      Given(hgetc(s), LAMBDA e :
                          IF e.c = "(" THEN Whole(e, "ENVARRAY")
                          ELSE Add(Back(e, e.c), sub, "=", [l EXCEPT !.peek = "ENVSTRING", !.intpos = 2]))
                 [] OTHER -> Add(s, sub, "Equals", l)
          [] s.c = "\\" ->
               Given(hgetc(s), LAMBDA t :
                   IF t.c = NL THEN Given(hgetc(t), LAMBDA u : IF u.lexstop THEN Brk(u, sub, l) ELSE gettokstr(u, sub, l))
                   ELSE Given(add(t, "Bnull"), LAMBDA u : IF u.lexstop THEN Brk(u, sub, l) ELSE Add(u, sub, u.c, l)))
          [] s.c = SQ -> Given(SingleQuoted(add(s, "Snull"), sub), LAMBDA t : IF t.go = "unmatched" THEN Unmatched(t, sub, l) ELSE Add(t, sub, "Snull", l))
          [] s.c = "DQ" -> Given(dquote_parse(add(s, "Dnull"), "DQ", sub), LAMBDA t : 
                          IF t.err # "" THEN Unmatched([t EXCEPT !.c = t.err], sub, l) ELSE Add(t, sub, "Dnull", l))
          [] s.c = "BQ" -> Given(Backquoted(add(s, "Tick"), sub, FALSE), LAMBDA t : IF t.go = "unmatched" THEN Unmatched(t, sub, l) ELSE Add(t, sub, "Tick", l))
          [] OTHER -> Add(s, sub, c, l)

gettokstr(s, sub, l0) ==
    LET inbl == inblank(s.c)
        c == Mark(s.c)
        l == [l0 EXCEPT !.fdpar = @ /\ (inbl \/ s.c = ")")]
        inparam == l.brace > 0
    IN  CASE (inbl /\ ~inparam /\ l.pct = 0) \/ s.c \in {";", "&"} ->
               IF inparam \/ sub THEN Add(s, sub, c, l) ELSE Brk(s, sub, l)
          [] s.c = ")" ->
               CASE l.fdpar -> Whole(add(s, c), "INOUTPAR")
                 [] ~l.fdpar /\ (sub \/ inparam) /\ isset("SHGLOB") -> Add(s, sub, c, l)
                 [] ~l.fdpar /\ ~((sub \/ inparam) /\ isset("SHGLOB")) /\ ~inparam /\ l.pct = 0 -> IF sub THEN Add(s, sub, c, l) ELSE Brk(s, sub, l)
                 [] OTHER -> Add(s, sub, "Outpar", IF inparam THEN l ELSE [l EXCEPT !.pct = @ - 1])
          [] s.c = "|" ->
               IF l.pct = 0 /\ ~inparam THEN IF sub THEN Add(s, sub, c, l) ELSE Brk(s, sub, l)
               ELSE Add(s, sub, IF ~isset("SHGLOB") \/ (~sub /\ ~inparam) THEN "Bar" ELSE c, l)
          [] s.c = "$" ->
               Given(hgetc(s), LAMBDA e :
                   CASE e.c = "[" -> Given(dquote_parse(add(add(e, "String"), "Inbrack"), "]", sub), LAMBDA t :
                                        IF t.err # "" THEN Error(t, sub, l) ELSE Add(t, sub, "Outbrack", l))
                     [] e.c = "(" -> Comm(cmd_or_math_sub(add(e, "String")), sub, l)
                     [] e.c = "{" -> Add(add(e, c), sub, "Inbrace", [l EXCEPT !.bct = @ + 1, !.brace = IF inparam THEN @ ELSE l.bct + 1])
                     [] OTHER -> Add(Back(e, e.c), sub, c, l))
          [] s.c = "[" ->
               Given(hgetc(add(s, c)), LAMBDA t :
               Given(IF t.c \in {"!", "^"} THEN hgetc(add(t, t.c)) ELSE t, LAMBDA u :
               Given([l EXCEPT !.brct = IF inparam THEN @ ELSE @ + 1], LAMBDA m :
                   CASE u.c = "]" -> Add(u, sub, "]", m)
                     [] u.lexstop -> Brk(u, sub, m)
                     [] OTHER -> gettokstr(u, sub, [m EXCEPT !.intpos = 0]))))
          [] s.c = "]" ->
               IF ~inparam /\ l.brct <= 0 THEN Add(s, sub, c, [l EXCEPT !.brct = 0])
               ELSE Add(s, sub, "Outbrack", IF inparam THEN l ELSE [l EXCEPT !.brct = @ - 1])
          [] s.c = "(" ->
               CASE (sub \/ inparam) /\ isset("SHGLOB") -> Add(s, sub, c, l)
                 [] ~((sub \/ inparam) /\ isset("SHGLOB")) /\ inparam -> Add(s, sub, "Inpar", l)
                 [] OTHER ->
                    LET fd == l.pct = 0 /\ isset("SHGLOB") /\ l.intpos > 0 /\ l.bct = 0 /\ l.brct = 0
                        In(t) == Add(t, sub, "Inpar", [l EXCEPT !.pct = @ + 1, !.fdpar = @ \/ fd])
                    IN  IF sub THEN In(s)
                        ELSE Given(hgetc(s), LAMBDA e :
                             Given([Back(e, e.c) EXCEPT !.c = "("], LAMBDA t :
                             IF \/ e.c = ")"
                                \/ isset("SHGLOB") /\ inblank(e.c) /\ l.bct = 0 /\ l.brct = 0 /\ l.intpos = 0 /\ s.incmdpos
                             THEN Brk(t, sub, l) ELSE In(t)))
          [] OTHER -> BraceOrQuote(s, sub, l)

---------------------------------------------------------------------------
(* Tokens. *)

\* One more character is looked at: t goes on with it when it is in Then's domain, otherwise it is
\* put back and the token is Else.
Second(s, Then, Else) ==
    Given(hgetc(s), LAMBDA t :
        IF ~t.lexstop /\ t.c \in DOMAIN Then THEN Whole(t, Then[t.c]) ELSE Whole(Back(t, t.c), Else))
Clobber(s, also) == IF also /\ isset("HISTALLOWCLOBBER") THEN hwaddc(s, "|") ELSE s
BangOrBar(tok) == [c \in {"!", "|"} |-> tok]

\* Behind &.
Amper(s) ==
    Given(hgetc(s), LAMBDA d :
        CASE d.c = "&" -> Whole(d, "DAMPER")
          [] d.c \in {"!", "|"} -> Whole(d, "AMPERBANG")
          [] d.c = ">" ->
               Given(hgetc(d), LAMBDA e :
                   CASE e.c \in {"!", "|"} -> Whole(e, "OUTANGAMPBANG")
                     [] e.c = ">" -> Second(e, BangOrBar("DOUTANGAMPBANG"), "DOUTANGAMP")
                     [] OTHER -> [Whole(Back(e, e.c), "AMPOUTANG") EXCEPT !.tokfd = -1])
          [] OTHER -> Whole(Back(d, d.c), "AMPER"))

\* Digits and - behind <: with > they are a pattern, otherwise all is put back.
RECURSIVE NumberRange(_, _), PutBack(_, _)
PutBack(s, w) == IF w = <<>> THEN s ELSE PutBack(hungetc(s, Last(w)), Front(w))
NumberRange(s, w) ==
    Given(hgetc(s), LAMBDA t :
        IF ~t.lexstop /\ (idigit(t.c) \/ t.c = "-") THEN NumberRange(t, Append(w, t.c))
        ELSE [PutBack(Back(t, t.c), w) EXCEPT !.go = IF t.c = ">" /\ ~t.lexstop THEN "pattern" ELSE ""])

\* A word that starts with c, which was read.
StartWord(s, c) == Given([s EXCEPT !.c = c, !.tokstr = <<>>, !.hasstr = TRUE], LAMBDA t : s.gettokstr[t, FALSE])

\* Behind < and behind >; fd is the descriptor in front, or -1.
Inang(s, fd) ==
    LET Redir(t, tok) == [Whole(t, tok) EXCEPT !.tokfd = fd]
    IN  Given(hgetc(s), LAMBDA d :
        CASE d.c = "(" /\ ~s.incmdpos -> StartWord(Back(d, "("), "<")
          [] d.c = ">" -> Redir(d, "INOUTANG")
          [] idigit(d.c) \/ d.c = "-" ->
               Given(NumberRange(hungetc(d, d.c), <<>>), LAMBDA t :
                   IF t.go = "pattern" THEN StartWord(t, "<") ELSE Redir(t, "INANG"))
          [] d.c = "<" ->
               Given(hgetc(d), LAMBDA e :
                   CASE e.c = "(" -> Redir(hungetc(hungetc(e, "("), "<"), "INANG")
                     [] e.c = "<" -> Redir(e, "TRINANG")
                     [] e.c = "-" -> Redir(e, "DINANGDASH")
                     [] OTHER -> Redir(Back(e, e.c), "DINANG"))
          [] d.c = "&" -> Redir(d, "INANGAMP")
          [] OTHER -> Redir(Back(d, d.c), "INANG"))
Outang(s, fd) ==
    LET Redir(t) == [t EXCEPT !.tokfd = fd]
    IN  Given(hgetc(s), LAMBDA d :
        CASE d.c = "(" -> StartWord(hungetc(d, "("), ">")
          [] d.c = "&" -> Redir(Second(d, BangOrBar("OUTANGAMPBANG"), "OUTANGAMP"))
          [] d.c \in {"!", "|"} -> Redir(Whole(d, "OUTANGBANG"))
          [] d.c = ">" ->
               Given(hgetc(d), LAMBDA e :
                   CASE e.c = "&" -> Redir(Second(e, BangOrBar("DOUTANGAMPBANG"), "DOUTANGAMP"))
                     [] e.c \in {"!", "|"} -> Redir(Whole(e, "DOUTANGBANG"))
                     [] e.c = "(" -> Redir(Whole(hungetc(hungetc(e, "("), ">"), "OUTANG"))
                     [] OTHER -> Redir(Clobber(Whole(Back(e, e.c), "DOUTANG"), TRUE)))
          [] OTHER -> Redir(Clobber(Whole(Back(d, d.c), "OUTANG"), ~s.incond)))

\* A comment is a newline; its text is kept for the history.
RECURSIVE CommentText(_)
CommentText(s) == Given(ingetc(s), LAMBDA t : IF t.c = NL \/ t.lexstop THEN t ELSE CommentText(hwaddc(t, t.c)))
Comment(s) ==
    Given(CommentText(s), LAMBDA t :
        IF t.errflag THEN Whole(t, "LEXERR") ELSE Whole(hwaddc(hwbegin(hwend(t), 0), NL), "NEWLIN"))

RECURSIVE SkipBlanks(_)
SkipBlanks(s) == Given(hgetc(s), LAMBDA t : IF t.c = " " /\ ~t.lexstop THEN SkipBlanks(t) ELSE t)

RECURSIVE gettok(_)
\* s.c is the first character behind a descriptor in front of < or >.
First(s, fd) ==
    CASE s.c = "#" /\ isset("INTERACTIVECOMMENTS") -> Comment(s)
      [] s.c = "\\" -> Given(hgetc(s), LAMBDA d : IF d.c = NL THEN gettok(d) ELSE StartWord(Back(d, d.c), "\\"))
      [] s.c = NL -> Whole(s, "NEWLIN")
      [] s.c = ";" -> Second(s, ";" :> "DSEMI", "SEMI")
      [] s.c = "&" -> Amper(s)
      [] s.c = "|" -> Second(s, "|" :> "DBAR" @@ "&" :> "BARAMP", "BAR")
      [] s.c = "(" ->
           Given(hgetc(s), LAMBDA d :
               CASE d.c = "(" /\ s.incmdpos ->
                      Given(cmd_or_math([d EXCEPT !.tokstr = <<>>, !.hasstr = TRUE]), LAMBDA t :
                          Whole(t, IF t.go = "math" THEN "DINPAR" ELSE "INPAR"))
                 [] d.c = ")" -> Whole(d, "INOUTPAR")
                 [] OTHER -> Given(Back(d, d.c), LAMBDA t :
                        IF s.incond \/ s.incmdpos THEN Whole(t, "INPAR") ELSE StartWord(t, "(")))
      [] s.c = ")" -> Whole(s, "OUTPAR")
      [] s.c = "<" -> Inang(s, fd)
      [] s.c = ">" -> Outang(s, fd)
      [] OTHER -> StartWord(s, s.c)
gettok(s) ==
    Given(SkipBlanks([s EXCEPT !.hasstr = FALSE, !.tokstr = <<>>]), LAMBDA t :
        IF t.lexstop THEN Whole(t, IF t.errflag THEN "LEXERR" ELSE "ENDINPUT")
        ELSE Given(hwbegin([t EXCEPT !.isfirstln = FALSE], IF t.qbang /\ t.c = bangchar THEN -2 ELSE -1), LAMBDA b :
             IF ~idigit(b.c) THEN First(b, -1)
             ELSE Given(hgetc(b), LAMBDA d :
                  IF d.c \in {"<", ">"} THEN First(d, DigitOf(b.c)) ELSE First([Back(d, d.c) EXCEPT !.c = b.c], -1))))

---------------------------------------------------------------------------
(* Aliases and reserved words. *)

\* Reserved words, as far as they matter here.
reswdtab == <<"{">> :> "INBRACE" @@ <<"}">> :> "OUTBRACE" @@ <<"!">> :> "BANG" @@ <<"[", "[">> :> "DINBRACK"

\* go is "alias" when the token was replaced by the text of an alias.
exalias(s0) ==
    Given(hwend(s0), LAMBDA s :
        LET yytext == untokenize(s.tokstr)
            isalias == /\ s.tok = "STRING" /\ yytext \in DOMAIN Aliases /\ yytext \notin s.inuse
                       /\ Aliases[yytext].global \/ s.incmdpos \/ s.inalmore
        IN  CASE ~s.hasstr -> [s EXCEPT !.go = ""]
              [] s.hasstr /\ isalias ->
                   [inpush(s, Aliases[yytext].text, {"ALIAS"}, yytext) EXCEPT
                       !.lexstop = FALSE, !.go = "alias",
                       !.nostore = @ \/ (isset("HISTIGNORESPACE") /\ Peek(Aliases[yytext].text, 1) = " ")]
              [] OTHER ->
                   [s EXCEPT !.inalmore = FALSE, !.go = "",
                       !.incond = IF s.tok # "STRING" THEN @
                                  ELSE (@ /\ yytext # <<"]", "]">>) \/ (s.incmdpos /\ yytext = <<"[", "[">>),
                       !.tok = CASE s.tok # "STRING" -> s.tok
                                 [] /\ s.tok = "STRING" /\ yytext \in DOMAIN reswdtab
                                    /\ s.incmdpos \/ (~isset("IGNOREBRACES") /\ yytext = <<"}">>) -> reswdtab[yytext]
                                 [] s.tok = "STRING" /\ s.incond /\ yytext = <<"]", "]">> -> "DOUTBRACK"
                                 [] s.tok = "STRING" /\ s.incond /\ yytext = <<"!">> -> "BANG"
                                 [] OTHER -> s.tok])

RECURSIVE NextToken(_)
NextToken(s) ==
    Given(gettok(s), LAMBDA t :
        IF t.tok = "ENDINPUT" THEN t
        ELSE Given(exalias(t), LAMBDA u : IF u.go = "alias" THEN NextToken(u) ELSE u))
yylex(s) ==
    IF s.tok = "LEXERR" THEN s
    ELSE Given(NextToken(s), LAMBDA t :
         [t EXCEPT !.isnewlin = IF t.tok # "NEWLIN" THEN 0 ELSE IF t.inct > 0 THEN -1 ELSE 1,
                   !.tok = IF t.tok \in {"SEMI", "NEWLIN"} THEN "SEPER" ELSE @])

\* Whether a command, or a file name, may come next.
Redirections == {"OUTANG", "OUTANGBANG", "DOUTANG", "DOUTANGBANG", "INANG", "INOUTANG", "DINANG", "DINANGDASH", "INANGAMP",
                 "OUTANGAMP", "AMPOUTANG", "OUTANGAMPBANG", "DOUTANGAMP", "DOUTANGAMPBANG", "TRINANG"}
ctxtlex(s) ==
    Given(yylex(s), LAMBDA t :
    Given(CASE t.tok \in {"SEPER", "DSEMI", "AMPER", "AMPERBANG", "INPAR", "INBRACE", "DBAR", "DAMPER", "BAR", "BARAMP",
                          "INOUTPAR", "DOUTBRACK"} -> [t EXCEPT !.incmdpos = TRUE]
            [] t.tok \in {"STRING", "ENVARRAY", "OUTPAR", "DINBRACK"} -> [t EXCEPT !.incmdpos = FALSE]
            [] OTHER -> t, LAMBDA u :
        CASE u.tok \in Redirections -> [u EXCEPT !.inredir = TRUE, !.oldpos = u.incmdpos, !.incmdpos = FALSE]
          [] u.tok \notin Redirections /\ u.inredir -> [u EXCEPT !.incmdpos = u.oldpos, !.inredir = FALSE]
          [] OTHER -> u))

---------------------------------------------------------------------------
(* Lines and strings. *)

\* The parts of the lexer that are called from many places, as functions: see ingetc().
Parts == [gettokstr |-> [s \in Any, sub \in BOOLEAN |-> gettokstr(s, sub, NewWord)],
          dquote_parse |-> [s \in Any, endchar \in Any, sub \in BOOLEAN |-> InQuotes(s, endchar, sub)]]

\* The tokens of a line, and what is left of the state behind it.
RECURSIVE Tokens(_, _)
Tokens(s, found) ==
    Given(ctxtlex(s), LAMBDA t :
        IF t.tok \in {"ENDINPUT", "LEXERR"} \/ t.past \/ (t.tok = "SEPER" /\ t.isnewlin # 0) THEN [s |-> t, tokens |-> Append(found, <<t.tok>>)]
        ELSE Tokens(t, Append(found, <<t.tok>> \o t.tokstr)))
Lex(hist, lines) == Tokens(hbegin(hist, lines) @@ Parts, <<>>)

\* A string is tokenized as part of a word, or as if it was in double quotes.
Str(str) == [hbegin(<<>>, <<>>) @@ Parts EXCEPT !.inbuf = str, !.inct = Len(str), !.strin = TRUE, !.stophist = 2]
parse_subst_string(str) ==
    Given(hgetc(Str(str)), LAMBDA s : s.gettokstr[s, TRUE])
parsestr(str) == dquote_parse(Str(str), "", TRUE)
============================================================================
