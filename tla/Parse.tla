------------------------------- MODULE Parse -------------------------------
(***************************************************************************)
(* The parser of parse.c: what tree a sequence of words is read as.         *)
(*                                                                         *)
(* A word is what the lexer of lex.c takes for one token; which token it   *)
(* is depends on where the parser is: reserved words and assignments are    *)
(* such in command position only.  The parser's state p has                *)
(*   rest          the words not read yet                                  *)
(*   tok, str      the token read last and its word (tokstr)               *)
(*   incmdpos, incond, isnewlin      as in the source                      *)
(*   cmdsp         entries on the stack of commands being parsed           *)
(*   atend         an error was met at the end of the input                *)
(* A parsing function gives the state it leaves and the tree: [p, t].      *)
(* Trees are nodes with words, assignments, redirections and subtrees.     *)
(***************************************************************************)
EXTENDS Integers, Sequences, SequencesExt

CONSTANTS SHORTLOOPS, CSHJUNKIELOOPS       \* options

Node(op, w, kids) == [op |-> op, w |-> w, vars |-> <<>>, redir |-> <<>>, kids |-> kids]
Null == Node("null", <<>>, <<>>)
List(type, l, r) == Node("list", <<type>>, <<l, r>>)

\* What is made of r, which has been read.
Then(r, F(_)) == F(r)

---------------------------------------------------------------------------
(* Tokens. *)

reswds == {"!", "[[", "{", "}", "case", "coproc", "do", "done", "elif", "else", "end",
           "esac", "fi", "for", "foreach", "function", "if", "nocorrect", "repeat",
           "select", "then", "time", "until", "while"}
Operators == {"&", "&|", "|", "|&", "&&", "||", ";;", ")", "()"}
Redirops == {">", "<", "2>&"}
Assignments == {"x=1"}
ArrayAssignments == {"x=("}
Arith == {"((1))"}
Identifiers == {"a", "b", "c", "x", "in"} \union reswds

\* gettok() and exalias(): the token that word w is.  A parenthesis that is not
\* in command position begins a pattern; such words are not split here.
Token(p, w) ==
    IF w \in {";", "nl"} THEN "SEPER"
    ELSE IF w \in Operators \union Redirops THEN w
    ELSE IF w = "(" THEN IF p.incmdpos \/ p.incond = 1 THEN "(" ELSE "LEXERR"
    ELSE IF w \in Arith THEN IF p.incmdpos THEN "DINPAR" ELSE "LEXERR"
    ELSE IF w = "(b)" THEN IF p.incmdpos THEN "LEXERR" ELSE "STRING"
    ELSE IF w \in ArrayAssignments THEN IF p.incmdpos THEN "ENVARRAY" ELSE "LEXERR"
    ELSE IF w \in Assignments /\ p.incmdpos THEN "ENVSTRING"
    ELSE IF w \in reswds /\ (p.incmdpos \/ w = "}") THEN w
    ELSE IF w = "]]" /\ p.incond > 0 THEN "DOUTBRACK"
    ELSE IF w = "!" /\ p.incond > 0 THEN "!"
    ELSE "STRING"

\* An error stays.  isnewlin tells a newline that ends the input from others.
yylex(p) ==
    IF p.tok = "LEXERR" THEN p
    ELSE IF p.rest = <<>> THEN [p EXCEPT !.tok = "ENDINPUT", !.str = "", !.isnewlin = 0]
    ELSE Then(Token(p, Head(p.rest)), LAMBDA tok :
             [p EXCEPT !.rest = Tail(@), !.tok = tok, !.str = Head(p.rest),
                       !.incond = IF tok = "[[" THEN 1 ELSE IF tok = "DOUTBRACK" THEN 0 ELSE @,
                       !.isnewlin = IF Head(p.rest) # "nl" THEN 0 ELSE IF Len(p.rest) > 1 THEN -1 ELSE 1])

RECURSIVE SkipSeps(_)
SkipSeps(p) == IF p.tok = "SEPER" THEN SkipSeps(yylex(p)) ELSE p

cmdpush(p) == [p EXCEPT !.cmdsp = @ + 1]
cmdpop(p) == [p EXCEPT !.cmdsp = @ - 1]
CmdPos(p, b) == [p EXCEPT !.incmdpos = b]

YYERROR(p) == [p EXCEPT !.tok = "LEXERR", !.atend = @ \/ p.tok = "ENDINPUT"]
Got(p, t) == [p |-> p, t |-> t]
Failed(p) == Got(YYERROR(p), Null)

\* The token is tok, and is read over.
Expect(p, tok) == IF p.tok = tok THEN yylex(p) ELSE YYERROR(p)

---------------------------------------------------------------------------
(* Word lists and redirections. *)

RECURSIVE par_wordlist(_, _)
par_wordlist(p, seps) ==
    IF p.tok \in {"STRING"} \union (IF seps THEN {"SEPER"} ELSE {})
    THEN Then(par_wordlist(yylex(p), seps), LAMBDA r :
             Got(r.p, (IF p.tok = "STRING" THEN <<p.str>> ELSE <<>>) \o r.t))
    ELSE Got(p, <<>>)

\* The redirections that come here, after those in io.
RECURSIVE par_redirs(_, _)
par_redirs(p, io) ==
    IF p.tok \notin Redirops THEN Got(p, io)
    ELSE Then(yylex(CmdPos(p, FALSE)), LAMBDA q :
             IF q.tok \notin {"STRING", "ENVSTRING"} THEN Got(YYERROR(q), io)
             ELSE par_redirs(yylex(CmdPos(q, p.incmdpos)), Append(io, <<p.str, q.str>>)))

---------------------------------------------------------------------------
(* Conditions.  incond counts, so that parentheses in the second argument are *)
(* patterns.                                                                 *)

Binary == {"=", "-nt"}
Unary == {"-n"}

RECURSIVE par_cond(_), par_cond_1(_), par_cond_2(_)

CondChain(r, tok, op, Rest(_)) ==
    Then(SkipSeps(r.p), LAMBDA p :
        IF p.tok # tok THEN Got(p, r.t)
        ELSE Then(Rest(SkipSeps(yylex(p))), LAMBDA s : Got(s.p, Node(op, <<>>, <<r.t, s.t>>))))

par_cond(p) == CondChain(par_cond_1(p), "||", "COND_OR", par_cond)
par_cond_1(p) == CondChain(par_cond_2(p), "&&", "COND_AND", par_cond_1)

par_cond_double(p, a, b) == IF a \in Unary THEN Got(p, Node(a, <<b>>, <<>>)) ELSE Failed(p)
par_cond_triple(p, a, b, c) ==
    IF b \in Binary THEN Got(p, Node(b, <<a, c>>, <<>>)) ELSE Failed(p)

par_cond_2(p) ==
    IF p.tok = "!"
    THEN Then(par_cond_2(yylex(p)), LAMBDA r : Got(r.p, Node("COND_NOT", <<>>, <<r.t>>)))
    ELSE IF p.tok = "("
    THEN Then(par_cond(SkipSeps(yylex(p))), LAMBDA r : Got(Expect(SkipSeps(r.p), ")"), r.t))
    ELSE IF p.tok # "STRING" THEN Failed(p)
    ELSE Then(yylex(p), LAMBDA q :
             IF q.tok \in {"<", ">"}
             THEN Then(yylex(q), LAMBDA c :
                      IF c.tok # "STRING" THEN Failed(c)
                      ELSE Got(yylex(c), Node(q.tok, <<p.str, c.str>>, <<>>)))
             ELSE IF q.tok # "STRING" THEN Failed(q)
             ELSE Then([yylex([q EXCEPT !.incond = @ + 1]) EXCEPT !.incond = IF @ = 0 THEN 0 ELSE @ - 1],
                       LAMBDA s :
                           IF s.tok = "STRING" THEN par_cond_triple(yylex(s), p.str, q.str, s.str)
                           ELSE par_cond_double(s, p.str, q.str)))

---------------------------------------------------------------------------
(* Commands. *)

RECURSIVE par_list(_), par_sublist(_), par_pline(_), par_cmd(_), par_simple(_)

Types == [s \in {"SEPER", "&", "&|"} |-> s]

par_list(p0) ==
    Then(par_sublist(SkipSeps(p0)), LAMBDA s :
        IF s.t = Null THEN s
        ELSE IF s.p.tok \notin DOMAIN Types THEN Got(s.p, List("SEPER", s.t, Null))
        ELSE Then(par_list(SkipSeps(yylex(CmdPos(s.p, TRUE)))), LAMBDA r :
                 Got(r.p, List(s.p.tok, s.t, r.t))))

par_list1(p) ==
    Then(par_sublist(p), LAMBDA s : Got(s.p, IF s.t = Null THEN Null ELSE List("SEPER", s.t, Null)))

par_sublist2(p) ==
    LET flag == IF p.tok \in {"coproc", "!"} THEN p.tok ELSE ""
    IN  Then(par_pline(IF flag # "" THEN yylex(p) ELSE p), LAMBDA r :
            Got(r.p, IF r.t = Null /\ flag = "" THEN Null ELSE Node("sublist", <<flag, "">>, <<r.t, Null>>)))

par_sublist(p) ==
    Then(par_sublist2(p), LAMBDA s :
        IF s.t = Null \/ s.p.tok \notin {"&&", "||"} THEN s
        ELSE Then(par_sublist(SkipSeps(yylex(cmdpush(s.p)))), LAMBDA r :
                 Got(cmdpop(r.p), [s.t EXCEPT !.w[2] = s.p.tok, !.kids[2] = r.t])))

\* After |& newlines are not skipped.
par_pline(p) ==
    Then(par_cmd(p), LAMBDA c :
        IF c.t = Null THEN c
        ELSE IF c.p.tok \notin {"|", "|&"} THEN Got(c.p, Node("pline", <<"END">>, <<c.t, Null>>))
        ELSE LET q == yylex(cmdpush(c.p))
                 left == IF c.p.tok = "|" THEN c.t ELSE [c.t EXCEPT !.redir = Append(@, <<"2>&", "1">>)]
             IN  Then(par_pline(IF c.p.tok = "|" THEN SkipSeps(q) ELSE q), LAMBDA r :
                     Got(cmdpop(r.p), Node("pline", <<"PIPE">>, <<left, r.t>>))))

---------------------------------------------------------------------------
(* Compound commands. *)

\* list between tok read already and end.
Enclosed(p, end) == Then(par_list(p), LAMBDA r : Got(Expect(r.p, end), r.t))

\* The body of a loop.
Body(p, junkie, Short(_)) ==
    IF p.tok = "do" THEN Enclosed(yylex(p), "done")
    ELSE IF p.tok = "{" THEN Enclosed(yylex(p), "}")
    ELSE IF junkie THEN Enclosed(p, "end")
    ELSE Short(p)

ShortBody(p) == IF SHORTLOOPS THEN par_list1(p) ELSE Failed(p)

\* for name in words, for name (words), for name.
par_for(p) ==
    Then(yylex(CmdPos(p, FALSE)), LAMBDA n :
    Then(yylex(CmdPos(n, TRUE)), LAMBDA q :
        LET in == q.tok = "STRING" /\ q.str = "in"
            inflag == in \/ q.tok = "("
        IN  Then(par_wordlist(yylex(CmdPos(q, FALSE)), ~in), LAMBDA words :
            Then(IF ~inflag THEN q
                 ELSE IF in THEN IF words.p.tok # "SEPER" THEN YYERROR(words.p) ELSE words.p
                 ELSE Expect(CmdPos(words.p, words.p.tok = ")"), ")"), LAMBDA s :
            Then(Body(SkipSeps(CmdPos(s, TRUE)), p.tok = "foreach" \/ CSHJUNKIELOOPS, ShortBody), LAMBDA b :
                IF n.tok # "STRING" \/ n.str \notin Identifiers THEN Failed(n)
                ELSE Got(b.p, Node(IF p.tok = "select" THEN "CSELECT" ELSE "CFOR",
                                   <<n.str, IF inflag THEN "in" ELSE "">>
                                   \o (IF inflag THEN words.t ELSE <<>>), <<b.t>>)))))))

\* One pattern: alternatives and the parenthesis; or all of it in parentheses.
RECURSIVE Pattern(_, _)
Pattern(p, alts) ==
    Then(yylex(p), LAMBDA q :
        IF q.tok = ")" THEN Got(yylex(CmdPos(q, TRUE)), alts)
        ELSE IF q.tok = "|"
        THEN Then(yylex(CmdPos(q, FALSE)), LAMBDA r :
                 IF r.tok # "STRING" THEN Got(YYERROR(r), alts) ELSE Pattern(r, Append(alts, r.str)))
        ELSE IF alts = <<"(b)">> THEN Got(q, alts)
        ELSE Got(YYERROR(q), alts))

RECURSIVE Items(_, _)
Items(p0, brace) ==
    Then(SkipSeps(p0), LAMBDA p :
        IF p.tok = "}" \/ (p.tok = "STRING" /\ p.str = "esac") THEN Got(p, <<>>)
        ELSE IF p.tok # "STRING" THEN Got(YYERROR(p), <<>>)
        ELSE Then(Pattern(CmdPos(p, TRUE), <<p.str>>), LAMBDA pat :
             Then(par_list(pat.p), LAMBDA l :
                 LET item == <<Node("pat", pat.t, <<>>), l.t>>
                 IN  IF l.p.tok = (IF brace THEN "}" ELSE "esac") THEN Got(l.p, item)
                     ELSE IF l.p.tok # ";;" THEN Got(YYERROR(l.p), item)
                     ELSE Then(Items(yylex(CmdPos(l.p, FALSE)), brace), LAMBDA more :
                              Got(more.p, item \o more.t)))))

par_case(p) ==
    Then(yylex(CmdPos(p, FALSE)), LAMBDA w :
    Then(SkipSeps(yylex(CmdPos(w, TRUE))), LAMBDA q :
    Then(Items(yylex(CmdPos(q, FALSE)), q.tok = "{"), LAMBDA i :
        IF w.tok # "STRING" THEN Failed(w)
        ELSE IF q.tok # "{" /\ ~(q.tok = "STRING" /\ q.str = "in") THEN Failed(q)
        ELSE Got(yylex(CmdPos(i.p, TRUE)), Node("CCASE", <<w.str>>, i.t)))))

\* The arms of an if; how = "fi" when there are no more of them.
Arm(p, lists, how, brace) == [p |-> p, t |-> lists, how |-> how, brace |-> brace]

RECURSIVE Arms(_, _)
Arms(p, brace) ==
    Then(yylex(cmdpush(p)), LAMBDA q :
        IF p.tok \in {"fi", "else"} THEN Arm(q, <<>>, p.tok, brace)
        ELSE IF p.tok \notin {"if", "elif"}
        THEN Arm(YYERROR([q EXCEPT !.tok = IF p.tok = "ENDINPUT" THEN p.tok ELSE @]), <<>>, "fi", brace)
        ELSE Then(par_list(SkipSeps(q)), LAMBDA c :
             Then(SkipSeps(CmdPos(c.p, TRUE)), LAMBDA s :
             Then(par_list(yylex(s)), LAMBDA t :
             Then(CmdPos(yylex(t.p), TRUE), LAMBDA afterbrace :
             Then(par_list1(s), LAMBDA short :
                 LET More(r, b) == Then(Arms(cmdpop(r), b), LAMBDA m : [m EXCEPT !.t = <<c.t, t.t>> \o @])
                     End(r, pp) == Arm(CmdPos(pp, TRUE), <<c.t, r>>, "fi", brace)
                 IN  IF s.tok = "then" THEN More(CmdPos(t.p, TRUE), FALSE)
                     ELSE IF s.tok = "{"
                     THEN IF t.p.tok # "}" THEN End(t.t, YYERROR(t.p))
                          ELSE IF afterbrace.tok = "SEPER" THEN End(t.t, afterbrace)
                          ELSE More(afterbrace, TRUE)
                     ELSE End(short.t, IF SHORTLOOPS THEN short.p ELSE YYERROR(s))))))))

\* As if the early return between else and its list were enough.
par_if_ElseNotPopped(p) ==
    Then(Arms(p, FALSE), LAMBDA a :
        IF a.how # "else" THEN Got(cmdpop(a.p), Node("CIF", <<"">>, a.t))
        ELSE Then(SkipSeps(cmdpush(cmdpop(a.p))), LAMBDA q :
             Then(q.tok = "{" /\ a.brace, LAMBDA braced :
             Then(Enclosed(IF braced THEN yylex(q) ELSE q, IF braced THEN "}" ELSE "fi"), LAMBDA e :
                 Got(IF e.p.tok = "LEXERR" THEN e.p ELSE cmdpop(e.p),
                     Node("CIF", <<"else">>, a.t \o <<e.t>>))))))

par_if(p) ==
    Then(Arms(p, FALSE), LAMBDA a :
        IF a.how # "else" THEN Got(cmdpop(a.p), Node("CIF", <<"">>, a.t))
        ELSE Then(SkipSeps(cmdpush(cmdpop(a.p))), LAMBDA q :
             Then(q.tok = "{" /\ a.brace, LAMBDA braced :
             Then(Enclosed(IF braced THEN yylex(q) ELSE q, IF braced THEN "}" ELSE "fi"), LAMBDA e :
                 Got(cmdpop(e.p), Node("CIF", <<"else">>, a.t \o <<e.t>>))))))

par_while(p) ==
    Then(par_list(yylex(p)), LAMBDA c :
    Then(Body(SkipSeps(CmdPos(c.p, TRUE)), CSHJUNKIELOOPS, Failed), LAMBDA b :
        Got(b.p, Node("CWHILE", <<p.tok>>, <<c.t, b.t>>))))

par_repeat(p) ==
    Then(yylex(CmdPos(p, FALSE)), LAMBDA n :
    Then(Body(SkipSeps(yylex(CmdPos(n, TRUE))), CSHJUNKIELOOPS, ShortBody), LAMBDA b :
        IF n.tok # "STRING" THEN Failed(n) ELSE Got(b.p, Node("CREPEAT", <<n.str>>, <<b.t>>))))

par_subsh(p) ==
    Then(par_list(yylex(p)), LAMBDA r :
        IF r.p.tok # (IF p.tok = "(" THEN ")" ELSE "}") THEN Failed(r.p)
        ELSE Got(yylex(CmdPos(r.p, TRUE)), Node(IF p.tok = "(" THEN "SUBSH" ELSE "CURSH", <<>>, <<r.t>>)))

FunctionBody(q, Short(_)) == IF q.tok = "{" THEN Enclosed(yylex(q), "}") ELSE Short(q)

\* A brace that stands where the first name would is not one.
par_funcdef(p) ==
    Then(yylex(CmdPos(p, FALSE)), LAMBDA f :
    Then(par_wordlist(CmdPos(IF f.tok = "STRING" /\ f.str = "{"
                             THEN [f EXCEPT !.tok = "{"] ELSE f, TRUE), FALSE), LAMBDA names :
    Then(FunctionBody(SkipSeps(IF names.p.tok = "()" THEN yylex(names.p) ELSE names.p), ShortBody), LAMBDA b :
        Got(b.p, Node("FUNCDEF", names.t, <<b.t>>)))))

par_time(p) == Then(par_sublist2(yylex(p)), LAMBDA r : Got(r.p, Node("ZCTIME", <<>>, <<r.t>>)))

par_dinbrack(p) ==
    Then(par_cond(yylex([CmdPos(p, FALSE) EXCEPT !.incond = 1])), LAMBDA c :
        IF c.p.tok # "DOUTBRACK" THEN Failed(c.p)
        ELSE Got(yylex([CmdPos(c.p, TRUE) EXCEPT !.incond = 0]), Node("COND", <<>>, <<c.t>>)))

---------------------------------------------------------------------------
(* Simple commands; a word followed by () makes a function of it. *)

\* expandstruct(n, N_LIST) of a command.
ListOf(cmd) ==
    IF cmd = Null THEN Null
    ELSE List("SEPER", Node("sublist", <<"", "">>, <<Node("pline", <<"END">>, <<cmd, Null>>), Null>>), Null)

Simple == Node("SIMPLE", <<>>, <<>>)

RECURSIVE Assigned(_, _), Words(_, _)
Assigned(p, c) ==
    IF p.tok = "nocorrect" THEN Assigned(yylex(p), c)
    ELSE IF p.tok = "ENVSTRING" THEN Assigned(yylex(p), [c EXCEPT !.vars = Append(@, <<p.str>>)])
    ELSE IF p.tok = "ENVARRAY"
    THEN Then(par_wordlist(yylex(CmdPos(cmdpush(p), FALSE)), TRUE), LAMBDA r :
             IF r.p.tok # ")" THEN Got(YYERROR(cmdpop(r.p)), c)
             ELSE Assigned(yylex(CmdPos(cmdpop(r.p), p.incmdpos)),
                           [c EXCEPT !.vars = Append(@, <<p.str>> \o r.t)]))
    ELSE Got(p, c)

Words(p, c) ==
    IF p.tok = "STRING"
    THEN Words(yylex(CmdPos(p, FALSE)), [c EXCEPT !.w = Append(@, p.str)])
    ELSE IF p.tok \in Redirops
    THEN Then(par_redirs(p, c.redir), LAMBDA r : Words(r.p, [c EXCEPT !.redir = r.t]))
    ELSE IF p.tok = "()"
    THEN LET Command(x) == Then(par_cmd(x), LAMBDA r : Got(r.p, ListOf(r.t)))
         IN  Then(FunctionBody(SkipSeps(yylex(CmdPos(cmdpush(p), TRUE))), Command), LAMBDA b :
                 Words(cmdpop(b.p), [c EXCEPT !.op = "FUNCDEF", !.kids = <<b.t>>]))
    ELSE Got(p, c)

par_simple(p) ==
    Then(Assigned(p, Simple), LAMBDA a :
        IF a.p.tok \in {"&", "&|"} THEN Failed(a.p)
        ELSE Then(Words(a.p, a.t), LAMBDA r :
                 IF r.p.tok = "LEXERR" \/ r.t = Simple THEN Got(r.p, Null)
                 ELSE Got(CmdPos(r.p, TRUE), r.t)))

Within(p, F(_)) == Then(F(cmdpush(p)), LAMBDA r : Got(cmdpop(r.p), r.t))

\* Redirections may come before and after; those of a simple command are its own.
Compound(p, before) ==
    CASE p.tok \in {"for", "foreach", "select"} -> Within(p, par_for)
      [] p.tok = "case" -> Within(p, par_case)
      [] p.tok = "if" -> par_if(p)
      [] p.tok \in {"while", "until"} -> Within(p, par_while)
      [] p.tok = "repeat" -> Within(p, par_repeat)
      [] p.tok \in {"(", "{"} -> Within(p, par_subsh)
      [] p.tok = "function" -> Within(p, par_funcdef)
      [] p.tok = "time" -> par_time(p)
      [] p.tok = "[[" -> Within(p, par_dinbrack)
      [] p.tok = "DINPAR" -> Got(yylex(p), Node("CARITH", <<p.str>>, <<>>))
      [] OTHER -> Then(par_simple(p), LAMBDA s :
                      IF s.t = Null /\ before # <<>> /\ s.p.tok # "LEXERR"
                      THEN Got(CmdPos(s.p, TRUE), Simple) ELSE s)

par_cmd(p0) ==
    Then(par_redirs(p0, <<>>), LAMBDA before :
    Then(Compound(before.p, before.t), LAMBDA c :
        IF c.t = Null THEN c
        ELSE Then(par_redirs(c.p, before.t \o c.t.redir), LAMBDA after :
                 Got([CmdPos(after.p, TRUE) EXCEPT !.incond = 0], [c.t EXCEPT !.redir = after.t]))))

---------------------------------------------------------------------------
(* Whole inputs. *)

Start(text) ==
    yylex([rest |-> text, tok |-> "ENDINPUT", str |-> "", incmdpos |-> TRUE, incond |-> 0,
           isnewlin |-> 0, cmdsp |-> 0, atend |-> FALSE])

\* A function file, the argument of eval: all of the text.
parse_list(text) == par_list(Start(text))

\* As if a newline could not be followed by more of the text.
EndsEvent_AtAnyNewline(p) == p.tok = "SEPER" /\ p.isnewlin # 0

\* The newline that ends the input ends the event.
EndsEvent(p) == p.tok = "SEPER" /\ p.isnewlin = 1

\* A line typed: the result has ok = FALSE where an error was reported.
RECURSIVE par_event(_)
par_event(p) ==
    IF p.tok = "SEPER" /\ ~EndsEvent(p) THEN par_event(yylex(p))
    ELSE IF p.tok \in {"SEPER", "ENDINPUT"} THEN [ok |-> TRUE, t |-> Null, p |-> p]
    ELSE Then(par_sublist(p), LAMBDA s :
             IF s.t = Null \/ s.p.tok \notin {"ENDINPUT"} \union DOMAIN Types
             THEN [ok |-> FALSE, t |-> Null, p |-> s.p]
             ELSE Then(par_event(IF s.p.tok = "ENDINPUT" \/ EndsEvent(s.p) THEN s.p ELSE yylex(s.p)),
                       LAMBDA next :
                           [next EXCEPT !.t = List(IF s.p.tok = "ENDINPUT" THEN "SEPER" ELSE s.p.tok, s.t, @)]))

parse_event(text) == par_event(Start(text))
============================================================================
