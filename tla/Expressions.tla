---------------------------- MODULE Expressions ----------------------------
(***************************************************************************)
(* Expressions are typed token by token; what the shell makes of them is    *)
(* compared with what the manual says of them.                              *)
(***************************************************************************)
EXTENDS Lib, SequencesExt, FiniteSetsExt, TLC

CONSTANTS
    EXTENDEDGLOB,        \* option
    STACKSZ, LVCOUNT     \* limits of math.c

P == INSTANCE PatternLang
A == INSTANCE ArithLang
B == INSTANCE Braces
C == INSTANCE Compctl
G == INSTANCE Glob

\* Each vocabulary is about one kind of expression, its subject; it gives the
\* tokens that may be typed after a token (first, after ""), how many are typed, and the values the
\* expression is applied to.
CONSTANTS
    Vocabularies,
    Lettering            \* the characters of the words that are typed as one token

VARIABLES vocab, text

L == INSTANCE Lexer WITH Options <- vocab.options, Aliases <- vocab.aliases

vars == <<vocab, text>>

Init == vocab \in Vocabularies /\ text = <<>>

Type(t) ==
    /\ Len(text) < vocab.len
    /\ t \in vocab.after[IF text = <<>> THEN "" ELSE Last(text)]
    /\ text' = Append(text, t)
    /\ UNCHANGED vocab

Next == \E t \in UNION Range(vocab.after) : Type(t)

Spec == Init /\ [][Next]_vars

---------------------------------------------------------------------------
(* Properties. *)

\* A pattern matches what the manual says it matches: case, [[ and parameter
\* expansion (matchpat(), P!domatch() against the relation of PatternLang).
PatternMatchesItsLanguage ==
    vocab.subject = "pattern" /\ P!Balanced(text) /\ ~P!Unusual(text) =>
        Given(P!Compiled(text), LAMBDA c :
        \A w \in vocab.values :
            Given(P!Meaning(text, w), LAMBDA m :
                IF c = <<>> THEN ~m.ok
                ELSE m.ok /\ \A x \in P!Anything(w) :
                         P!domatch(SubSeq(w, x[1], x[2] - 1), c[1], FALSE) <=> x \in m.rel))

\* ${s#pattern} and its variants take away the part that is the shortest or the
\* longest of those that match, and of these the first from the side they search
\* from (P!getmatch()).  The pattern is not compiled as a group here: alternatives at
\* the top need not reach the end, and a negation with an exclusion rarely does.
Better(how, x, y) ==
    LET length(z) == z[2] - z[1]
    IN  IF length(x) # length(y)
        THEN IF "longest" \in how THEN length(x) > length(y) ELSE length(x) < length(y)
        ELSE IF "end" \in how THEN x[1] > y[1] ELSE x[1] < y[1]
TakesTheBestMatch ==
    /\ vocab.subject = "pattern" /\ P!Balanced(text) /\ ~P!Unusual(text)
    /\ ~({"Hat", "Tilde"} \subseteq Range(text))
    /\ {i \in DOMAIN text : text[i] = "Bar"} \subseteq UNION {g[1]..g[2] : g \in P!Groups(text)}
    => Given(P!parsereg(text), LAMBDA c :
       c # <<>> => \A w \in vocab.values : Given(P!Meaning(text, w).rel, LAMBDA rel :
       \A how \in SUBSET {"end", "longest", "substring"} :
           Given({x \in rel : "substring" \in how \/ IF "end" \in how THEN x[2] = Len(w) + 1 ELSE x[1] = 1},
                 LAMBDA found :
               Given(IF found = {} THEN <<1, 1>>
                     ELSE CHOOSE x \in found : \A y \in found \ {x} : Better(how, x, y), LAMBDA best :
                   P!getmatch(w, c[1], how, {"match"}, 1) = <<SubSeq(w, best[1], best[2] - 1)>>))))

\* Matching and searching both do what the pattern means (glob.c).
PatternsAreUnderstood == PatternMatchesItsLanguage /\ TakesTheBestMatch

\* An arithmetic expression has the value, and leaves the parameters, that the manual
\* says (matheval() against the split at the loosest operator).  What is not evaluated
\* can still fail: see ShortCircuitShields.
Spelled(w) == FoldLeft(LAMBDA s, t : s \o A!Spelling(t) \o <<" ">>, <<>>, w)
ArithmeticMeansWhatItSays ==
    vocab.subject = "arithmetic" /\ text # <<>> /\ ~A!Unusual(text) =>
        \A env \in vocab.values :
            Given(A!matheval(Spelled(text), env), LAMBDA r :
            Given(A!Meaning(text, env.vars), LAMBDA m :
                /\ r.err <=> ~m.ok \/ m.err \/ (A!CouldFail(text) /\ r.err)
                /\ ~r.err => r.stack[1].val = m.val /\ r.vars = m.vars))

\* That "&&, ||, &&= and ||= are short-circuiting" does not hold of errors: what is
\* skipped is computed with zeros for the parameters, as in a && 10/a (math.c:449).
ShortCircuitShields ==
    vocab.subject = "arithmetic" /\ text # <<>> /\ ~A!Unusual(text) =>
        \A env \in vocab.values :
            Given(A!Meaning(text, env.vars), LAMBDA m : m.ok /\ ~m.err => ~A!matheval(Spelled(text), env).err)

\* A word with braces becomes the words that the manual says, in that order
\* (hasbraces(), xpandbraces() and the loop of prefork(): which braces are to be
\* expanded is found again for each of the words made so far).
BracesMakeTheseWords ==
    vocab.subject = "braces" =>
        \A BRACECCL \in BOOLEAN :
            ~B!Unusual(text) /\ (BRACECCL => B!Balanced(text)) => B!Words(text, BRACECCL) = B!Meaning(text, BRACECCL)

\* What compctl -L prints defines, when it is read, the same completions (bin_compctl(),
\* printcompctl()): after any command that is typed, or any condition of a completion.
Argv == IF vocab.subject = "compctl" THEN [i \in DOMAIN text |-> Lettering[text[i]]]
        ELSE <<<<"-", "x">>, text, <<"-", "f">>, <<"-", "-">>, <<"n">>>>
CompctlReadsBack ==
    vocab.subject \in {"compctl", "condition"} /\ text # <<>> =>
        \A table \in vocab.values :
            Given(C!bin_compctl(table, Argv).table, LAMBDA t :
                ~C!Unreadable(t) =>
                    C!PlainTable(C!ReadAgain(C!bin_compctl(t, <<<<"-", "L">>>>).printed)) = C!PlainTable(t))

\* A word becomes the names of the files that match it and have its qualifiers, each
\* once and in order, or stays, or is an error, as the manual says (globlist(),
\* glob(), scanner(), insert()).  A file that is met in several ways is named several times: the
\* port has no inode numbers to tell that by.
GlobFindsFiles ==
    vocab.subject = "files" /\ text # <<>> /\ G!Balanced(text) /\ ~G!Peculiar(text) =>
        \A v \in vocab.values :
            Given(G!globlist(v.tree, v.options, <<text>> \o v.more), LAMBDA r :
            Given(G!Says(v.tree, v.options, <<text>> \o v.more), LAMBDA m :
                /\ r.err <=> m.err
                /\ ~r.err => IF G!Closures(text) <= 1 THEN r.words = m.words ELSE Range(r.words) = Range(m.words)))

---------------------------------------------------------------------------
(* Lines for a shell that has a history, and strings within words. *)

\* Characters as lines, each with its newline.
Lines == FoldLeft(LAMBDA r, c : IF c = "NL" THEN Append(r, <<>>) ELSE Append(Front(r), Append(Last(r), c)), <<<<>>>>, text)
Typed == FoldLeft(LAMBDA r, l : Append(r, Append(l, "NL")), <<>>, Lines)
Accepted(r) == ~r.s.errflag /\ Last(r.tokens)[1] = "SEPER"
Mistaken == \E i \in DOMAIN text : text[i] = "NL" /\ Peek(text, i + 1) = "\\" /\ Peek(text, i + 2) \in {"NL", ""}
Continued(w) == \E i \in DOMAIN w : w[i] = "\\" /\ Peek(w, i + 1) = "NL"

\* A line of the history that is fetched and accepted again is the same command: it
\* has the same tokens, and it is kept as the same line with the same words
\* (hwaddc(), hungetc(), histsubchar(), exalias()).  Not when a reference put in a bang
\* that nothing protects (bare); HIST_ALLOW_CLOBBER changes > on purpose; and hungetc() cannot
\* tell a newline from the continued line that follows it (Mistaken).
StoredLineReads(hist, r, e) ==
    Accepted(r) /\ e.save /\ ~r.s.bare =>
        Given(L!Lex(Append(hist, e), <<Append(e.text, "NL")>>), LAMBDA again :
            /\ L!hend(again.s).text = e.text
            /\ "HISTALLOWCLOBBER" \in vocab.options \/ (L!hend(again.s).words = e.words /\ again.tokens = r.tokens))

\* What is put back is what was read last, also across the ends of aliases and of
\* references to the history, and behind the line no alias is in use (hungetc(),
\* inungetc(), inpoptop(): the assertion "wrong character in hungetc()").  Errors, and words that
\* the end of the input cuts off (past), do put back other characters, and so do lines with a Mistaken newline.
PutBackIsWhatCame(r) ==
    /\ r.s.wrong => r.s.errflag \/ r.s.past
    /\ Accepted(r) /\ r.s.isnewlin = 1 => r.s.inuse = {}

\* The words of a line that the history keeps are the words the parser gets, and a
\* string that is tokenized loses nothing (hwbegin() and hwend() against gettokstr();
\* parse_subst_string(), parsestr()).  A digit before <...>, and > at the beginning of a string, are
\* lost; <1 becomes <1>.
Unprotected(w) == IF "!" \in Range(w) THEN SelectSeq(w, LAMBDA c : c # "\\") ELSE w
LosesDigit == \E i \in DOMAIN text : text[i] = "1" /\ Peek(text, i + 1) \in {"<", ">"}
WordsAreTheirText(r, e) ==
    vocab.aliases = <<>> /\ ~Continued(text) /\ ~LosesDigit /\ {"RCQUOTES", "CSHJUNKIEQUOTES"} \intersect vocab.options = {}
    /\ Accepted(r) /\ e.save =>
        \A k \in 1..(Len(r.tokens) - 1) : r.tokens[k][1] = "STRING" =>
            Unprotected(L!getargs(r.s, e, k - 1, k - 1).sline) = Unprotected(L!untokenize(Tail(r.tokens[k])))
StringsAreTheirText ==
    vocab.subject = "string" /\ text # <<>> /\ ~Continued(text) =>
        /\ Given(L!parse_subst_string(text), LAMBDA s :
               s.tok = "STRING" /\ ~s.errflag /\ Head(text) # ">" /\ ~("<" \in Range(text)) => L!untokenize(s.tokstr) = text)
        /\ Given(L!parsestr(text), LAMBDA s : s.err = "" => L!untokenize(s.tokstr) = text)

\* What is typed and what is kept of it are one line, character for character,
\* word for word, and when it is read again (lex.c, input.c, hist.c).
LinesAreKept ==
    /\ StringsAreTheirText
    /\ vocab.subject = "line" /\ text # <<>> =>
        \A hist \in vocab.values :
            Given(L!Lex(hist, Typed), LAMBDA r :
            Given(L!hend(r.s), LAMBDA e :
                /\ ~Mistaken => StoredLineReads(hist, r, e) /\ PutBackIsWhatCame(r)
                /\ WordsAreTheirText(r, e)))

============================================================================
