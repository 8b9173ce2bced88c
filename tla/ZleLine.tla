------------------------------ MODULE ZleLine ------------------------------
(***************************************************************************)
(* The text of the line being edited and the places in it: the motion      *)
(* commands of zle_move.c and zle_word.c.  A line is a sequence of          *)
(* characters; a position c counts from 0 and means "before character c",   *)
(* as cs does; c = Len(l) is the end.  Each operator gives the position     *)
(* cs has after the command, n being zmult.                                 *)
(***************************************************************************)
EXTENDS Integers, Sequences, FiniteSetsExt

NL == "\n"
Blank == {" ", "\t"}
Lower == {"a", "b"}
Upper == {"A", "B"}
Brackets == {"(", ")"}

\* The classes of utils.c's typtab: identifiers, words (identifiers and
\* WORDCHARS), blanks.
iident(ch) == ch \in Lower \union Upper
iword(ch) == iident(ch) \/ ch \in {"-", "#"} \union Brackets
iblank(ch) == ch \in Blank

tuupper(ch) == CASE ch = "a" -> "A" [] ch = "b" -> "B" [] OTHER -> ch
tulower(ch) == CASE ch = "A" -> "a" [] ch = "B" -> "b" [] OTHER -> ch

Ch(l, i) == l[i + 1]                           \* line[i]

\* What a read of line[i] finds: behind the end it is whatever is there.
ChOr(l, i, past) == IF i \in 0 .. Len(l) - 1 THEN Ch(l, i) ELSE past

\* while (cs != ll && P(line[cs])) cs++, and its mirror image.
SkipF(l, c, P(_)) == Min({j \in c .. Len(l) : j = Len(l) \/ ~P(Ch(l, j))})
SkipB(l, c, P(_)) == Max({j \in 0 .. c : j = 0 \/ ~P(Ch(l, j - 1))})

\* n repetitions of a step; a negative count repeats the other one.
Times(n, F(_), c) ==
    LET f[k \in 0 .. (IF n < 0 THEN 0 ELSE n)] == IF k = 0 THEN c ELSE F(f[k - 1])
    IN  f[IF n < 0 THEN 0 ELSE n]

Signed(n, F(_), B(_), c) == IF n < 0 THEN Times(-n, B, c) ELSE Times(n, F, c)

Clip(lo, hi, c) == Max({lo, Min({hi, c})})

---------------------------------------------------------------------------
(* Lines. *)

NotNl(ch) == ch # NL

findbol(l, c) == SkipB(l, c, NotNl)
findeol(l, c) == SkipF(l, c, NotNl)

BolStep(l, c) ==
    IF c = 0 THEN 0
    ELSE SkipB(l, IF Ch(l, c - 1) = NL THEN c - 1 ELSE c, NotNl)

EolStep(l, c) ==
    IF c >= Len(l) THEN Len(l)
    ELSE SkipF(l, IF Ch(l, c) = NL THEN c + 1 ELSE c, NotNl)

beginningofline(l, c, n) ==
    Signed(n, LAMBDA x : BolStep(l, x), LAMBDA x : EolStep(l, x), c)

endofline(l, c, n) ==
    Signed(n, LAMBDA x : EolStep(l, x), LAMBDA x : BolStep(l, x), c)

\* The -hist forms count what is left when the text ends: pairs <<cs, zmult>>.
beginningoflinehist(l, c, n) ==
    Times(n, LAMBDA x : IF x[1] = 0 THEN x
                        ELSE IF x[1] = 1 /\ Ch(l, 0) = NL THEN <<0, x[2]>>
                        ELSE <<BolStep(l, x[1]), x[2] - 1>>, <<c, n>>)

endoflinehist(l, c, n) ==
    Times(n, LAMBDA x : IF x[1] >= Len(l) THEN <<Len(l), x[2]>>
                        ELSE IF x[1] = Len(l) - 1 /\ Ch(l, x[1]) = NL THEN <<Len(l), x[2]>>
                        ELSE <<EolStep(l, x[1]), x[2] - 1>>, <<c, n>>)

forwardchar(l, c, n) == Clip(0, Len(l), c + n)
backwardchar(l, c, n) == Clip(0, Len(l), c - n)

vigotocolumn(l, c, n) ==
    LET x == findbol(l, c)
        y == findeol(l, c)
        m == IF n > 0 THEN n - 1 ELSE n
    IN  Clip(x, y, IF m >= 0 THEN x + m ELSE y + m)

vifirstnonblank(l, c) == SkipF(l, findbol(l, c), iblank)

\* Not past the last character of the line in command mode (alt).
viforwardchar(l, c, n, alt) ==
    LET lim == findeol(l, c) - (IF alt THEN 1 ELSE 0)
    IN  IF n < 0 THEN Max({findbol(l, c), c + n})
        ELSE IF c >= lim THEN c ELSE Min({lim, c + n})

vibackwardchar(l, c, n, alt) ==
    IF n < 0 THEN viforwardchar(l, c, -n, alt)
    ELSE Max({findbol(l, c), c - n})

\* The end of the n-th line from here; nowhere when there are fewer.
viendofline(l, c, n) ==
    LET d == Times(n, LAMBDA x : IF x > Len(l) THEN x ELSE findeol(l, x) + 1, c)
        few == n > 1 /\ Times(n - 1, LAMBDA x : IF x > Len(l) THEN x
                                                ELSE findeol(l, x) + 1, c) > Len(l)
    IN  IF n < 1 \/ few THEN c ELSE d - 1

---------------------------------------------------------------------------
(* Words.  wf is wordflag: the change command stops at the end of the word. *)

NotWord(ch) == ~iword(ch)
Punct(ch) == ~iident(ch) /\ ~iblank(ch)
NotBlank(ch) == ~iblank(ch)
Space(ch) == iblank(ch) \/ ch = NL

\* n words, each a run (First) and what separates it from the next (Second).
WordsF(l, c, n, wf, First(_), Second(_)) ==
    IF n = 0 THEN c
    ELSE LET d == Times(n - 1, LAMBDA x : Second(First(x)), c)
         IN  IF wf THEN First(d) ELSE Second(First(d))

backwardwordN(l, c, n) ==
    Times(n, LAMBDA x : SkipB(l, SkipB(l, x, NotWord), iword), c)

forwardword(l, c, n, wf) ==
    IF n < 0 THEN backwardwordN(l, c, -n)
    ELSE WordsF(l, c, n, wf, LAMBDA x : SkipF(l, x, iword),
                             LAMBDA x : SkipF(l, x, NotWord))

backwardword(l, c, n, wf) ==
    IF n < 0 THEN forwardword(l, c, -n, wf) ELSE backwardwordN(l, c, n)

emacsforwardword(l, c, n, wf) ==
    IF n < 0 THEN backwardwordN(l, c, -n)
    ELSE WordsF(l, c, n, wf, LAMBDA x : SkipF(l, x, NotWord),
                             LAMBDA x : SkipF(l, x, iword))

emacsbackwardword(l, c, n, wf) ==
    IF n < 0 THEN emacsforwardword(l, c, -n, wf) ELSE backwardwordN(l, c, n)

viforwardword(l, c, n, wf) ==
    IF n < 0 THEN backwardwordN(l, c, -n)
    ELSE WordsF(l, c, n, wf,
                LAMBDA x : IF x < Len(l) /\ iident(Ch(l, x)) THEN SkipF(l, x, iident)
                           ELSE SkipF(l, x, Punct),
                LAMBDA x : SkipF(l, x, Space))

vibackwardblankwordN(l, c, n) ==
    Times(n, LAMBDA x : SkipB(l, SkipB(l, x, iblank), NotBlank), c)

viforwardblankword(l, c, n, wf) ==
    IF n < 0 THEN vibackwardblankwordN(l, c, -n)
    ELSE WordsF(l, c, n, wf, LAMBDA x : SkipF(l, x, NotBlank),
                             LAMBDA x : SkipF(l, x, iblank))

vibackwardblankword(l, c, n, wf) ==
    IF n < 0 THEN viforwardblankword(l, c, -n, wf) ELSE vibackwardblankwordN(l, c, n)

\* With a negative count the code turns the sign and then goes backward all
\* the same.
ViWordBack(l, x) ==
    LET d == SkipB(l, x, iblank)
    IN  IF d > 0 /\ iident(Ch(l, d - 1)) THEN SkipB(l, d, iident) ELSE SkipB(l, d, Punct)

vibackwardword(l, c, n) ==
    IF n < 0 THEN backwardwordN(l, c, -n) ELSE Times(n, LAMBDA x : ViWordBack(l, x), c)

\* The -end motions look at the character after the cursor; from the last
\* one that is line[ll], which is not part of the line (past).  rf is
\* virangeflag: a range includes the last character.
SkipAhead(l, c, past, P(_)) ==
    Min({j \in c .. Len(l) : j = Len(l) \/ ~P(ChOr(l, j + 1, past))})

viforwardblankwordend(l, c, n, rf, past) ==
    LET d == Times(n, LAMBDA x : SkipAhead(l, SkipAhead(l, x, past, iblank), past, NotBlank), c)
    IN  IF n < 0 THEN c ELSE IF d # Len(l) /\ rf THEN d + 1 ELSE d

viforwardwordend(l, c, n, rf, past) ==
    LET Step(x) == LET b == SkipAhead(l, x, past, iblank)
                   IN  IF iident(ChOr(l, b + 1, past)) THEN SkipAhead(l, b, past, iident)
                       ELSE SkipAhead(l, b, past, Punct)
        d == Times(n, Step, c)
    IN  IF n < 0 THEN backwardwordN(l, c, -n) ELSE IF d # Len(l) /\ rf THEN d + 1 ELSE d

---------------------------------------------------------------------------
(* Searches within the line. *)

\* Results <<cs, virangeflag, found>>: going backward turns virangeflag, going
\* forward includes the bracket.
vimatchbracket(l, c, rf) ==
    LET e == findeol(l, c)
        b == Min({j \in c .. e : j = e \/ Ch(l, j) \in Brackets})
        me == Ch(l, b)
        oth == IF me = "(" THEN ")" ELSE "("
        Depth(j) == Cardinality({k \in Min({b, j}) .. Max({b, j}) : Ch(l, k) = me})
                    - Cardinality({k \in Min({b, j}) .. Max({b, j}) : Ch(l, k) = oth})
        hits == {j \in (IF me = "(" THEN b + 1 .. Len(l) - 1 ELSE 0 .. b - 1) :
                    Ch(l, j) = oth /\ Depth(j) = 0}
    IN  IF b = e THEN <<c, rf, FALSE>>
        ELSE LET r == IF me = ")" THEN -rf ELSE rf
             IN  IF hits = {} THEN <<c, r, FALSE>>
                 ELSE IF me = "(" THEN <<Min(hits) + (IF r # 0 THEN 1 ELSE 0), r, TRUE>>
                 ELSE <<Max(hits), r, TRUE>>

\* The n-th ch in direction dir, in this line of the buffer; tailadd is the
\* correction of the "skip" forms.  The position is c when there is none.
FindStep(l, c, ch, dir) ==
    LET stops == {j \in (IF dir = 1 THEN c + 1 .. Len(l) - 1 ELSE 0 .. c - 1) :
                     Ch(l, j) \in {ch, NL}}
        j == IF dir = 1 THEN Min(stops) ELSE Max(stops)
    IN  IF c = -1 \/ stops = {} \/ Ch(l, j) = NL THEN -1 ELSE j

virepeatfind(l, c, n, ch, dir, tailadd, rf) ==
    LET d == Times(n, LAMBDA x : IF x = -1 THEN -1 ELSE FindStep(l, x, ch, dir), c)
    IN  IF dir = 0 \/ d = -1 THEN c
        ELSE d + tailadd + (IF dir = 1 /\ rf # 0 THEN 1 ELSE 0)

---------------------------------------------------------------------------
(* Commands that change characters in place: pairs <<line, cs>>. *)

Put(l, i, ch) == [l EXCEPT ![i + 1] = ch]

\* Apply F to the word characters of the next n words; F gets the offset
\* within the word.
WordStep(l, c, F(_, _)) ==
    LET b == SkipF(l, c, NotWord)
        e == SkipF(l, b, iword)
    IN  <<[k \in 1 .. Len(l) |-> IF k - 1 \in b .. e - 1 THEN F(l[k], k - 1 - b) ELSE l[k]], e>>

CaseWords(l, c, n, Step(_)) ==
    LET r == Times(IF n < 0 THEN -n ELSE n, Step, <<l, c>>)
    IN  <<r[1], IF n < 0 THEN c ELSE r[2]>>

upcaseword(l, c, n) ==
    CaseWords(l, c, n, LAMBDA x : WordStep(x[1], x[2], LAMBDA ch, k : tuupper(ch)))
downcaseword(l, c, n) ==
    CaseWords(l, c, n, LAMBDA x : WordStep(x[1], x[2], LAMBDA ch, k : tulower(ch)))

\* The first letter of the word is the first alphabetic one.
capitalizeword(l, c, n) ==
    LET Step(x) ==
            LET b == SkipF(x[1], x[2], NotWord)
                f == SkipF(x[1], b, LAMBDA ch : iword(ch) /\ ~iident(ch))
            IN  WordStep(x[1], x[2], LAMBDA ch, k : IF b + k < f THEN ch
                                                    ELSE IF b + k = f THEN tuupper(ch)
                                                    ELSE tulower(ch))
    IN  CaseWords(l, c, n, Step)

Swap(l, i, j) == [l EXCEPT ![i + 1] = l[j + 1], ![j + 1] = l[i + 1]]

gosmacstransposechars(l, c) ==
    LET IsNl(i) == Ch(l, i) = NL
        AtBol(i) == i = 0 \/ IsNl(i - 1)
        AtEol(i) == i = Len(l) \/ IsNl(i)
        early == c < 2 \/ IsNl(c - 1) \/ IsNl(c - 2)
        d == IF early THEN c + (IF AtBol(c) THEN 2 ELSE 1) ELSE c
    IN  IF early /\ (AtEol(c) \/ (AtEol(c + 1) /\ AtBol(c))) THEN <<l, c>>
        ELSE <<Swap(l, d - 2, d - 1), d>>

\* One transposition; ok becomes FALSE where the command gives up.
TransposeStep(x, neg) ==
    LET l == x.l
        c == x.c
        AtBol(i) == i = 0 \/ Ch(l, i - 1) = NL
        AtEol(i) == i = Len(l) \/ Ch(l, i) = NL
        c1 == IF AtBol(c) /\ ~neg THEN c + 1 ELSE c
        t1 == IF AtBol(c) THEN c + 1 ELSE c
        back == neg /\ ~AtBol(c1)
        c2 == IF back THEN c1 - 1 ELSE IF ~neg /\ ~AtEol(c1) THEN c1 + 1 ELSE c1
        t2 == IF back /\ t1 > 1 /\ Ch(l, t1 - 2) # NL THEN t1 - 1 ELSE t1
        t3 == IF AtEol(t2) THEN t2 - 1 ELSE t2
    IN  IF ~x.ok \/ (AtBol(c) /\ AtEol(c)) THEN [x EXCEPT !.ok = FALSE]
        ELSE IF AtBol(t3) THEN [l |-> l, c |-> c2, ok |-> FALSE]
        ELSE [l |-> Swap(l, t3 - 1, t3), c |-> c2, ok |-> TRUE]

transposechars(l, c, n) ==
    LET r == Times(IF n < 0 THEN -n ELSE n, LAMBDA x : TransposeStep(x, n < 0),
                   [l |-> l, c |-> c, ok |-> TRUE])
    IN  <<r.l, r.c>>

\* The word at or after x (or, at the end of the line, before) changes places
\* with the one before it.
TransposeWordsStep(r, past) ==
    LET l == r.l
        Stop(i) == i = Len(l) \/ Ch(l, i) = NL
        f == Min({j \in r.x .. Len(l) : Stop(j) \/ iword(Ch(l, j))})
        b == Max({j \in 0 .. r.c : j = 0 \/ Ch(l, j - 1) = NL
                                   \/ iword(ChOr(l, j, past))})
        x == IF Stop(f) THEN b ELSE f
        p4 == SkipF(l, x, iword)
        p3 == SkipB(l, p4, iword)
        p2 == SkipB(l, p3, NotWord)
        p1 == SkipB(l, p2, iword)
        Sub(i, j) == SubSeq(l, i + 1, j)
    IN  IF ~r.ok \/ (Stop(f) /\ (x = 0 \/ Ch(l, x - 1) = NL)) \/ p3 = 0 \/ p2 = 0
        THEN [r EXCEPT !.ok = FALSE]
        ELSE [l |-> Sub(0, p1) \o Sub(p3, p4) \o Sub(p2, p3) \o Sub(p1, p2)
                    \o Sub(p4, Len(l)),
              x |-> x, c |-> p4, ok |-> TRUE]

\* A failure within leaves cs where it got to, also with a negative count.
transposewords(l, c, n, past) ==
    LET r == Times(IF n < 0 THEN -n ELSE n, LAMBDA x : TransposeWordsStep(x, past),
                   [l |-> l, x |-> c, c |-> c, ok |-> TRUE])
    IN  <<r.l, IF n < 0 /\ r.ok THEN c ELSE r.c>>

\* vi's ~ on one character.
swapcase(ch) == IF ch \in Lower THEN tuupper(ch) ELSE tulower(ch)
============================================================================
