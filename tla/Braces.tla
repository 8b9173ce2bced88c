------------------------------- MODULE Braces -------------------------------
(***************************************************************************)
(* Brace expansion of glob.c: hasbraces() finds out whether a word has one  *)
(* to expand and makes characters of the braces that are none, xpandbraces()*)
(* expands the first, and prefork() does both until there is none.          *)
(* A word is a sequence of characters and of the tokens "Inbrace",          *)
(* "Outbrace" and "Comma".                                                  *)
(***************************************************************************)
EXTENDS Lib, SequencesExt, FiniteSetsExt, TLC

Decimals == <<"0", "1", "2", "3", "4", "5", "6", "7", "8", "9">>
idigit(c) == c \in Range(Decimals)
DigitOf(c) == CHOOSE d \in 0..9 : Decimals[d + 1] = c
Alphabet == <<",", "-", ".", "0", "1", "2", "3", "a", "b", "c", "d", "{", "}">>
Ordinal(c) == CHOOSE i \in DOMAIN Alphabet : Alphabet[i] = c

Untoken == "Inbrace" :> "{" @@ "Outbrace" :> "}" @@ "Comma" :> ","
untok(t) == IF t \in DOMAIN Untoken THEN Untoken[t] ELSE t

\* The place behind the digits at i; the number they make.
PastDigits(s, i) == CHOOSE k \in i..Len(s)+1 : /\ \A x \in i..k-1 : idigit(s[x])
                                               /\ ~idigit(Peek(s, k))
NumberOf(ds) == FoldLeft(LAMBDA v, c : 10 * v + DigitOf(c), 0, ds)

\* skipparens(): the place behind the brace that closes the one at i, 0 when none does.
Closing(s, i) ==
    LET Level(k) == Cardinality({x \in i..k : s[x] = "Inbrace"}) - Cardinality({x \in i..k : s[x] = "Outbrace"})
        closed == {k \in i..Len(s) : Level(k) = 0}
    IN  IF closed = {} THEN 0 ELSE Min(closed) + 1

No(s) == [yes |-> FALSE, str |-> s]
Yes(s) == [yes |-> TRUE, str |-> s]

\* Where the search goes on when a brace was none: at the first that may be one.
Back_Comma(s, mbr, comma) == IF comma > 0 THEN comma ELSE IF mbr > 0 THEN mbr ELSE Len(s) + 1
Back(s, mbr, comma) == Min({Len(s) + 1} \union ({comma, mbr} \ {0}))

RECURSIVE Scan(_, _, _, _, _), ScanClass(_, _, _)

\* hasbraces() from place i: lbr is the brace that is open, mbr the first one inside
\* it, comma the first comma, 0 for none.
Scan(s, i, lbr, mbr, comma) ==
    LET t == Peek(s, i)
        dots == PastDigits(s, i + 1)
        end == PastDigits(s, dots + 2)
        range == Peek(s, dots) = "." /\ Peek(s, dots + 1) = "."
    IN  CASE t = "Inbrace" /\ lbr = 0 ->
                IF range /\ Peek(s, end) = "Outbrace" /\ (idigit(Peek(s, i + 1)) \/ idigit(s[end - 1]))
                THEN Yes(s)
                ELSE Scan(s, IF range THEN end ELSE dots, i, mbr, comma)
          [] t = "Inbrace" /\ Closing(s, i) = 0 ->
                Scan([s EXCEPT ![lbr] = "{", ![i] = "{"], Back(s, mbr, comma), 0, 0, 0)
          [] t = "Inbrace" -> Scan(s, Closing(s, i), lbr, IF mbr = 0 THEN i ELSE mbr, comma)
          [] t = "Outbrace" /\ lbr = 0 -> Scan([s EXCEPT ![i] = "}"], i + 1, lbr, mbr, comma)
          [] t = "Outbrace" /\ comma > 0 -> Yes(s)
          [] t = "Outbrace" -> Scan([s EXCEPT ![lbr] = "{", ![i] = "}"], IF mbr > 0 THEN mbr ELSE i + 1, 0, 0, comma)
          [] t = "Comma" -> IF lbr = 0 THEN Scan([s EXCEPT ![i] = ","], i + 1, lbr, mbr, comma)
                            ELSE Scan(s, i + 1, lbr, mbr, IF comma = 0 THEN i ELSE comma)
          [] t = "" ->
                Given(IF lbr > 0 THEN [s EXCEPT ![lbr] = "{"] ELSE s, LAMBDA s2 :
                    IF mbr = 0 /\ comma = 0 THEN No(s2) ELSE Scan(s2, Back(s, mbr, comma), 0, 0, 0))
          [] OTHER -> Scan(s, i + 1, lbr, mbr, comma)

\* The same with BRACECCL: every closed brace will do.
ScanClass(s, i, bc) ==
    LET t == Peek(s, i)
    IN  CASE t = "" -> No(s)
          [] t = "Inbrace" /\ bc = 0 /\ Peek(s, i + 1) = "Outbrace" ->
                ScanClass([s EXCEPT ![i] = "{", ![i + 1] = "}"], i + 2, bc)
          [] t = "Inbrace" -> ScanClass(s, i + 1, bc + 1)
          [] t = "Outbrace" /\ bc = 0 -> ScanClass([s EXCEPT ![i] = "}"], i + 1, bc)
          [] t = "Outbrace" /\ bc = 1 -> Yes(s)
          [] t = "Outbrace" -> ScanClass(s, i + 1, bc - 1)
          [] OTHER -> ScanClass(s, i + 1, bc)

hasbraces(s, BRACECCL) == IF BRACECCL THEN ScanClass(s, 1, 0) ELSE Scan(s, 1, 0, 0, 0)

\* %0*d
Padded(n, width) ==
    Given(Max({width, CHOOSE d \in 1..9 : 10 ^ d > n /\ (d = 1 \/ 10 ^ (d - 1) <= n)}), LAMBDA d :
        [k \in 1..d |-> Decimals[((n \div 10 ^ (d - k)) % 10) + 1]])

\* {x..y}: the smaller width unless there is a zero before a number.
Numbers(from, to) ==
    LET a == NumberOf(from)
        z == NumberOf(to)
        minw == IF from[1] = "0" THEN Len(from)
                ELSE IF to[1] = "0" THEN Len(to) ELSE Min({Len(from), Len(to)})
    IN  IF a <= z THEN [k \in 1..z-a+1 |-> Padded(a + k - 1, minw)]
        ELSE [k \in 1..a-z+1 |-> Padded(a - k + 1, minw)]

\* {a-mnop}: the characters in their order; a range takes its first end from what is
\* before it, once.
Class(inner) ==
    LET Step(acc, k) ==
            LET c1 == untok(inner[k])
            IN  IF c1 = "-" /\ acc.last > 0 /\ k < Len(inner) /\ acc.last <= Ordinal(untok(inner[k + 1]))
                THEN [in |-> acc.in \union acc.last..Ordinal(untok(inner[k + 1]))-1, last |-> 0]
                ELSE [in |-> acc.in \union {Ordinal(c1)}, last |-> Ordinal(c1)]
    IN  Given(FoldLeft(Step, [in |-> {}, last |-> 0], [k \in DOMAIN inner |-> k]).in, LAMBDA in :
            Given(SelectSeq(Alphabet, LAMBDA c : Ordinal(c) \in in), LAMBDA cs : [k \in DOMAIN cs |-> <<cs[k]>>]))

\* The alternatives between the braces at open and close.
Alternatives(s, open, close) ==
    LET Level(k) == Cardinality({x \in open..k : s[x] = "Inbrace"}) - Cardinality({x \in open..k : s[x] = "Outbrace"})
        ends == {open, close} \union {k \in open..close : s[k] = "Comma" /\ Level(k) = 1}
        at == SelectSeq([k \in DOMAIN s |-> k], LAMBDA k : k \in ends)
    IN  [k \in 1..Len(at)-1 |-> SubSeq(s, at[k] + 1, at[k + 1] - 1)]

\* xpandbraces(): the words that the first brace makes of the word.
xpandbraces(s, BRACECCL) ==
    LET open == Min({i \in DOMAIN s : s[i] = "Inbrace"})
        close == Closing(s, open) - 1
        inner == SubSeq(s, open + 1, close - 1)
        from == SubSeq(s, open + 1, PastDigits(s, open + 1) - 1)
        to == SubSeq(s, open + Len(from) + 3, close - 1)
        comma == Len(Alternatives(s, open, close)) > 1
        range == /\ ~comma /\ from # <<>> /\ to # <<>> /\ \A k \in DOMAIN to : idigit(to[k])
                 /\ Peek(inner, Len(from) + 1) = "." /\ Peek(inner, Len(from) + 2) = "."
        Around(x) == SubSeq(s, 1, open - 1) \o x \o From(s, close + 1)
        Each(seq) == [k \in DOMAIN seq |-> Around(seq[k])]
    IN  Each(IF range THEN Numbers(from, to)
             ELSE IF ~comma /\ BRACECCL THEN Class(inner) ELSE Alternatives(s, open, close))

RECURSIVE Words(_, _)

\* What prefork() makes of a word: each of the words is looked at again.
Words(s, BRACECCL) ==
    Given(hasbraces(s, BRACECCL), LAMBDA h :
        IF ~h.yes THEN <<[k \in DOMAIN s |-> untok(h.str[k])]>>
        ELSE FoldLeft(LAMBDA acc, w : acc \o Words(w, BRACECCL), <<>>, xpandbraces(h.str, BRACECCL)))

---------------------------------------------------------------------------
(* What zshexpn(1) says of brace expansion.                                 *)

\* Two dots between numbers in the group from i to j.
IsRange(s, i, j) ==
    \E k \in i+1..j-2 : /\ s[k] = "." /\ s[k + 1] = "." /\ k > i + 1 /\ k < j - 2
                        /\ \A x \in (i+1..j-1) \ {k, k + 1} : idigit(s[x])
HasComma(s, i, j) ==
    \E k \in i+1..j-1 : s[k] = "Comma" /\ \A o \in i+1..k : s[o] = "Inbrace" => Closing(s, o) \in 1..k
Balanced(s) == \A i \in DOMAIN s : s[i] = "Inbrace" => Closing(s, i) > 0

\* Behind two braces that nothing closes the rest of the word is not looked at;
\* a range with one of its numbers only loses its braces.
Unusual(s) ==
    \/ Cardinality({i \in DOMAIN s : s[i] = "Inbrace" /\ Closing(s, i) = 0}) > 1
    \/ \E i \in DOMAIN s : \E j \in i+4..Len(s) :
          /\ s[i] = "Inbrace" /\ s[j] = "Outbrace"
          /\ \E k \in {i + 1, j - 2} : s[k] = "." /\ s[k + 1] = "." /\ \A x \in (i+1..j-1) \ {k, k + 1} : idigit(s[x])

\* The groups that are expanded.
Groups(s, BRACECCL) ==
    {i \in {i \in DOMAIN s : s[i] = "Inbrace" /\ Closing(s, i) > 0} :
        Given(Closing(s, i) - 1, LAMBDA j : HasComma(s, i, j) \/ IsRange(s, i, j) \/ (BRACECCL /\ j > i + 1))}

RECURSIVE Meaning(_, _)

\* The first group; what is before it with each word of each alternative in turn,
\* with each word of what follows it.
Meaning(s, BRACECCL) ==
    Given(Groups(s, BRACECCL), LAMBDA groups :
        IF groups = {} THEN <<[k \in DOMAIN s |-> untok(s[k])]>>
        ELSE LET i == Min(groups)
                 j == Closing(s, i) - 1
                 before == [k \in 1..i-1 |-> untok(s[k])]
                 dots == Min({k \in i..j : s[k] = "." /\ IsRange(s, i, j)} \union {j})
                 parts == IF HasComma(s, i, j) THEN FlattenSeq([k \in DOMAIN Alternatives(s, i, j) |->
                                                          Meaning(Alternatives(s, i, j)[k], BRACECCL)])
                          ELSE IF IsRange(s, i, j) THEN Numbers(SubSeq(s, i + 1, dots - 1), SubSeq(s, dots + 2, j - 1))
                          ELSE Class(SubSeq(s, i + 1, j - 1))
             IN  Given(Meaning(From(s, j + 1), BRACECCL), LAMBDA after :
                     FlattenSeq([x \in DOMAIN parts |-> [y \in DOMAIN after |-> before \o parts[x] \o after[y]]])))
============================================================================
