------------------------------ MODULE Pattern ------------------------------
(***************************************************************************)
(* The pattern matcher of glob.c: a pattern is compiled to a graph of       *)
(* components (parsereg()), which a recursive matcher walks (domatch()).    *)
(*                                                                         *)
(* A pattern is a sequence of characters and of the tokens the lexer or     *)
(* tokenize() made of the special ones; a string is one of characters.      *)
(* Positions are 1..Len+1.  File names (the flags for paths) are not here.  *)
(***************************************************************************)
EXTENDS Lib, SequencesExt, FiniteSetsExt, TLC

CONSTANT EXTENDEDGLOB        \* option

\* The tokens, and the characters they stand for.
ztokens == "Star" :> "*" @@ "Quest" :> "?" @@ "Hat" :> "^" @@ "Inpar" :> "(" @@ "Outpar" :> ")"
           @@ "Bar" :> "|" @@ "Pound" :> "#" @@ "Tilde" :> "~" @@ "Inbrack" :> "["
           @@ "Outbrack" :> "]" @@ "Inang" :> "<" @@ "Outang" :> ">"

itok(t) == t \in DOMAIN ztokens
untok(t) == IF itok(t) THEN ztokens[t] ELSE t

Digits == "0" :> 0 @@ "1" :> 1 @@ "2" :> 2 @@ "3" :> 3
idigit(c) == c \in DOMAIN Digits

Order == <<"!", "-", ".", "0", "1", "2", "3", "[", "]", "^", "a", "b", "c">>
Code(c) == CHOOSE i \in DOMAIN Order : Order[i] = c

\* The digits of s from i on, as a sequence; the value of such a sequence.
DigitsAt(s, i) ==
    LET n == CHOOSE n \in 0..Len(s) : /\ \A k \in 0..n-1 : idigit(Peek(s, i + k))
                                      /\ ~idigit(Peek(s, i + n))
    IN  SubSeq(s, i, i + n - 1)
zstrtol(ds) == FoldLeft(LAMBDA v, d : 10 * v + Digits[d], 0, ds)

---------------------------------------------------------------------------
(* Components.  next, left, right and exclude are <<>> or <<component>>.    *)

NoComp == [str |-> <<>>, next |-> <<>>, left |-> <<>>, right |-> <<>>, exclude |-> <<>>,
           hash |-> 0, last |-> FALSE]
Comp(str, next) == [NoComp EXCEPT !.str = str, !.next = next]

NoPattern == [c |-> <<>>, i |-> 0]

\* The place behind the parenthesis that closes the one at j, 0 when there is none.
skipparens(s, j) ==
    LET Depth(k) == Cardinality({i \in j..k : s[i] = "Inpar"})
                    - Cardinality({i \in j..k : s[i] = "Outpar"})
        closed == {k \in j..Len(s) : Depth(k) = 0}
    IN  IF closed = {} THEN 0 ELSE Min(closed) + 1

\* The place of the token that ends the set or the number begun at j, 0 when
\* there is none.
SetEnd(s, j) == LET ends == {k \in j+1..Len(s) : s[k] = "Outbrack"}
                IN  IF ends = {} THEN 0 ELSE Min(ends)
NumberEnd(s, j) ==
    LET ends == {k \in j+1..Len(s) : s[k] = "Outang"}
        inside == j+1..Min(ends)-1
    IN  IF \/ ends = {}
           \/ \E k \in inside : ~idigit(s[k]) /\ s[k] # "-"
           \/ Cardinality({k \in inside : s[k] = "-"}) > 1
        THEN 0 ELSE Min(ends)

\* What ends a component: the end, an alternative, an exclusion.
EndsComp(s, j) ==
    \/ Peek(s, j) \in {"", "Bar", "Outpar"}
    \/ /\ EXTENDEDGLOB /\ s[j] = "Tilde" /\ Peek(s, j + 1) \notin {"", "Outpar", "Bar"}

\* A star that stays a star because it is the last thing in the pattern; others
\* become closures of ?.
FinalStar(s, j) ==
    \/ j = Len(s)
    \/ EXTENDEDGLOB /\ s[j + 1] = "Tilde" /\ Peek(s, j + 2) \notin {"", "Bar", "Outpar"}

\* One # or two after place j.
Pounds(s, j) ==
    IF ~EXTENDEDGLOB \/ Peek(s, j) # "Pound" THEN 0 ELSE IF Peek(s, j + 1) = "Pound" THEN 2 ELSE 1

RECURSIVE Parsecomp(_, _, _, _, _, _), parsecompsw(_, _, _, _), Group(_, _, _, _, _)

\* parsecomp(): the component that begins at i; tail is what follows its group,
\* top tells that there is no group.
parsecomp(s, i, tail, top) == Parsecomp(s, i, i, 0, tail, top)

\* The rest of it from j on, ls being where the last element began.
Parsecomp(s, i, j, ls, tail, top) ==
    LET t == Peek(s, j)
        before == SubSeq(s, i, j - 1)
        Then(k, C(_)) == Given(parsecomp(s, k, tail, top), LAMBDA r :
                             IF r.c = <<>> THEN NoPattern ELSE [c |-> <<C(r.c)>>, i |-> r.i])
        Go(text, k) == Parsecomp(text, i, k + 1, j, tail, top)
    IN  IF EndsComp(s, j)
        THEN [c |-> <<[Comp(before, tail) EXCEPT !.last = t = "" \/ (t = "Tilde" /\ top)]>>, i |-> j]
        ELSE IF t = "Hat" /\ EXTENDEDGLOB
        THEN Then(j + 1, LAMBDA next : Comp(Append(before, t), next))
        ELSE IF t = "Star" /\ ~FinalStar(s, j)
        THEN Then(j + 1, LAMBDA next : Comp(before, <<[Comp(<<"Quest">>, next) EXCEPT !.hash = 1]>>))
        ELSE IF t = "Inpar" THEN Group(s, i, j, tail, top)
        ELSE IF t = "Pound" /\ EXTENDEDGLOB
        THEN LET again == SubSeq(s, ls, j - 1)
                 Loop(next) == <<[Comp(again, next) EXCEPT !.hash = 1]>>
             IN  IF ls = 0 THEN NoPattern
                 ELSE Then(j + Pounds(s, j), LAMBDA next :
                          Comp(SubSeq(s, i, ls - 1),
                               IF Pounds(s, j) = 2 THEN <<Comp(again, Loop(next))>> ELSE Loop(next)))
        ELSE IF t = "Inang" THEN IF NumberEnd(s, j) = 0 THEN NoPattern ELSE Go(s, NumberEnd(s, j))
        ELSE IF t = "Inbrack"
        THEN Given(SetEnd(s, j), LAMBDA k :
                 IF k = 0 THEN NoPattern
                 ELSE Go([x \in DOMAIN s |-> IF x \in j+1..k-1 THEN untok(s[x]) ELSE s[x]], k))
        ELSE IF t \in {"Star", "Quest"} THEN Go(s, j) ELSE Go([s EXCEPT ![j] = untok(t)], j)

\* The same when a group begins at j: what follows the group is compiled first
\* and is the tail of each alternative in it; but not when the group is repeated.
Group(s, i, j, tail, top) ==
    Given(skipparens(s, j), LAMBDA k :
    Given(Pounds(s, k), LAMBDA hash :
    Given(parsecomp(s, k + hash, tail, top), LAMBDA r :
    Given(parsecompsw(s, j + 1, IF hash > 0 THEN <<>> ELSE r.c, FALSE), LAMBDA in :
        IF k = 0 \/ r.c = <<>> \/ in.c = <<>> THEN NoPattern
        ELSE [c |-> <<Comp(SubSeq(s, i, j - 1),
                           <<[NoComp EXCEPT !.left = in.c, !.hash = hash,
                                            !.next = IF hash > 0 THEN r.c ELSE <<NoComp>>]>>)>>,
              i |-> r.i]))))

\* parsecompsw(): alternatives, the first of them with what it excludes.
parsecompsw(s, i, tail, top) ==
    Given(parsecomp(s, i, tail, top), LAMBDA c1 :
    Given(EXTENDEDGLOB /\ Peek(s, c1.i) = "Tilde", LAMBDA tilde :
    Given(IF tilde THEN parsecomp(s, c1.i + 1, tail, top) ELSE c1, LAMBDA excl :
        LET either == [NoComp EXCEPT !.left = c1.c, !.exclude = IF tilde THEN excl.c ELSE <<>>]
        IN  IF c1.c = <<>> \/ excl.c = <<>> THEN NoPattern
            ELSE IF Peek(s, excl.i) = "Bar"
            THEN Given(parsecompsw(s, excl.i + 1, tail, top), LAMBDA c3 :
                     IF c3.c = <<>> THEN NoPattern ELSE [c |-> <<[either EXCEPT !.right = c3.c]>>, i |-> c3.i])
            ELSE IF tilde
            THEN [c |-> <<[either EXCEPT !.last = Peek(s, excl.i) = ""]>>, i |-> excl.i]
            ELSE c1)))

\* <<>> when it is no pattern.
parsereg(s) == parsecompsw(s, 1, <<>>, TRUE).c

---------------------------------------------------------------------------
(* Matching.  A match gives whether it succeeded, the place reached and     *)
(* whether a leading dot is still special: pptr and first are left as they  *)
(* are when it fails, and a negation goes on from there.                    *)

Yes(p, first) == [ok |-> TRUE, p |-> p, first |-> first]
No(p, first) == [ok |-> FALSE, p |-> p, first |-> first]

\* [...]: whether character c is in the set whose members are m.
InSet(c, m) ==
    \E i \in DOMAIN m :
        IF m[i] = "-" /\ i > 1 /\ i < Len(m) THEN Code(m[i-1]) <= Code(c) /\ Code(c) <= Code(m[i+1])
        ELSE c = m[i]

Brackets(pat, w, p) ==
    LET end == SetEnd(pat, 1)
        negated == pat[2] \in {"^", "!"}
        members == SubSeq(pat, IF negated THEN 3 ELSE 2, end - 1)
    IN  [ok |-> p <= Len(w) /\ InSet(w[p], members) # negated, pat |-> SubSeq(pat, end + 1, Len(pat)),
         p |-> p + 1]

\* <x-y>: a number too large is tried without its last digits.
Number(pat, w, p) ==
    Given(NumberEnd(pat, 1), LAMBDA end :
    Given(SubSeq(pat, 2, end - 1), LAMBDA bounds :
    Given(DigitsAt(bounds, 1), LAMBDA lower :
    Given(DigitsAt(w, p), LAMBDA digits :
        LET t2 == zstrtol(lower)
            dash == Peek(bounds, Len(lower) + 1) = "-"
            not3 == dash /\ Len(bounds) = Len(lower) + 1
            t3 == IF dash /\ ~not3 THEN zstrtol(From(bounds, Len(lower) + 2)) ELSE t2
            Prefix(k) == zstrtol(SubSeq(digits, 1, k))
            any == bounds \in {<<>>, <<"-">>}
        IN  Given(IF any \/ not3 THEN Len(digits)
                  ELSE Max({1} \union {k \in DOMAIN digits : Prefix(k) <= t3}), LAMBDA used :
                [ok |-> any \/ (Prefix(used) >= t2 /\ (not3 \/ Prefix(used) <= t3)),
                 pat |-> From(pat, end + 1), p |-> p + used])))))

\* One element of a component against what is at p.
Element(pat, w, p) ==
    IF pat[1] = "Inbrack" THEN Brackets(pat, w, p)
    ELSE IF pat[1] = "Inang" /\ idigit(Peek(w, p)) THEN Number(pat, w, p)
    ELSE [ok |-> p <= Len(w) /\ pat[1] \in {"Quest", w[p]}, pat |-> Tail(pat), p |-> p + 1]

RECURSIVE doesmatch(_, _, _, _), Tailrec(_, _, _, _, _), Along(_, _, _, _, _, _)

doesmatch(c, w, p, first) == Tailrec(c, w, p, first, 0)

excluded(c, w, p) == c.exclude # <<>> /\ doesmatch(c.exclude[1], w, p, FALSE).ok

\* A closure tries what follows it before it takes one more.
Tailrec(c, w, p, first, done) ==
    IF c.hash = 0 \/ (c.hash = 2 /\ done = 0) THEN Along(c, c.str, w, p, first, done + 1)
    ELSE IF first /\ Peek(w, p) = "." THEN No(p, first)
    ELSE Given(doesmatch(c.next[1], w, p, first), LAMBDA after :
             IF after.ok THEN after ELSE Along(c, c.str, w, p, FALSE, done + 1))

\* The alternatives of a component whose own characters are matched.
Branches(c, w, p, first) ==
    IF c.left = <<>> THEN Yes(p, first)
    ELSE Given(doesmatch(c.left[1], w, p, first), LAMBDA l :
             IF l.ok /\ ~excluded(c, w, p) THEN l
             ELSE IF c.right = <<>> THEN No(l.p, l.first)
             ELSE doesmatch(c.right[1], w, p, first))

Along(c, pat, w, p, first, done) ==
    IF pat = <<>>
    THEN Given(Branches(c, w, p, first), LAMBDA b :
             IF ~b.ok THEN b
             ELSE IF b.p <= Len(w) /\ c.hash > 0 THEN Tailrec(c, w, b.p, b.first, done)
             ELSE IF c.next = <<>> THEN [b EXCEPT !.ok = ~c.last \/ b.p > Len(w)]
             ELSE Tailrec(c.next[1], w, b.p, b.first, 0))
    ELSE IF first /\ Peek(w, p) = "." /\ pat[1] # "." THEN No(p, first)
    ELSE IF pat[1] = "Star" THEN Yes(Len(w) + 1, first)
    ELSE IF pat[1] = "Hat"
    THEN [doesmatch(c.next[1], w, p, FALSE) EXCEPT !.ok = ~@]
    ELSE Given(Element(pat, w, p), LAMBDA e :
             IF e.ok THEN Along(c, e.pat, w, e.p, FALSE, done)
             ELSE No(IF pat[1] = "Inang" THEN e.p ELSE p, FALSE))

domatch(w, c, fist) == doesmatch(c, w, 1, fist).ok

\* matchpat(), whose pattern is compiled as one group; case and [[ report what is
\* no pattern.
Compiled(pat) == parsereg(<<"Inpar">> \o pat \o <<"Outpar">>)
matchpat(w, pat) == domatch(w, Compiled(pat)[1], FALSE)

---------------------------------------------------------------------------
(* The part of a parameter's value that a pattern takes away.               *)

\* get_match_ret(): what ${...} gives when the match goes from b to e.
get_match_ret(s, b, e, fl) ==
    LET Piece(f, x) == IF f \in fl THEN <<x>> ELSE <<>>
    IN  Piece("match", SubSeq(s, b + 1, e)) \o Piece("rest", SubSeq(s, 1, b) \o SubSeq(s, e + 1, Len(s)))
        \o Piece("begin", b + 1) \o Piece("end", e + 1) \o Piece("length", e - b)

\* The parts of n characters, from the side the search begins at.
Windows_FromTheLeft(l, n, how) == [k \in 1..l-n+1 |-> <<k - 1, k - 1 + n>>]
Windows(l, n, how) ==
    [k \in 1..l-n+1 |-> IF "end" \in how THEN <<l - n - k + 1, l - k + 1>> ELSE <<k - 1, k - 1 + n>>]

\* The parts of a string of l characters in the order in which getmatch() tries
\* them: how is a set of "end" (%), "longest" (doubled), "substring".
Tried(l, how) ==
    LET substrings == FlattenSeq([k \in 1..l |-> Windows(l, IF "longest" \in how THEN l - k + 1 ELSE k, how)])
    IN  CASE how = {} -> [k \in 1..l+1 |-> <<0, k - 1>>]
          [] how = {"end"} -> [k \in 1..l+1 |-> <<l - k + 1, l>>]
          [] how = {"longest"} -> [k \in 1..l |-> <<0, l - k + 1>>]
          [] how = {"end", "longest"} -> [k \in 1..l |-> <<k - 1, l>>]
          [] "longest" \in how -> Append(substrings, <<l, l>>)
          [] OTHER -> <<<<l, l>>>> \o substrings

\* getmatch(): the n-th part that pattern c matches; the substring searches that find the
\* empty match from the left give it at the start.
getmatch(s, c, how, fl, n) ==
    IF "all" \in fl THEN get_match_ret(s, 0, IF domatch(s, c, FALSE) THEN Len(s) ELSE 0, fl)
    ELSE Given(SelectSeq(Tried(Len(s), how), LAMBDA x : domatch(SubSeq(s, x[1] + 1, x[2]), c, FALSE)),
               LAMBDA hits :
                   IF Len(hits) < n \/ ("substring" \in how /\ "end" \notin how /\ hits[n][1] = hits[n][2])
                   THEN get_match_ret(s, 0, 0, fl)
                   ELSE get_match_ret(s, hits[n][1], hits[n][2], fl))
============================================================================
