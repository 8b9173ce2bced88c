---------------------------- MODULE PatternLang ----------------------------
(***************************************************************************)
(* What the section FILENAME GENERATION of zshexpn(1) says of patterns: the *)
(* relation between the places where a match may begin and end.             *)
(***************************************************************************)
EXTENDS Pattern

Places(w) == 1..Len(w) + 1
Anything(w) == {x \in Places(w) \X Places(w) : x[1] <= x[2]}
Nothing(w) == {<<k, k>> : k \in Places(w)}
Compose(R, S) == UNION {{<<x[1], y[2]>> : y \in {y \in S : y[1] = x[2]}} : x \in R}

\* One or more times: more often than there are places adds nothing.
Repeated(w, R) == FoldLeft(LAMBDA S, k : S \union Compose(S, R), R, [k \in Places(w) |-> k])

\* The members of [...] at places a..z of the pattern.
Members(pat, a, z) ==
    {c \in Range(Order) :
        \E k \in a..z : IF pat[k] = "-" /\ k > a /\ k < z
                        THEN Code(untok(pat[k - 1])) <= Code(c) /\ Code(c) <= Code(untok(pat[k + 1]))
                        ELSE c = untok(pat[k])}
Negates(pat, i) == Peek(pat, i + 1) \in {"^", "!", "Hat"}

\* The numbers <x-y> matches.
Numbers(pat, a, z) ==
    LET low == DigitsAt(pat, a)
        dash == \E k \in a..z : pat[k] = "-"
        high == DigitsAt(pat, a + Len(low) + 1)
    IN  {n \in 0..999 : /\ low # <<>> => n >= zstrtol(low)
                        /\ ~dash /\ low # <<>> => n = zstrtol(low)
                        /\ dash /\ high # <<>> => n <= zstrtol(high)}

RECURSIVE Alternatives(_, _, _), Sequel(_, _, _)

\* What begins at i: ok tells whether it is one, i is where it ends.
Item(pat, i, w) ==
    LET t == Peek(pat, i)
        Single(P(_)) == {<<k, k + 1>> : k \in {k \in DOMAIN w : P(w[k])}}
        NumbersIn(z) == {x \in Anything(w) :
                            /\ x[1] < x[2] /\ \A k \in x[1]..x[2]-1 : idigit(w[k])
                            /\ zstrtol(SubSeq(w, x[1], x[2] - 1)) \in Numbers(pat, i + 1, z - 1)}
    IN  CASE t = "Inpar" -> Given(Alternatives(pat, i + 1, w), LAMBDA in :
                [ok |-> in.ok /\ Peek(pat, in.i) = "Outpar", i |-> in.i + 1, rel |-> in.rel])
          [] t = "Star" -> [ok |-> TRUE, i |-> i + 1, rel |-> Anything(w)]
          [] t = "Quest" -> [ok |-> TRUE, i |-> i + 1, rel |-> Single(LAMBDA c : TRUE)]
          [] t = "Inbrack" -> Given(SetEnd(pat, i), LAMBDA z :
                [ok |-> z > 0, i |-> z + 1,
                 rel |-> IF Negates(pat, i) THEN Single(LAMBDA c : c \notin Members(pat, i + 2, z - 1))
                         ELSE Single(LAMBDA c : c \in Members(pat, i + 1, z - 1))])
          [] t = "Inang" -> Given(NumberEnd(pat, i), LAMBDA z :
                [ok |-> z > 0, i |-> z + 1, rel |-> NumbersIn(z)])
          [] OTHER -> [ok |-> TRUE, i |-> i + 1, rel |-> Single(LAMBDA c : c = untok(t))]

Often(w, hash, R) ==
    CASE hash = 0 -> R [] hash = 1 -> Nothing(w) \union Repeated(w, R) [] hash = 2 -> Repeated(w, R)

\* A sequence of items; ^ takes all the rest of it.
Sequel(pat, i, w) ==
    IF EndsComp(pat, i) THEN [ok |-> TRUE, i |-> i, rel |-> Nothing(w)]
    ELSE IF EXTENDEDGLOB /\ pat[i] = "Hat" THEN [Sequel(pat, i + 1, w) EXCEPT !.rel = Anything(w) \ @]
    ELSE Given(Item(pat, i, w), LAMBDA item :
         Given(Pounds(pat, item.i), LAMBDA hash :
             IF (EXTENDEDGLOB /\ pat[i] = "Pound") \/ ~item.ok THEN [ok |-> FALSE, i |-> i, rel |-> {}]
             ELSE [Sequel(pat, item.i + hash, w) EXCEPT !.rel = Compose(Often(w, hash, item.rel), @)]))

\* x|y, where x may be x~z.
Alternatives(pat, i, w) ==
    Given(Sequel(pat, i, w), LAMBDA x :
    Given(IF x.ok /\ EXTENDEDGLOB /\ Peek(pat, x.i) = "Tilde"
          THEN [Sequel(pat, x.i + 1, w) EXCEPT !.rel = x.rel \ @] ELSE x, LAMBDA first :
        IF first.ok /\ Peek(pat, first.i) = "Bar"
        THEN [Alternatives(pat, first.i + 1, w) EXCEPT !.rel = first.rel \union @]
        ELSE first))

\* What matches pattern pat in w, and whether pat is a pattern.
Meaning(pat, w) ==
    Given(Alternatives(pat, 1, w), LAMBDA r : [r EXCEPT !.ok = @ /\ r.i = Len(pat) + 1])

---------------------------------------------------------------------------
(* Patterns that the matcher takes otherwise.                               *)

\* Every parenthesis is closed and none is closed that is not open.
Balanced(pat) ==
    /\ \A i \in DOMAIN pat : pat[i] = "Inpar" => skipparens(pat, i) > 0
    /\ \A i \in DOMAIN pat : Cardinality({k \in 1..i : pat[k] = "Outpar"})
                               <= Cardinality({k \in 1..i : pat[k] = "Inpar"})

\* The groups of pat, as the places of their parentheses.
Groups(pat) == {<<i, skipparens(pat, i) - 1>> : i \in {i \in DOMAIN pat : pat[i] = "Inpar"}}
Inside(pat, g) == {pat[k] : k \in g[1]+1..g[2]-1}

\* A closure takes the first way through its group only, and for ever when that
\* is empty; a negation or an exclusion in a group takes what follows the group
\* with it; a number takes all the digits; a second
\* exclusion is ignored; a star cannot be repeated.
Unusual(pat) ==
    \/ \E g \in Groups(pat) :
        \/ /\ Pounds(pat, g[2] + 1) > 0
           /\ (Inside(pat, g) \cap {"Bar", "Star", "Pound", "Tilde", "Hat", "Inang"} # {} \/ g[2] = g[1] + 1)
        \/ /\ Peek(pat, g[2] + 1) \notin {"", "Bar", "Outpar"}
           /\ Inside(pat, g) \cap {"Hat", "Tilde"} # {}
    \/ \E i \in DOMAIN pat : /\ pat[i] = "Inang" /\ NumberEnd(pat, i) > 0
                             /\ Peek(pat, NumberEnd(pat, i) + 1) \notin {"", "a", "b", "Bar", "Outpar"}
    \/ \E i \in DOMAIN pat : pat[i] = "Star" /\ Pounds(pat, i + 1) > 0
    \/ Cardinality({i \in DOMAIN pat : pat[i] = "Tilde"}) > 1
=============================================================================
