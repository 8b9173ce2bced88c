-------------------------------- MODULE Lib --------------------------------
(* What the algorithms share.                                               *)
EXTENDS Integers, Sequences

\* F of v: v is computed once.
Given(v, F(_)) == F(v)

\* What is at place i, "" behind the end.
Peek(s, i) == IF i \in DOMAIN s THEN s[i] ELSE ""

\* The part of s from place i on.
From(s, i) == SubSeq(s, i, Len(s))

\* The table f with v for x, and without what is in S.
With(f, x, v) == [y \in DOMAIN f \union {x} |-> IF y = x THEN v ELSE f[y]]
But(f, S) == [x \in DOMAIN f \ S |-> f[x]]
============================================================================
