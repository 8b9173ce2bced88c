----------------------------- MODULE Dictionary -----------------------------
(* What the comments of hashtable.c promise of a table: at most one entry   *)
(* for each name, the last one added, which can be disabled and enabled,    *)
(* found by its name, and taken out.                                        *)
EXTENDS FiniteSets

CONSTANTS Names, Values

VARIABLES dict,     \* the entries
          asked,    \* the last operation, and its arguments
          got       \* what it answered: {} is NULL

Entry == [nam : Names, val : Values, disabled : BOOLEAN]

Of(n) == {e \in dict : e.nam = n}

Init == dict = {} /\ asked = <<"Empty">> /\ got = {}

Add(e) == dict' = (dict \ Of(e.nam)) \cup {e} /\ asked' = <<"Add", e>> /\ got' = {}

Get(n)  == asked' = <<"Get", n>> /\ got' = {e \in Of(n) : ~e.disabled} /\ UNCHANGED dict
Get2(n) == asked' = <<"Get2", n>> /\ got' = Of(n) /\ UNCHANGED dict

Delete(n) == asked' = <<"Delete", n>> /\ got' = Of(n) /\ dict' = dict \ Of(n)

\* Every entry with a name of S becomes disabled or enabled, and is answered.
Mark(S, off) ==
  /\ asked' = <<"Mark", S, off>>
  /\ dict' = {IF e.nam \in S THEN [e EXCEPT !.disabled = off] ELSE e : e \in dict}
  /\ got' = {e \in dict' : e.nam \in S}

\* The entries that are disabled, or those that are not.
List(off) ==
  asked' = <<"List", off>> /\ got' = {e \in dict : e.disabled = off} /\ UNCHANGED dict

Empty == dict' = {} /\ asked' = <<"Empty">> /\ got' = {}

Next == \/ Empty
        \/ \E e \in Entry : Add(e)
        \/ \E n \in Names : Get(n) \/ Get2(n) \/ Delete(n)
        \/ \E S \in SUBSET Names, off \in BOOLEAN : Mark(S, off)
        \/ \E off \in BOOLEAN : List(off)

Spec == Init /\ [][Next]_<<dict, asked, got>>
=============================================================================
