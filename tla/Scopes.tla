------------------------------- MODULE Scopes -------------------------------
(***************************************************************************)
(* What the manual promises of parameters in functions: a function may     *)
(* have parameters of its own, which hide those of its callers from it and *)
(* from what it calls, and are gone when it completes; an assignment in    *)
(* front of a call lasts as long as the call.  Nothing is said of chains   *)
(* of nodes, of levels or of lists of things to restore: Params, which has *)
(* them, implements this module.                                           *)
(***************************************************************************)
EXTENDS Integers, Sequences

CONSTANTS
  Names,     \* the names
  Locals,    \* those that functions can declare
  Values     \* what parameters can hold

VARIABLE scopes   \* one for the shell and one for each function called

None  == <<"none">>    \* the scope has no parameter of the name
Unset == <<"unset">>   \* it has one, which is not set

\* The scope in which name n is looked up.
ScopeOf(n) ==
  CHOOSE k \in DOMAIN scopes :
    /\ scopes[k][n] # None
    /\ \A j \in k + 1 .. Len(scopes) : scopes[j][n] = None

Bind(k, n, v) == scopes' = [scopes EXCEPT ![k][n] = v]

----------------------------------------------------------------------------
Init ==
  \E f \in [Names -> Values \union {Unset}] : scopes = <<f>>

\* An assignment, or unset, changes the one parameter that is visible.
Change(n) == \E v \in Values \union {Unset} : Bind(ScopeOf(n), n, v)

\* typeset gives a function a parameter of its own.
Declare(n) ==
  /\ Len(scopes) > 1
  /\ \E v \in Values : Bind(Len(scopes), n, v)

Call ==
  \E n \in Names, v \in Values \union {None} :
    scopes' = Append(scopes, [m \in Names |-> IF m = n THEN v ELSE None])

Return ==
  /\ Len(scopes) > 1
  /\ scopes' = SubSeq(scopes, 1, Len(scopes) - 1)

Next ==
  \/ \E n \in Names : Change(n)
  \/ \E n \in Locals : Declare(n)
  \/ Call
  \/ Return

Spec == Init /\ [][Next]_scopes
=============================================================================
