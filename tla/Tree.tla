-------------------------------- MODULE Tree --------------------------------
(***************************************************************************)
(* What is done with a parsed tree besides running it: text.c prints it,    *)
(* for the functions and jobs that are listed, and utils.c copies it to     *)
(* permanent memory without the nodes that say nothing and puts them back   *)
(* in the copy that is run.                                                 *)
(***************************************************************************)
EXTENDS Parse

---------------------------------------------------------------------------
(* Text: the words printed.  Where nl holds a new line separates commands, as *)
(* in getpermtext(); otherwise a semicolon does, as in getjobtext().         *)

taddnl(nl) == <<IF nl THEN "nl" ELSE ";">>

IsChain(c) == c.op \in {"COND_AND", "COND_OR"}

\* The operand of c is printed in parentheses.
AddPar(c, operand) ==
    IF c.op = "COND_NOT" THEN operand.op = "COND_NOT" \/ IsChain(operand)
    ELSE IsChain(operand) /\ operand.op # c.op

RECURSIVE getcond(_)
getcond(c) ==
    LET Side(i) == IF AddPar(c, c.kids[i]) THEN <<"(">> \o getcond(c.kids[i]) \o <<")">>
                   ELSE getcond(c.kids[i])
    IN  CASE c.op = "COND_NOT" -> <<"!">> \o Side(1)
          [] c.op = "COND_AND" -> Side(1) \o <<"&&">> \o Side(2)
          [] c.op = "COND_OR" -> Side(1) \o <<"||">> \o Side(2)
          [] c.op \in Unary -> <<c.op>> \o c.w
          [] OTHER -> <<c.w[1], c.op, c.w[2]>>

\* An array is closed after its words.
getvars(c) == FlattenSeq([i \in 1 .. Len(c.vars) |->
                  IF Head(c.vars[i]) \in ArrayAssignments THEN Append(c.vars[i], ")") ELSE c.vars[i]])

getredirs(c) == FlattenSeq(c.redir)

\* do: what stands between the head of a command and its end.
Enclose(nl, open, body, close) == <<open>> \o taddnl(nl) \o body \o taddnl(nl) \o <<close>>

PatText(pat) == <<pat.w[1]>> \o FlattenSeq([i \in 1 .. Len(pat.w) - 1 |-> <<"|", pat.w[i + 1]>>]) \o <<")">>

RECURSIVE gettext2(_, _)

\* The arms of an if from the i-th list on.
RECURSIVE IfText(_, _, _)
IfText(n, i, nl) ==
    IF i > Len(n.kids) THEN <<"fi">>
    ELSE IF i = Len(n.kids)
    THEN <<"else">> \o taddnl(nl) \o gettext2(n.kids[i], nl) \o taddnl(nl) \o <<"fi">>
    ELSE <<IF i = 1 THEN "if" ELSE "elif">> \o gettext2(n.kids[i], nl) \o taddnl(nl)
         \o <<"then">> \o taddnl(nl) \o gettext2(n.kids[i + 1], nl) \o taddnl(nl)
         \o IfText(n, i + 2, nl)

CaseText(n, nl) ==
    LET Sep == IF nl THEN <<"nl">> ELSE <<>>
        Item(i) == Sep \o PatText(n.kids[2 * i - 1]) \o gettext2(n.kids[2 * i], nl) \o <<";;">>
    IN  <<"case">> \o n.w \o <<"in">>
        \o FlattenSeq([i \in 1 .. Len(n.kids) \div 2 |-> Item(i)]) \o Sep \o <<"esac">>

CmdText(n, nl) ==
    LET body == gettext2(n.kids[1], nl)
    IN  CASE n.op = "SIMPLE" -> getvars(n) \o n.w
          [] n.op = "SUBSH" -> <<"(">> \o body \o <<")">>
          [] n.op = "CURSH" -> <<"{">> \o body \o <<"}">>
          [] n.op = "ZCTIME" -> <<"time">> \o body
          [] n.op = "FUNCDEF" -> n.w \o <<"()">> \o Enclose(nl, "{", body, "}")
          [] n.op \in {"CFOR", "CSELECT"} ->
                 <<IF n.op = "CFOR" THEN "for" ELSE "select", n.w[1]>>
                 \o (IF n.w[2] = "in" THEN Tail(n.w) ELSE <<>>)
                 \o taddnl(nl) \o Enclose(nl, "do", body, "done")
          [] n.op = "CREPEAT" -> <<"repeat">> \o n.w \o taddnl(nl) \o Enclose(nl, "do", body, "done")
          [] n.op = "CWHILE" -> n.w \o body \o taddnl(nl)
                                \o Enclose(nl, "do", gettext2(n.kids[2], nl), "done")
          [] n.op = "CIF" -> IfText(n, 1, nl)
          [] n.op = "CCASE" -> CaseText(n, nl)
          [] n.op = "COND" -> <<"[[">> \o getcond(n.kids[1]) \o <<"]]">>
          [] n.op = "CARITH" -> n.w

gettext2(n, nl) ==
    LET left == gettext2(n.kids[1], nl)
        right == gettext2(n.kids[2], nl)
    IN  CASE n = Null -> <<>>
          [] n.op = "list" -> left \o (IF n.w[1] = "SEPER" THEN <<>> ELSE n.w)
                              \o (IF n.kids[2] = Null THEN <<>>
                                  ELSE IF nl \/ n.w[1] = "SEPER" THEN taddnl(nl) ELSE <<>>)
                              \o right
          [] n.op = "sublist" -> (IF n.w[1] = "" THEN <<>> ELSE <<n.w[1]>>) \o left
                                 \o (IF n.kids[2] = Null THEN <<>> ELSE <<n.w[2]>> \o right)
          [] n.op = "pline" -> left \o (IF n.w[1] = "END" THEN <<>> ELSE <<"|">> \o right)
          [] OTHER -> CmdText(n, nl) \o getredirs(n)

getpermtext(n) == gettext2(n, TRUE)
getjobtext(n) == gettext2(n, FALSE)

---------------------------------------------------------------------------
(* Copies.  A list of one sublist, a sublist of one pipeline, a pipeline of   *)
(* one command become what they hold; a while, if or [[ command without       *)
(* redirections becomes its inner structure, which is N_WHILE, N_IF, N_COND.  *)

Inner == [CWHILE |-> "N_WHILE", CIF |-> "N_IF", COND |-> "N_COND"]
Outer(op) == CHOOSE c \in DOMAIN Inner : Inner[c] = op
Tests == Binary \union Unary \union {"<", ">", "COND_NOT", "COND_AND", "COND_OR"}
IsInner(n) == \E c \in DOMAIN Inner : Inner[c] = n.op

Plain(n) == n.vars = <<>> /\ n.redir = <<>>

\* A list, sublist or pipeline that only holds what is on its left.
SaysNothing(n) ==
    n.kids[2] = Null /\ CASE n.op = "list" -> n.w[1] = "SEPER"
                          [] n.op = "sublist" -> n.w = <<"", "">>
                          [] n.op = "pline" -> n.w[1] = "END"

\* The right side of a list, sublist or pipeline is left as it is.
RECURSIVE simplifystruct(_)
simplifystruct(n) ==
    LET left == [n EXCEPT !.kids[1] = simplifystruct(@)]
        all == [n EXCEPT !.kids = [i \in DOMAIN @ |-> simplifystruct(@[i])]]
    IN  CASE n = Null \/ n.op = "pat" \/ n.op \in Tests -> n
          [] n.op \in {"list", "sublist", "pline"} ->
                 IF SaysNothing(n) THEN left.kids[1] ELSE left
          [] n.op \in DOMAIN Inner /\ Plain(n) -> [all EXCEPT !.op = Inner[n.op]]
          [] OTHER -> all

Kind(n) ==
    IF n.op \in {"list", "sublist", "pline"} THEN n.op ELSE IF IsInner(n) THEN "inner" ELSE "cmd"

Wrap(n, exp) ==
    CASE exp = "list" -> List("SEPER", n, Null)
      [] exp = "sublist" -> Node("sublist", <<"", "">>, <<n, Null>>)
      [] exp = "pline" -> Node("pline", <<"END">>, <<n, Null>>)
      [] exp = "cmd" -> [n EXCEPT !.op = Outer(n.op)]

Below == [list |-> "sublist", sublist |-> "pline", pline |-> "cmd", cmd |-> "inner"]

\* n as a structure of kind exp.
RECURSIVE expandstruct(_, _)
expandstruct(n, exp) ==
    LET Kid(i) == CASE n.op \in DOMAIN Below ->
                           expandstruct(n.kids[i], IF i = 1 THEN Below[n.op] ELSE n.op)
                    [] n.op = "ZCTIME" -> expandstruct(n.kids[i], "sublist")
                    [] n.kids[i].op = "pat" \/ n.kids[i].op \in Tests -> n.kids[i]
                    [] OTHER -> expandstruct(n.kids[i], "list")
    IN  IF n = Null THEN n
        ELSE IF Kind(n) # exp THEN Wrap(expandstruct(n, Below[exp]), exp)
        ELSE [n EXCEPT !.kids = [i \in DOMAIN @ |-> Kid(i)]]

\* dupstruct() to permanent memory and back to the heap.
Permanent(t) == simplifystruct(t)
Copied(t) == expandstruct(Permanent(t), "list")
============================================================================
