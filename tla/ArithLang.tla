------------------------------ MODULE ArithLang ------------------------------
(***************************************************************************)
(* What the chapter Arithmetic Evaluation of zsh.texi says of expressions:  *)
(* the operators and their precedence as it lists them, the rest as in C.   *)
(* An expression is a sequence of lexemes; it is split at the operator that *)
(* binds least.                                                             *)
(***************************************************************************)
EXTENDS Arith

\* From the loosest to the tightest.
Levels == <<{","}, {"=", "+=", "-=", "*=", "/=", "%=", "&=", "^=", "|=", "<<=", ">>=", "&&=", "||=", "^^=", "**="},
            {"?"}, {"||", "^^"}, {"&&"}, {"==", "!="}, {"<", ">", "<=", ">="}, {"+", "-"},
            {"*", "/", "%"}, {"**"}, {"|"}, {"^"}, {"&"}, {"<<", ">>"}>>
FromTheRight == Levels[1] \union Levels[2] \union Levels[3] \union Levels[10]
InfixOps == UNION Range(Levels)
PrefixOps == {"+", "-", "!", "~", "++", "--"}
Atoms == "0" :> 0 @@ "1" :> 1 @@ "2" :> 2 @@ "3" :> 3 @@ "2#10" :> 2 @@ "0xf" :> 15 @@ "[16]a" :> 10
         @@ "$" :> 3 @@ "#" :> 2 @@ "#\\a" :> 97
Names == {"a", "b"}

\* The characters of a lexeme.
Spelt == "+=" :> <<"+", "=">> @@ "-=" :> <<"-", "=">> @@ "*=" :> <<"*", "=">> @@ "&&" :> <<"&", "&">>
         @@ "||" :> <<"|", "|">> @@ "**" :> <<"*", "*">> @@ "<<" :> <<"<", "<">> @@ "&&=" :> <<"&", "&", "=">>
         @@ "||=" :> <<"|", "|", "=">> @@ "==" :> <<"=", "=">> @@ "<=" :> <<"<", "=">> @@ "^^" :> <<"^", "^">>
         @@ "/=" :> <<"/", "=">> @@ "!=" :> <<"!", "=">> @@ "**=" :> <<"*", "*", "=">> @@ "<<=" :> <<"<", "<", "=">>
Spelling(t) ==
    CASE t = "2#10" -> <<"2", "#", "1", "0">> [] t = "0xf" -> <<"0", "x", "f">>
      [] t = "[16]a" -> <<"[", "1", "6", "]", "a">>
      [] t = "#\\a" -> <<"#", "\\", "a">> [] t = "#a" -> <<"#", "a">>
      [] t = "++" -> <<"+", "+">> [] t = "--" -> <<"-", "-">>
      [] t \in DOMAIN Spelt -> Spelt[t]
      [] OTHER -> <<t>>
ChosenBy == "+=" :> "PLUS" @@ "-=" :> "MINUS" @@ "*=" :> "MUL" @@ "/=" :> "DIV" @@ "%=" :> "MOD" @@ "&=" :> "AND"
            @@ "^=" :> "XOR" @@ "|=" :> "OR" @@ "<<=" :> "SHLEFT" @@ ">>=" :> "SHRIGHT" @@ "**=" :> "POWER"
            @@ "^^=" :> "DXOR" @@ "^^" :> "DXOR" @@ "==" :> "DEQ" @@ "!=" :> "NEQ" @@ "<" :> "LES" @@ ">" :> "GRE"
            @@ "<=" :> "LEQ" @@ ">=" :> "GEQ" @@ "+" :> "PLUS" @@ "-" :> "MINUS" @@ "*" :> "MUL" @@ "/" :> "DIV"
            @@ "%" :> "MOD" @@ "**" :> "POWER" @@ "|" :> "OR" @@ "^" :> "XOR" @@ "&" :> "AND" @@ "<<" :> "SHLEFT"
            @@ ">>" :> "SHRIGHT"

RECURSIVE EndsOperand(_, _)
EndsOperand(w, i) ==
    i > 0 /\ \/ w[i] \in DOMAIN Atoms \union Names \union {")", "#a"}
             \/ w[i] \in {"++", "--"} /\ EndsOperand(w, i - 1)
IsInfix(w, i) == w[i] \in InfixOps /\ EndsOperand(w, i - 1)
\* The colon is a parenthesis that closes its question mark.
Depth(w, i) == Cardinality({k \in 1..i-1 : w[k] \in {"(", "?"}}) - Cardinality({k \in 1..i : w[k] \in {")", ":"}})
Outer(w) == {i \in DOMAIN w : IsInfix(w, i) /\ Depth(w, i) = 0}

\* A result: whether this is an expression, whether its evaluation is an error,
\* the value and the parameters.
Is(v, vars) == [ok |-> TRUE, err |-> FALSE, val |-> v, vars |-> vars]
Wrong(vars) == [ok |-> FALSE, err |-> TRUE, val |-> 0, vars |-> vars]

RECURSIVE Meaning(_, _)

\* x op y: / and % by zero and ** to a negative power are errors.
Operation(how, x, y, r) ==
    IF (how \in {"DIV", "MOD"} /\ y = 0) \/ (how = "POWER" /\ y < 0) THEN [r EXCEPT !.err = TRUE]
    ELSE [r EXCEPT !.val = Binary(how, x, y)]

\* Left before right, unless the left one decides.
Both(w, i, vars) ==
    Given(Meaning(SubSeq(w, 1, i - 1), vars), LAMBDA l :
    Given(Meaning(From(w, i + 1), l.vars), LAMBDA r :
        LET decided == w[i] \in {"&&", "||"} /\ (w[i] = "&&") = (l.val = 0)
            both == [r EXCEPT !.err = r.err \/ l.err]
        IN  IF ~l.ok \/ ~r.ok THEN Wrong(vars)
            ELSE IF decided THEN [l EXCEPT !.val = Truth(w[i] = "||")]
            ELSE IF w[i] = "," THEN both
            ELSE IF w[i] \in {"&&", "||"} THEN [both EXCEPT !.val = Truth(r.val # 0)]
            ELSE Operation(ChosenBy[w[i]], l.val, r.val, both)))

\* a op= x is a = a op x.
Assign(w, i, vars) ==
    Given(Meaning(From(w, i + 1), vars), LAMBDA r :
        IF i # 2 \/ w[1] \notin Names \/ ~r.ok THEN Wrong(vars)
        ELSE LET a == vars[<<w[1]>>]
                 shortcut == IF w[i] = "&&=" THEN a = 0 ELSE w[i] = "||=" /\ a # 0
             IN  Given(CASE w[i] = "=" -> r
                         [] shortcut -> Is(Truth(a # 0), vars)
                         [] w[i] \in {"&&=", "||="} -> [r EXCEPT !.val = Truth(@ # 0)]
                         [] OTHER -> Operation(ChosenBy[w[i]], a, r.val, r),
                       LAMBDA v : [v EXCEPT !.vars = (<<w[1]>> :> v.val) @@ @]))

Choice(w, i, vars) ==
    LET colons == {k \in i+1..Len(w) : w[k] = ":" /\ Depth(w, k) = 0}
        colon == Min(colons)
    IN  IF colons = {} THEN Wrong(vars)
        ELSE Given(Meaning(SubSeq(w, 1, i - 1), vars), LAMBDA c :
             Given(Meaning(SubSeq(w, i + 1, colon - 1), c.vars), LAMBDA t :
             Given(Meaning(From(w, colon + 1), c.vars), LAMBDA e :
                 IF ~c.ok \/ ~t.ok \/ ~e.ok THEN Wrong(vars)
                 ELSE Given(IF c.val # 0 THEN t ELSE e, LAMBDA x : [x EXCEPT !.err = @ \/ c.err]))))

\* What no infix operator splits.
Operand(w, vars) ==
    LET n == Len(w)
        Sign(o) == IF o = "++" THEN 1 ELSE -1
        Stepped(name, d, v) ==
            IF name \notin Names THEN Wrong(vars)
            ELSE Is(v + vars[<<name>>], (<<name>> :> vars[<<name>>] + d) @@ vars)
        Applied(x) == CASE w[1] = "+" -> x [] w[1] = "-" -> -x [] w[1] = "!" -> Truth(x = 0) [] w[1] = "~" -> -x - 1
    IN  CASE n = 0 -> Wrong(vars)
          [] n = 1 /\ w[1] \in Names -> Is(vars[<<w[1]>>], vars)
          [] n = 1 /\ w[1] \in DOMAIN Atoms -> Is(Atoms[w[1]], vars)
          [] n = 1 /\ w[1] = "#a" -> Is(48 + vars[<<"a">>], vars)
          [] n > 1 /\ w[1] = "(" /\ w[n] = ")" -> Meaning(SubSeq(w, 2, n - 1), vars)
          [] n = 2 /\ w[1] \in {"++", "--"} -> Stepped(w[2], Sign(w[1]), Sign(w[1]))
          [] n = 2 /\ w[2] \in {"++", "--"} -> Stepped(w[1], Sign(w[2]), 0)
          [] n > 1 /\ w[1] \in {"+", "-", "!", "~"} ->
                Given(Meaning(From(w, 2), vars), LAMBDA r : [r EXCEPT !.val = Applied(@)])
          [] OTHER -> Wrong(vars)

Meaning(w, vars) ==
    Given(Outer(w), LAMBDA outer :
        IF outer = {} THEN Operand(w, vars)
        ELSE Given(Min({l \in DOMAIN Levels : \E i \in outer : w[i] \in Levels[l]}), LAMBDA l :
             Given({i \in outer : w[i] \in Levels[l]}, LAMBDA places :
             Given(IF Levels[l] \subseteq FromTheRight THEN Min(places) ELSE Max(places), LAMBDA i :
                 CASE l = 2 -> Assign(w, i, vars) [] l = 3 -> Choice(w, i, vars) [] OTHER -> Both(w, i, vars)))))

---------------------------------------------------------------------------
(* Expressions that math.c takes otherwise.                                 *)

\* A sign or ++ after a binary + or - is read as binary or as postfix;
\* an assignment is taken in places where C has none: in the middle of a choice,
\* to the right of &&= and ||=, to a value in parentheses or one just stepped;
\* two operands may come before their operator; nothing looks whether there is
\* a colon between the two expressions of a choice, or a choice before a colon.
Unusual(w) ==
    \/ \E i \in DOMAIN w : /\ IsInfix(w, i) /\ w[i] \in {"+", "-"}
                           /\ \E k \in i+1..Len(w) : /\ w[k] \in {"+", "-", "++", "--"}
                                                     /\ \A x \in i+1..k-1 : w[x] \in {"!", "~"}
    \/ \E i \in DOMAIN w : /\ EndsOperand(w, i)
                           /\ Peek(w, i + 1) \in DOMAIN Atoms \union Names \union {"(", "!", "~"}
    \/ \E i \in DOMAIN w :
        LET steps == {"++", "--"}
        IN  /\ w[i] \in steps \union Levels[2]
            /\ \/ Peek(w, i - 1) \in steps \union {")"}
               \/ Peek(w, i - 1) \in Names /\ Peek(w, i - 2) \in steps
               \/ Peek(w, i + 1) = "("
    \/ \E i \in DOMAIN w : LET Count(t) == Cardinality({k \in 1..i : w[k] = t})
                           IN  Count(":") > Count("?") \/ (i = Len(w) /\ Count(":") # Count("?"))
    \/ \E i, k \in DOMAIN w : w[i] \in {"?", "&&=", "||="} /\ i < k /\ w[k] \in Levels[1] \union Levels[2]

\* Whether something is to be decided before something that can fail.
CouldFail(w) ==
    \E i, k \in DOMAIN w : /\ i < k /\ w[i] \in {"&&", "||", "&&=", "||=", "?"}
                           /\ w[k] \in {"/", "%", "**", "/=", "%=", "**="}
============================================================================
