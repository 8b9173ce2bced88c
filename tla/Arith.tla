-------------------------------- MODULE Arith --------------------------------
(***************************************************************************)
(* Arithmetic of math.c: one pass over the text that reads, evaluates and   *)
(* assigns, by operator precedence.  Values do not overflow here.           *)
(*                                                                         *)
(* The state of an evaluation is a record: ptr and s, the place in the text *)
(* and the text; unary; tok, val and lv, the token read; stack; noeval;     *)
(* lastbase; vars, the parameters; err; and what the shell supplies: mypid, *)
(* lastval, argc, code and first (of a character, of a number's first       *)
(* digit), junk (what lies below the stack).  A value on the stack is       *)
(* [val, lval], lval being the name of a parameter or <<>>.                 *)
(***************************************************************************)
EXTENDS Lib, SequencesExt, FiniteSetsExt, Bitwise, TLC

CONSTANTS
    STACKSZ, LVCOUNT    \* limits of the value stack and of the names in an expression

AssignOps == {"EQ", "PLUSEQ", "MINUSEQ", "MULEQ", "DIVEQ", "MODEQ", "ANDEQ", "XOREQ", "OREQ",
              "SHLEFTEQ", "SHRIGHTEQ", "DANDEQ", "DOREQ", "DXOREQ", "POWEREQ"}
UnaryOps == {"NOT", "COMP", "POSTPLUS", "POSTMINUS", "UPLUS", "UMINUS", "PREPLUS", "PREMINUS"}

\* Precedences: a small one binds.
prec ==
    [t \in {"NUM", "ID", "CID"} |-> 0] @@ "M_INPAR" :> 1 @@ [t \in UnaryOps |-> 2]
    @@ [t \in {"SHLEFT", "SHRIGHT"} |-> 3] @@ "AND" :> 4 @@ "XOR" :> 5 @@ "OR" :> 6 @@ "POWER" :> 7
    @@ [t \in {"MUL", "DIV", "MOD"} |-> 8] @@ [t \in {"PLUS", "MINUS"} |-> 9]
    @@ [t \in {"LES", "LEQ", "GRE", "GEQ"} |-> 10] @@ [t \in {"DEQ", "NEQ"} |-> 11]
    @@ "DAND" :> 12 @@ [t \in {"DOR", "DXOR"} |-> 13] @@ [t \in {"QUEST", "COLON"} |-> 14]
    @@ [t \in AssignOps |-> 15] @@ "COMMA" :> 16 @@ "M_OUTPAR" :> 137 @@ "EOI" :> 200
TOPPREC == 16
ARGPREC == TOPPREC - 1
RightToLeft == (UnaryOps \union AssignOps \union {"QUEST", "COLON", "POWER", "COMMA"}) \ {"DANDEQ", "DOREQ"}
BOOL == {"DAND", "DOR", "DANDEQ", "DOREQ"}

\* The operators that are spelt the same wherever they stand.
Operators ==
    <<"(">> :> "M_INPAR" @@ <<"!", "=">> :> "NEQ"
    @@ <<"&">> :> "AND" @@ <<"&", "&">> :> "DAND" @@ <<"&", "=">> :> "ANDEQ" @@ <<"&", "&", "=">> :> "DANDEQ"
    @@ <<"|">> :> "OR" @@ <<"|", "|">> :> "DOR" @@ <<"|", "=">> :> "OREQ" @@ <<"|", "|", "=">> :> "DOREQ"
    @@ <<"^">> :> "XOR" @@ <<"^", "^">> :> "DXOR" @@ <<"^", "=">> :> "XOREQ" @@ <<"^", "^", "=">> :> "DXOREQ"
    @@ <<"*">> :> "MUL" @@ <<"*", "*">> :> "POWER" @@ <<"*", "=">> :> "MULEQ" @@ <<"*", "*", "=">> :> "POWEREQ"
    @@ <<"/">> :> "DIV" @@ <<"/", "=">> :> "DIVEQ" @@ <<"%">> :> "MOD" @@ <<"%", "=">> :> "MODEQ"
    @@ <<"<">> :> "LES" @@ <<"<", "<">> :> "SHLEFT" @@ <<"<", "=">> :> "LEQ" @@ <<"<", "<", "=">> :> "SHLEFTEQ"
    @@ <<">">> :> "GRE" @@ <<">", ">">> :> "SHRIGHT" @@ <<">", "=">> :> "GEQ" @@ <<">", ">", "=">> :> "SHRIGHTEQ"
    @@ <<"=">> :> "EQ" @@ <<"=", "=">> :> "DEQ" @@ <<":">> :> "COLON" @@ <<",">> :> "COMMA"
    @@ <<"+", "=">> :> "PLUSEQ" @@ <<"-", "=">> :> "MINUSEQ"

DigitValue == "0" :> 0 @@ "1" :> 1 @@ "2" :> 2 @@ "3" :> 3 @@ "6" :> 6 @@ "a" :> 10 @@ "f" :> 15
iident(c) == c \in {"a", "b", "f", "x", "0", "1", "2", "3", "6"}

\* zstrtol(): the place behind the number of this base at p, and the number.
EndOfNumber(s, p, base) ==
    CHOOSE q \in p..Len(s)+1 :
        /\ \A k \in p..q-1 : s[k] \in DOMAIN DigitValue /\ DigitValue[s[k]] < base
        /\ ~(q <= Len(s) /\ s[q] \in DOMAIN DigitValue /\ DigitValue[s[q]] < base)
NumberAt(s, p, base) ==
    FoldLeft(LAMBDA v, c : v * base + DigitValue[c], 0, SubSeq(s, p, EndOfNumber(s, p, base) - 1))

Fail(m) == [m EXCEPT !.err = TRUE]

\* A number read in a base; the token is NUM.
Read(m, p, base) ==
    [m EXCEPT !.tok = "NUM", !.unary = FALSE, !.val = NumberAt(m.s, p, base), !.ptr = EndOfNumber(m.s, p, base)]
Operator(m, tok, n) == [m EXCEPT !.tok = tok, !.unary = TRUE, !.ptr = @ + n]
Mark(m, tok, n) == [m EXCEPT !.tok = tok, !.ptr = @ + n]
Value(m, v, n) == [m EXCEPT !.tok = "NUM", !.unary = FALSE, !.val = v, !.ptr = @ + n]

\* A name: too many of them end the expression.
Name(m, tok, p) ==
    LET q == CHOOSE q \in p+1..Len(m.s)+1 : /\ \A k \in p..q-1 : iident(m.s[k])
                                            /\ ~iident(Peek(m.s, q))
    IN  IF m.lvc = LVCOUNT THEN Fail([m EXCEPT !.tok = "EOI", !.ptr = p])
        ELSE [m EXCEPT !.tok = tok, !.unary = FALSE, !.lvc = @ + 1, !.ptr = q,
                       !.lv = SubSeq(m.s, p, q - 1)]

\* ++ or -- is read as such whatever follows.
PlusMinus(m, c) ==
    LET two == Peek(m.s, m.ptr + 1)
        Which(plus, minus) == IF c = "+" THEN plus ELSE minus
    IN  CASE two = c -> Mark(m, IF m.unary THEN Which("PREPLUS", "PREMINUS") ELSE Which("POSTPLUS", "POSTMINUS"), 2)
          [] two = "=" -> Operator(m, Which("PLUSEQ", "MINUSEQ"), 2)
          [] OTHER -> Mark(m, IF m.unary THEN Which("UPLUS", "UMINUS") ELSE Which("PLUS", "MINUS"), 1)

\* The token at ptr.
OneToken(m) ==
    LET c == Peek(m.s, m.ptr)
        spelt == {n \in 1..3 : m.ptr + n - 1 <= Len(m.s) /\ SubSeq(m.s, m.ptr, m.ptr + n - 1) \in DOMAIN Operators}
    IN  CASE c \in {"+", "-"} -> PlusMinus(m, c)
          [] spelt # {} -> Operator(m, Operators[SubSeq(m.s, m.ptr, m.ptr + Max(spelt) - 1)], Max(spelt))
          [] c = ")" -> Mark(m, "M_OUTPAR", 1)
          [] c = "!" /\ spelt = {} -> Mark(m, "NOT", 1)
          [] c = "~" -> Mark(m, "COMP", 1)
          [] c = "$" -> Value(m, m.mypid, 1)
          [] c = "?" -> IF m.unary THEN Value(m, m.lastval, 1) ELSE Operator(m, "QUEST", 1)
          [] c = "" -> [m EXCEPT !.tok = "EOI", !.unary = TRUE]
          [] c = "[" ->
                LET base == NumberAt(m.s, m.ptr + 1, 10)
                    p == EndOfNumber(m.s, m.ptr + 1, 10)
                IN  [Read(m, IF Peek(m.s, p) = "]" THEN p + 1 ELSE p, base) EXCEPT !.lastbase = base]
          [] c = "0" /\ Peek(m.s, m.ptr + 1) = "x" -> [Read(m, m.ptr + 2, 16) EXCEPT !.lastbase = 16]
          [] c \in {"0", "1", "2", "3", "6"} ->
                Given(Read(m, m.ptr, 10), LAMBDA n :
                    IF Peek(m.s, n.ptr) # "#" THEN n
                    ELSE [Read(m, n.ptr + 1, n.val) EXCEPT !.lastbase = n.val])
          [] c = "#" ->
                IF Peek(m.s, m.ptr + 1) = "\\" THEN Value(m, m.code[Peek(m.s, m.ptr + 2)], 3)
                ELSE IF iident(Peek(m.s, m.ptr + 1)) THEN Name(m, "CID", m.ptr + 1) ELSE Value(m, m.argc, 1)
          [] iident(c) -> Name(m, "ID", m.ptr)
          [] OTHER -> [m EXCEPT !.tok = "EOI"]

\* zzlex(): one token.
zzlex(m) == Given(CHOOSE p \in m.ptr..Len(m.s)+1 : Peek(m.s, p) # " " /\ \A k \in m.ptr..p-1 : m.s[k] = " ",
                  LAMBDA p : OneToken([m EXCEPT !.ptr = p]))

---------------------------------------------------------------------------
(* Evaluation.                                                              *)

\* A full stack is overwritten at its top.
push(m, v, lval) ==
    IF Len(m.stack) = STACKSZ THEN Fail([m EXCEPT !.stack[STACKSZ] = [val |-> v, lval |-> lval]])
    ELSE [m EXCEPT !.stack = Append(@, [val |-> v, lval |-> lval])]

Popped(m, n) == [m EXCEPT !.stack = SubSeq(@, 1, Len(@) - n)]
Top(m, n) == m.stack[Len(m.stack) - n + 1].val

\* A parameter that is not set counts as 0.
Parameter(m, lval) == IF lval \in DOMAIN m.vars THEN m.vars[lval] ELSE 0

\* setvar(): the value is that of the assignment even where nothing is evaluated.
setvar_Always(m, lval, v) == IF lval = <<>> THEN Fail(m) ELSE [m EXCEPT !.vars = (lval :> v) @@ @]
setvar(m, lval, v) ==
    IF lval = <<>> THEN Fail(m) ELSE IF m.noeval > 0 THEN m ELSE [m EXCEPT !.vars = (lval :> v) @@ @]
Assigned(lval, v) == IF lval = <<>> THEN 0 ELSE v

Truth(b) == IF b THEN 1 ELSE 0

\* Division toward zero, as the machine does it.
Quotient(a, b) == LET q == (IF a < 0 THEN -a ELSE a) \div (IF b < 0 THEN -b ELSE b)
                  IN  IF (a < 0) = (b < 0) THEN q ELSE -q

\* Two's complement.
Width == 64
Wrap(a) == IF a < 0 THEN a + Width ELSE a
Bits(F(_, _), a, b) == Given(F(Wrap(a), Wrap(b)), LAMBDA r : IF r >= Width \div 2 THEN r - Width ELSE r)

\* What a binary operator makes of two values.
Binary(what, a, b) ==
    CASE what \in {"AND", "ANDEQ"} -> Bits(LAMBDA x, y : x & y, a, b)
      [] what \in {"OR", "OREQ"} -> Bits(LAMBDA x, y : x | y, a, b)
      [] what \in {"XOR", "XOREQ"} -> Bits(LAMBDA x, y : x ^^ y, a, b)
      [] what \in {"MUL", "MULEQ"} -> a * b
      [] what \in {"DIV", "DIVEQ"} -> Quotient(a, b)
      [] what \in {"MOD", "MODEQ"} -> a - b * Quotient(a, b)
      [] what \in {"PLUS", "PLUSEQ"} -> a + b
      [] what \in {"MINUS", "MINUSEQ"} -> a - b
      [] what \in {"SHLEFT", "SHLEFTEQ"} -> a * 2 ^ b
      [] what \in {"SHRIGHT", "SHRIGHTEQ"} -> a \div 2 ^ b
      [] what = "LES" -> Truth(a < b) [] what = "LEQ" -> Truth(a <= b)
      [] what = "GRE" -> Truth(a > b) [] what = "GEQ" -> Truth(a >= b)
      [] what = "DEQ" -> Truth(a = b) [] what = "NEQ" -> Truth(a # b)
      [] what \in {"DAND", "DANDEQ"} -> Truth(a # 0 /\ b # 0)
      [] what \in {"DOR", "DOREQ"} -> Truth(a # 0 \/ b # 0)
      [] what \in {"DXOR", "DXOREQ"} -> Truth((a # 0) # (b # 0))
      [] what \in {"POWER", "POWEREQ"} -> IF b = 0 THEN 1 ELSE a ^ b
      [] what \in {"COMMA", "EQ"} -> b

\* op(): the operator on what lies on the stack.
op(m, what) ==
    LET last == m.stack[Len(m.stack)]
        Unary(v) == [m EXCEPT !.stack[Len(m.stack)] = [val |-> v, lval |-> <<>>]]
        Step(d) == [setvar(m, last.lval, last.val + d)
                    EXCEPT !.stack[Len(m.stack)].val = Assigned(last.lval, last.val + d)]
    IN  IF m.stack = <<>> THEN Fail(m)
        ELSE CASE what = "NOT" -> Unary(Truth(last.val = 0))
               [] what = "COMP" -> Unary(-last.val - 1)
               [] what = "UPLUS" -> Unary(last.val)
               [] what = "UMINUS" -> Unary(-last.val)
               [] what = "POSTPLUS" -> setvar(m, last.lval, last.val + 1)
               [] what = "POSTMINUS" -> setvar(m, last.lval, last.val - 1)
               [] what = "PREPLUS" -> Step(1)
               [] what = "PREMINUS" -> Step(-1)
               [] what = "QUEST" -> IF Len(m.stack) < 3 THEN Fail(m)
                                    ELSE push(Popped(m, 3), IF Top(m, 3) # 0 THEN Top(m, 2) ELSE Top(m, 1), <<>>)
               [] what = "COLON" -> m
               [] OTHER ->
                   IF Len(m.stack) < 2 THEN Fail(m)
                   ELSE LET a == Top(m, 2)
                            b == Top(m, 1)
                            rest == Popped(m, 2)
                            lv == m.stack[Len(m.stack) - 1].lval
                        IN  IF \/ what \in {"DIV", "MOD", "DIVEQ", "MODEQ"} /\ b = 0
                               \/ what \in {"POWER", "POWEREQ"} /\ b < 0
                            THEN Fail(rest)
                            ELSE Given(Binary(what, a, b), LAMBDA v :
                                IF what \in AssignOps
                                THEN push(setvar(rest, lv, v), Assigned(lv, v), lv)
                                ELSE push(rest, v, <<>>))

\* The value under the operator, read before anything says there is one.
Under(m) == IF m.stack = <<>> THEN m.junk ELSE Top(m, 1)

\* bop(): the rest is not evaluated when this value decides.
bop(m, tk) ==
    IF \/ tk \in {"DAND", "DANDEQ"} /\ Under(m) = 0
       \/ tk \in {"DOR", "DOREQ"} /\ Under(m) # 0
    THEN [m EXCEPT !.noeval = @ + 1] ELSE m

Skip(m, b) == IF b THEN [m EXCEPT !.noeval = @ + 1] ELSE m

RECURSIVE Climb(_, _)

\* mathparse(): evaluates as far as operators bind as pc says.
mathparse(m, pc) == IF m.err THEN m ELSE Climb(zzlex(m), pc)

Ternary(m) ==
    Given(Under(m) # 0, LAMBDA q :
    Given(mathparse(Skip(m, ~q), prec["QUEST"] - 1), LAMBDA then :
    Given(mathparse(Skip([then EXCEPT !.noeval = m.noeval], q), prec["QUEST"]), LAMBDA else :
        op([else EXCEPT !.noeval = m.noeval], "QUEST"))))

Climb(m, pc) ==
    IF prec[m.tok] > pc \/ m.err THEN m
    ELSE IF m.tok = "NUM" THEN Climb(zzlex(push(m, m.val, <<>>)), pc)
    ELSE IF m.tok = "ID" THEN Climb(zzlex(push(m, IF m.noeval > 0 THEN 0 ELSE Parameter(m, m.lv), m.lv)), pc)
    ELSE IF m.tok = "CID" THEN Climb(zzlex(push(m, IF m.noeval > 0 THEN 0 ELSE m.first[Parameter(m, m.lv)], m.lv)), pc)
    ELSE IF m.tok = "M_INPAR"
    THEN Given(mathparse(m, TOPPREC), LAMBDA in :
             IF in.tok # "M_OUTPAR" THEN Fail(in) ELSE Climb(zzlex(in), pc))
    ELSE IF m.tok = "QUEST" THEN Climb(Ternary(m), pc)
    ELSE Given(mathparse(bop(m, m.tok), prec[m.tok] - (IF m.tok \in RightToLeft THEN 0 ELSE 1)), LAMBDA r :
             Climb(op([r EXCEPT !.noeval = m.noeval], m.tok), pc))

\* mathevall() from a shell that is not evaluating anything: one value must be left.
mathevall(s, prek, env) ==
    Given(mathparse(env @@ [s |-> s, ptr |-> 1, unary |-> TRUE, tok |-> "EOI", val |-> 0, lv |-> <<>>, lvc |-> 0,
                            stack |-> <<>>, noeval |-> 0, lastbase |-> -1, err |-> FALSE], prek), LAMBDA m :
        IF Len(m.stack) # 1 THEN Fail(m) ELSE m)

\* matheval(): all of the text is read.
matheval(s, env) ==
    Given(mathevall(s, TOPPREC, env), LAMBDA m : IF m.ptr <= Len(s) THEN Fail(m) ELSE m)

\* mathevalarg(): up to a comma, which is left.
mathevalarg(s, env) ==
    Given(mathevall(s, ARGPREC, env), LAMBDA m : IF m.tok = "COMMA" THEN [m EXCEPT !.ptr = @ - 1] ELSE m)
============================================================================
