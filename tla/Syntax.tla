------------------------------- MODULE Syntax -------------------------------
(***************************************************************************)
(* Text is typed word by word and parsed, as a line of input and as the     *)
(* argument of eval; what is parsed is copied and printed.  The text is one *)
(* a parser would go on reading: it is a command or the beginning of one.   *)
(***************************************************************************)
EXTENDS Tree, TLC

\* Each vocabulary gives the words that may be typed after a word, and how many
\* words are typed.
CONSTANTS Vocabularies

VARIABLES vocab, text, tree      \* tree: what parse_event() made of the text

vars == <<vocab, text, tree>>

Viable(r) == r.ok \/ r.p.atend \/ r.p.tok = "ENDINPUT"

words(v) == DOMAIN v.after

Init == vocab \in Vocabularies /\ text = <<>> /\ tree = parse_event(<<>>)

Type(w) ==
    /\ Len(text) < vocab.len
    /\ text # <<>> => w \in vocab.after[Last(text)]
    /\ text' = Append(text, w)
    /\ LET r == parse_event(Append(text, w)) IN Viable(r) /\ tree' = r
    /\ UNCHANGED vocab

Next == \E w \in words(vocab) : Type(w)

Spec == Init /\ [][Next]_vars

---------------------------------------------------------------------------
(* Properties. *)

\* Chains of && and of || in a condition group to the right when read again: the
\* operands are listed.
RECURSIVE Operands(_, _)
Operands(c, op) ==
    IF c.op = op THEN Operands(c.kids[1], op) \o Operands(c.kids[2], op) ELSE <<c>>

\* The tree with what makes no difference when it is run left out: the grouping
\* of chains, and the operator of a sublist nothing follows.
RECURSIVE Meaning(_)
Meaning(n) ==
    LET kids == IF IsChain(n) THEN Operands(n, n.op) ELSE n.kids
        same == [n EXCEPT !.kids = [i \in DOMAIN kids |-> Meaning(kids[i])]]
    IN  IF n.op = "sublist" /\ n.kids[2] = Null THEN [same EXCEPT !.w[2] = ""] ELSE same

\* What text.c is known to print otherwise than it was read, somewhere in tree n:
\* a function named with a reserved word or an assignment, and a redirection
\* before time, which is printed after the pipeline.
RECURSIVE Misprinted(_)
Misprinted(n) ==
    \/ n.op = "FUNCDEF" /\ \E i \in DOMAIN n.w : n.w[i] \in reswds \union Assignments
    \/ n.op = "ZCTIME" /\ n.redir # <<>>
    \/ \E i \in DOMAIN n.kids : Misprinted(n.kids[i])

\* A copy of a function that was stored in its short form is the function: the
\* body that is run is the one that was parsed (simplifystruct(), expandstruct()).
CopyKeepsTree == tree.ok => Copied(tree.t) = tree.t

\* The text that functions and jobs prints is read as the tree it was made from
\* (gettext2() against the parser).
TextParsesBack ==
    tree.ok /\ ~Misprinted(tree.t) =>
        \A nl \in BOOLEAN :
            LET again == parse_event(gettext2(tree.t, nl))
            IN  again.ok /\ Meaning(again.t) = Meaning(tree.t)

\* A line typed means what it means to eval (par_event() and par_list(), which
\* read separators each in their own way).
EventAgreesWithList == tree.ok => parse_list(text).t = tree.t

\* However a tree is handled, by a copy, as text or by the other entry of the
\* parser, it stays the tree that was typed (text.c, parse.c).
TreeIsKept == CopyKeepsTree /\ TextParsesBack /\ EventAgreesWithList

\* Whatever was typed, when the parser returns it has taken from the stack of
\* commands being parsed all it put there, which prompts show (cmdpush() and
\* cmdpop(), the early returns of par_if() and others included).
CmdStackBalanced == tree.p.cmdsp = 0 /\ parse_list(text).p.cmdsp = 0

----------------------------------------------------------------------------
(* Vocabularies small enough for the constructs to be typed to their end.   *)

MCVocabularies ==
    \* lists and pipelines
    {[len |-> 6,
      after |-> "a" :> {";", "nl", "&", "|", "&&", "}"} @@ "!" :> {"a", "{"}
                @@ [w \in {";", "nl", "&", "|", "&&", "{", "}"} |->
                       {"a", ";", "nl", "&", "|", "&&", "!", "{", "}"}]],
     [len |-> 6,
      after |-> "a" :> {">", "|&", "||", ")"} @@ ">" :> {"a"}
                @@ [w \in {"time", "coproc", "|&", "||", "(", ")"} |->
                       {"a", "time", "coproc", ">", "|&", "||", "(", ")"}]],
    \* loops
     [len |-> 10,
      after |-> "a" :> {";", "in", "a"} @@ "in" :> {"a", ";"} @@ "for" :> {"a", "in"}
                @@ "select" :> {"a"} @@ "do" :> {"a", ";", "for"} @@ "done" :> {";"}
                @@ ";" :> {"a", "do", "done", "select"}],
     [len |-> 10,
      after |-> "a" :> {";"} @@ "while" :> {"a", "while"} @@ "repeat" :> {"a"} @@ ">" :> {"a"}
                @@ "do" :> {"a", ";", "repeat"} @@ "done" :> {";", ">"} @@ "{" :> {"a"}
                @@ "}" :> {";", ">"} @@ ";" :> {"a", "do", "done", "while", "{", "}"}],
    \* if, with then and with braces
     [len |-> 14,
      after |-> "a" :> {";"} @@ ";" :> {"a", "then", "elif", "else", "fi"} @@ "fi" :> {";"}
                @@ [w \in {"if", "then", "elif", "else"} |-> {"a", "if"}]],
     [len |-> 13,
      after |-> "a" :> {";", ")"} @@ "if" :> {"("} @@ "elif" :> {"("} @@ "(" :> {"a"}
                @@ ")" :> {"{", "a", "then"} @@ "{" :> {"a"} @@ "}" :> {";", "else", "elif"}
                @@ "then" :> {"a"} @@ "else" :> {"a", "{"} @@ ";" :> {"}", "fi", "a"} @@ "fi" :> {";"}],
    \* case
     [len |-> 9,
      after |-> "case" :> {"a"} @@ "a" :> {"in", ")", "|", ";;", "nl", "{"}
                @@ "|" :> {"a", "(b)"} @@ "(b)" :> {"a", ")"} @@ "{" :> {"a", "}"}
                @@ "in" :> {"a", "(b)", "esac", "nl"} @@ ")" :> {"a", ";;", "nl", "case"}
                @@ [w \in {";;", "nl", "esac", "}"} |-> {"a", "(b)", ";;", "esac", "}"}]],
    \* functions
     [len |-> 7,
      after |-> "a" :> {"()", ";", "{", "a", ">"} @@ "function" :> {"a", "if", "{"} @@ ">" :> {"a"}
                @@ "if" :> {"{", "a"} @@ "()" :> {"{", "a", "function", ";"}
                @@ "{" :> {"a", "}", "function"} @@ "}" :> {";", ">", "}"} @@ ";" :> {"a", "}", "{"}],
    \* conditions
     [len |-> 10,
      after |-> "[[" :> {"!", "(", "-n"} @@ "-n" :> {"a"} @@ "a" :> {"&&", "||", ")", "]]"}
                @@ ")" :> {"&&", "||", ")", "]]"} @@ "]]" :> {"&&"}
                @@ [w \in {"!", "(", "&&", "||"} |-> {"!", "(", "-n"}]],
     [len |-> 8,
      after |-> "[[" :> {"a", "!", "nl"} @@ "a" :> {"=", "<", "nl", "-nt", "&&", "]]"}
                @@ "]]" :> {";", "a"} @@ ";" :> {"[["} @@ "=" :> {"a", "(b)", "="}
                @@ "-nt" :> {"a"} @@ "(b)" :> {"nl", "]]"}
                @@ [w \in {"!", "<", "&&", "nl"} |-> {"a", "]]"}]],
    \* assignments and arithmetic
     [len |-> 6,
      after |-> ">" :> {"a"} @@ "nocorrect" :> {"a", "x=1"} @@ "&|" :> {"a", "((1))", "x=("}
                @@ "a" :> {"x=1", ")", ";", "&|"} @@ ";" :> {"a", "((1))", ">"}
                @@ [w \in {"x=1", "x=(", ")", "((1))"} |->
                       {"x=1", "x=(", "a", ")", ";", "((1))", "nocorrect", "&|", ">"}]]}
============================================================================
