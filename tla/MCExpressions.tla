--------------------------- MODULE MCExpressions ---------------------------
(* Vocabularies small enough for expressions to be typed to their end.      *)
EXTENDS Expressions

\* Strings that hold among their parts all strings of one, of two and most of three.
ab == {<<"a", "b", "b", "a">>, <<"b", "a", "a", "b">>}

PatternVocabularies ==
    \* groups, alternatives and closures
    {[subject |-> "pattern", len |-> 6, values |-> ab,
      after |-> "" :> {"Inpar", "a"} @@ "a" :> {"b", "Inpar", "Outpar", "Bar", "Pound"} @@ "b" :> {"a", "Outpar", "Bar", "Pound"}
                @@ "Inpar" :> {"a", "Inpar", "Bar"} @@ "Bar" :> {"b", "Outpar", "Inpar"}
                @@ "Pound" :> {"Pound", "a", "Outpar"} @@ "Outpar" :> {"Pound", "Outpar", "b"}],
    \* negation and exclusion
     [subject |-> "pattern", len |-> 5, values |-> ab,
      after |-> "" :> {"a", "Star", "Hat", "Inpar"} @@ [t \in {"a", "b", "Outpar"} |-> {"a", "Star", "Tilde", "Inpar", "Outpar"}]
                @@ [t \in {"Star", "Quest", "Inpar"} |-> {"b", "Hat", "Tilde", "Quest", "Outpar"}]
                @@ [t \in {"Hat", "Tilde"} |-> {"a", "Star", "Quest", "Inpar", "Hat"}]],
    \* sets
     [subject |-> "pattern", len |-> 6, values |-> {<<"a", "c", "b", "-", "]">>},
      after |-> "" :> {"Inbrack"} @@ "Inbrack" :> {"a", "-", "!", "Hat", "]"} @@ "Outbrack" :> {"Pound", "a", "Inbrack"}
                @@ "Pound" :> {"a", "Pound"} @@ "!" :> {"a"} @@ "Hat" :> {"a"} @@ "]" :> {"Outbrack", "a"}
                @@ [t \in {"a", "c"} |-> {"-", "c", "Outbrack", "Inbrack"}] @@ "-" :> {"c", "Outbrack"}],
    \* numbers
     [subject |-> "pattern", len |-> 6, values |-> {<<"1", "2", "1">>, <<"2", "a", "2">>},
      after |-> "" :> {"Inang"} @@ "Inang" :> {"1", "2", "-", "Outang"} @@ "Outang" :> {"a", "Pound", "Inang"}
                @@ [t \in {"1", "2"} |-> {"1", "2", "-", "Outang", "Inang"}]
                @@ "-" :> {"1", "2", "Outang"} @@ "a" :> {"Inang", "1", "Star"} @@ "Star" :> {"1"}
                @@ "Pound" :> {"a"}]}

Shell(a, b, junk) ==
    [vars |-> <<"a">> :> a @@ <<"b">> :> b, mypid |-> 3, lastval |-> 1, argc |-> 2, code |-> [c \in {"a"} |-> 97],
     first |-> [n \in 0..9 |-> 48 + n], junk |-> junk]
Shells == {Shell(0, 1, 0), Shell(2, 0, 1)}
Binaries == {"+", "-", "*", "/", "**", "<<", "&", "|", "^", "<", "<=", "==", "!=", "&&", "||", "^^", ",", "="}

ArithVocabularies ==
    \* every two binary operators
    {[subject |-> "arithmetic", len |-> 5, values |-> Shells,
      after |-> [t \in Binaries |-> {"a", "b", "2"}] @@ [t \in {"a", "b", "2"} |-> Binaries] @@ "" :> {"a"}],
    \* signs, steps and parentheses
     [subject |-> "arithmetic", len |-> 6, values |-> Shells,
      after |-> "" :> {"a", "-", "!", "(", "++"} @@ [t \in {"a", ")"} |-> {"-", "++", "*", ")", "**"}]
                @@ "-" :> {"a", "~", "(", "2#10"} @@ "~" :> {"a", "--"} @@ "!" :> {"a", "!", "++", "-"}
                @@ "(" :> {"a", "(", "!", "--", "0xf"} @@ "++" :> {"a", "-", "*", ")"} @@ "--" :> {"a", "+"}
                @@ "*" :> {"a", "~", "(", "[16]a"} @@ "**" :> {"-", "3"} @@ "+" :> {"0", "$", "#", "#\\a", "#a"}
                @@ [t \in {"0", "3", "2#10", "0xf", "[16]a", "$", "#", "#\\a", "#a"} |-> {"-", ")"}]],
    \* choices, decisions and assignments
     [subject |-> "arithmetic", len |-> 7, values |-> Shells,
      after |-> "" :> {"a", "b"} @@ "a" :> {"?", ":", "&&", "||", "&&=", "/"} @@ "b" :> {"=", "?", ":", "+="}
                @@ [t \in {"?", ":"} |-> {"a", "b", "0"}] @@ [t \in {"&&", "||"} |-> {"b", "("}]
                @@ [t \in {"&&=", "=", "+="} |-> {"b", "2", "a"}] @@ "(" :> {"b"} @@ "/" :> {"b", "0"}
                @@ [t \in {"0", "2"} |-> {":", "?", ")", ","}] @@ "," :> {"a"} @@ ")" :> {"||"}]}


BraceVocabularies ==
    {[subject |-> "braces", len |-> 8, values |-> {},
      after |-> "" :> {"Inbrace", "a"} @@ "a" :> {"Inbrace", "Comma", "Outbrace"} @@ "b" :> {"Comma", "Outbrace"}
                @@ "Inbrace" :> {"Inbrace", "a", "Comma", "Outbrace"} @@ "Comma" :> {"Inbrace", "b", "Comma", "Outbrace"}
                @@ "Outbrace" :> {"Outbrace", "Inbrace", "Comma"}],
     [subject |-> "braces", len |-> 8, values |-> {},
      after |-> "" :> {"Inbrace"} @@ "Inbrace" :> {"1", "0", "3", "."} @@ "1" :> {".", "Outbrace", "1"}
                @@ "0" :> {"3", "."} @@ "3" :> {".", "Outbrace", "Comma"} @@ "." :> {".", "1", "0", "Inbrace", "3"}
                @@ "Outbrace" :> {"Inbrace", "Outbrace"} @@ "Comma" :> {"1"}],
     [subject |-> "braces", len |-> 7, values |-> {},
      after |-> "" :> {"Inbrace"} @@ [t \in {"a", "d", "-"} |-> {"-", "a", "c", "Outbrace"}] @@ "c" :> {"d", "-", "Comma"}
                @@ "Inbrace" :> {"-", "a", "d", "Inbrace"} @@ "Outbrace" :> {"a", "Inbrace"} @@ "Comma" :> {"d"}]}

MCLettering ==
    "-f" :> <<"-", "f">> @@ "-a" :> <<"-", "a">> @@ "-ed" :> <<"-", "e", "d">> @@ "-k" :> <<"-", "k">> @@ "-kv" :> <<"-", "k", "v">>
    @@ "-H" :> <<"-", "H">> @@ "1" :> <<"1">> @@ "*" :> <<"*">> @@ "-x" :> <<"-", "x">> @@ "p[1]" :> <<"p", "[", "1", "]">>
    @@ "-" :> <<"-">> @@ "--" :> <<"-", "-">> @@ "+" :> <<"+">> @@ "n" :> <<"n">> @@ "-n" :> <<"-", "n">> @@ "-D" :> <<"-", "D">>
    @@ "-C" :> <<"-", "C">> @@ "-L" :> <<"-", "L">> @@ "-lf" :> <<"-", "l", "f">>

\* Commands, for a shell that has a definition, and conditions.
Tables == {[C!InitialTable EXCEPT !.compctltab = <<"n">> :> C!Completion({"f", "e"})]}
CompctlVocabularies ==
    {[subject |-> "compctl", len |-> 6, values |-> Tables,
      after |-> "" :> {"-f", "-k", "-H", "-x", "-", "-D", "-L", "n", "-lf"} @@ "-f" :> {"-k", "+", "-x", "-", "--", "n"}
                @@ "-k" :> {"n", "-a", "*"} @@ "-ed" :> {"n", "+", "-kv"} @@ "-kv" :> {"n", "-C"} @@ "-H" :> {"1"} @@ "1" :> {"*", "n"}
                @@ "*" :> {"-", "n", "+"} @@ "-x" :> {"p[1]"} @@ "p[1]" :> {"-f", "-", "-kv", "+"} @@ "-" :> {"p[1]", "-n", "n", "--"}
                @@ "--" :> {"n", "-n", "+"} @@ "+" :> {"-f", "-ed", "n", "-", "-x", "-D", "-a"} @@ "n" :> {"-f", "n", "-n"}
                @@ "-n" :> {} @@ "-D" :> {"-f", "+", "-ed", "-x", "-C", "-L"} @@ "-C" :> {"-f", "+"} @@ "-L" :> {"-f", "n"}
                @@ "-lf" :> {"-kv", "n", "-f"} @@ "-a" :> {"n", "+", "-f"}],
     [subject |-> "condition", len |-> 7, values |-> Tables,
      after |-> "" :> {"s", "p", "r", "c"} @@ [t \in {"s", "p", "r", "c"} |-> {"["}] @@ "[" :> {"1", " ", ",", "a", "]", "["}
                @@ "]" :> {"[", "]", " ", ","} @@ " " :> {"s", "1", ","} @@ "," :> {"p", "1", "]", ","}
                @@ "1" :> {",", "]", "\\"} @@ "\\" :> {"]", "\\"} @@ "a" :> {",", "]"}]}

\* Lines: any of a few characters after any.
Free(chars, first) == [t \in chars \union {""} |-> IF t = "" THEN first ELSE chars]
Line(len, after, options, aliases) ==
    [subject |-> "line", len |-> len, after |-> after, options |-> options, aliases |-> aliases,
     values |-> {<<[text |-> <<"a", " ", "b", " ", "/", "1", ".", "b">>, words |-> <<0, 1, 2, 3, 4, 8>>]>>}]
Chain == <<"A">> :> [text |-> <<"a", " ", "b", " ">>, global |-> FALSE] @@ <<"B">> :> [text |-> <<"A", ";", "B", "1">>, global |-> FALSE]
         @@ <<"b">> :> [text |-> <<"a", "!">>, global |-> TRUE]
Csh == {"CSHJUNKIEQUOTES", "CSHJUNKIEHISTORY", "IGNOREBRACES", "HISTALLOWCLOBBER", "RCQUOTES", "SHGLOB"}
LineVocabularies ==
    LET Sh(chars, len) == Line(len, Free(chars, chars), {"INTERACTIVECOMMENTS"}, <<>>)
        Csh_(chars, len) == Line(len, Free(chars, chars), Csh, <<>>)
    IN  {Sh({"a", "!", "\\", "^", " "}, 5), Sh({"a", "$", "(", ")", "DQ", "BQ"}, 5), Sh({"a", "{", "}", ",", "$"}, 5),
         Sh({"<", ">", "(", "-", "1", "&"}, 4), Sh({"'", "!", "\\", "DQ", "NL"}, 5), Sh({"=", "a", "(", ")", "["}, 5),
         Sh({"#", " ", "|", "a"}, 5), Line(6, Free({"(", "\\", "NL", "a"}, {"("}), {}, <<>>), Line(5, Free({"A", "B", " ", ";", "b"}, {"A", "B", "b"}), {"RCQUOTES"}, Chain),
         Line(6, Free({"!", "a", ":", "s", "^", "p"}, {"!"}), {}, <<>>), Line(6, Free({"{", "!", "a", "}", "2", "-"}, {"!"}), {}, <<>>),
         Line(5, Free({"!", "$", "*", "-", "1", "?"}, {"!"}), {"HISTVERIFY"}, <<>>),
         Csh_({"a", "(", ")", " ", ">"}, 5), Csh_({"DQ", "\\", "NL", "'", "BQ"}, 5)}
StringVocabularies ==
    {[subject |-> "string", len |-> 5, values |-> {}, options |-> {}, aliases |-> <<>>, after |-> Free(chars, chars)] :
        chars \in {{"a", "$", "(", ")", "DQ"}, {"{", "}", "[", "]", "$"}, {"\\", "'", "BQ", "DQ", "a"}, {">", "<", "=", "(", ")"}}}

\* Directories with files, with dots and the same names again; files of several
\* modes and sizes; names with numbers.
File(type, bits, size) == [type |-> type, bits |-> bits, size |-> size, dev |-> 0, uid |-> 0, gid |-> 0, nlink |-> 1,
                           atime |-> 0, mtime |-> 0, ctime |-> 0]
Dir == File("dir", {8, 6}, 0)
Plain == File("file", {8}, 1)
Tree == <<>> :> Dir @@ <<<<"a">>>> :> Dir @@ <<<<"a">>, <<"b">>>> :> Dir @@ <<<<"a">>, <<"b">>, <<"a">>>> :> Plain
        @@ <<<<"a">>, <<"a">>>> :> Dir @@ <<<<"a">>, <<"a">>, <<"b", "a">>>> :> Plain @@ <<<<"b">>>> :> Plain
        @@ <<<<".", "a">>>> :> Dir @@ <<<<".", "a">>, <<"b">>>> :> Plain
Modes == <<>> :> Dir @@ <<<<"a">>>> :> Dir @@ <<<<"b">>>> :> File("file", {8, 7, 6, 2}, 1)
         @@ <<<<"c">>>> :> File("file", {8, 7}, 1025) @@ <<<<".", "b">>>> :> File("file", {8}, 0)
Numbered == <<>> :> Dir @@ [p \in {<<n>> : n \in {<<"1">>, <<"2">>, <<"1", "0">>, <<"0", "2">>, <<"a", "2">>, <<"a", "1", "0">>,
                                                <<"a", "0", "2", "b">>, <<"a", "2", "a">>}} |-> Plain]
In(tree, options, more) == [tree |-> tree, options |-> options, more |-> more]
FileVocabularies ==
    \* paths
    {[subject |-> "files", len |-> 8, values |-> {In(Tree, {"NOMATCH"}, <<>>), In(Tree, {"CSHNULLGLOB", "GLOBDOTS"}, <<<<"Star", "b">>>>)},
      after |-> "" :> {"a", "Star", "Inpar", "."} @@ "a" :> {"/", "Star", "b"} @@ "b" :> {"/", "Star"} @@ "Star" :> {"Star", "/", "a"}
                @@ "." :> {"a", "Star"} @@ "/" :> {"Inpar", "b", "Star", "Outpar", "."} @@ "Inpar" :> {"a", "Star"}
                @@ "Outpar" :> {"Pound"} @@ "Pound" :> {"Pound", "b", "Star", "a"}],
    \* qualifiers
     [subject |-> "files", len |-> 7, values |-> {In(Modes, {"NULLGLOB"}, <<>>), In(Modes, {"MARKDIRS"}, <<<<"b">>>>)},
      after |-> "" :> {"Star"} @@ "Star" :> {"Quest", "Hat", "Outpar", ","} @@ "Quest" :> {"Inpar"}
                @@ "Inpar" :> {"/", ".", "Star", "L", "Hat", "M", "D", "r"} @@ "L" :> {"k", "+", "-", "1"} @@ "k" :> {"+", "1", "-"}
                @@ [t \in {"+", "-"} |-> {"1"}] @@ [t \in {"/", ".", "x", "r", "w", "R", "M", "T", "N", "D", "1"} |-> {",", "Outpar", "Hat", ".", "T"}]
                @@ "," :> {"/", "x", "Hat", "N"} @@ "Hat" :> {"w", ".", "M", "L", "D", "N", "R"} @@ "Outpar" :> {}],
    \* the order
     [subject |-> "files", len |-> 3, values |-> {In(Numbered, {"NUMERICGLOBSORT"}, <<>>), In(Numbered, {}, <<>>)},
      after |-> [t \in {"", "Star", "a", "1"} |-> {"a", "1", "Star"}]]}

MCVocabularies == FileVocabularies \union PatternVocabularies \union ArithVocabularies \union BraceVocabularies \union CompctlVocabularies
                  \union LineVocabularies \union StringVocabularies
============================================================================
