------------------------------- MODULE ZleVi -------------------------------
(***************************************************************************)
(* The vi commands of zle_vi.c and the marks and searches of zle_move.c.    *)
(* More fields of the editor:                                              *)
(*                                                                         *)
(*   insmode, viinsbegin  insert or overwrite, where insertion began       *)
(*   vichgflag, vichgbuf  recording the keys of a change, the keys         *)
(*   inrepeat, vichgrepeat, lastmult, lastgotmult, lastspec   repeating it *)
(*   unget                keys given back to the input (kungetbuf)         *)
(*   vfindchar, vfinddir, tailadd   the last search in the line            *)
(*   virangeflag          getvirange() runs a movement                     *)
(*   vimarks              position and event of the mark "a"               *)
(*                                                                         *)
(* A key is a character or the name of the command it is bound to.         *)
(* Commands that read further keys give the set of editors that the        *)
(* possible keys lead to.                                                  *)
(***************************************************************************)
EXTENDS ZleHist

CONSTANTS
    CharKeys,   \* characters typed where a command asks for one
    Movements   \* commands typed where a range is asked for

\* The keys there may be next, with the editor after getkey(): given back
\* ones first; recorded while a change is.
GetKeys(e, typed) ==
    LET Rec(f, k) == IF f.vichgflag THEN [f EXCEPT !.vichgbuf.text = Append(@, k)] ELSE f
    IN  IF e.unget # <<>>
        THEN {<<Head(e.unget), Rec([e EXCEPT !.unget = Tail(@)], Head(e.unget))>>}
        ELSE {<<k, Rec(e, k)>> : k \in typed}

\* A character; vi-cmd-mode cancels ("none").
vigetkey(e) ==
    {<<IF k[1] = "vi-cmd-mode" THEN "none" ELSE k[1], k[2]>> :
        k \in GetKeys(e, CharKeys \union {"vi-cmd-mode"})}

---------------------------------------------------------------------------
(* Changes. *)

\* im: -1, or the mode for a change that is recorded until it is complete.
StartRecording(e) ==
    [e EXCEPT !.lastmult = e.zmult, !.lastspec = e.spec, !.lastgotmult = e.gotmult,
              !.vichgbuf = TextOf(<<e.bindk>>), !.vichgrepeat = FALSE]

Mode(e, im) == IF im = -1 THEN e ELSE [e EXCEPT !.insmode = (im = 1), !.vichgflag = TRUE]


\* When this is a repetition, count and buffer are those of the change.
startvichange(e, im) ==
    IF e.inrepeat
    THEN [Mode(e, im) EXCEPT !.zmult = e.lastmult, !.spec = e.lastspec,
                             !.gotmult = e.lastgotmult, !.inrepeat = FALSE,
                             !.vichgflag = FALSE, !.vichgrepeat = TRUE]
    ELSE StartRecording(Mode(e, im))

Inserting(e) == [e EXCEPT !.tab = "main", !.undoing = FALSE, !.viinsbegin = e.cs]
startvitext(e, im) == Inserting(startvichange(e, im))

Bol(e) == findbol(e.line, e.cs)
Eol(e) == findeol(e.line, e.cs)
At(e, c) == [e EXCEPT !.cs = c]
Indented(e) == At(e, vifirstnonblank(e.line, e.cs))

viaddnext(e) == startvitext(At(e, IF e.cs # Eol(e) THEN e.cs + 1 ELSE e.cs), 1)
viaddeol(e) == startvitext(At(e, Eol(e)), 1)
viinsert(e) == startvitext(e, 1)
viinsertbol(e) == startvitext(Indented(e), 1)
vireplace(e) == startvitext(e, 0)
viopenlinebelow(e) ==
    LET f == spaceinline(At(e, Eol(e)), <<NL>>) IN startvitext(At(f, f.cs + 1), 1)
viopenlineabove(e) == startvitext(spaceinline(At(e, Bol(e)), <<NL>>), 1)

vicmdmode(e) ==
    IF e.tab = "alt" THEN e
    ELSE [e EXCEPT !.tab = "alt", !.undoing = TRUE, !.vichgflag = FALSE,
                   !.cs = IF @ # Bol(e) THEN @ - 1 ELSE @]

---------------------------------------------------------------------------
(* Ranges. *)

\* Where movement m goes.  Those that may leave the line for another event
\* are not offered: the range would be one of another line.
FindKeys == {"vi-find-next-char", "vi-find-prev-char",
             "vi-find-next-char-skip", "vi-find-prev-char-skip"}

FindWith(e, k, ch) ==
    LET dir == IF k \in {"vi-find-next-char", "vi-find-next-char-skip"} THEN 1 ELSE -1
        tail == IF k = "vi-find-next-char-skip" THEN -1
                ELSE IF k = "vi-find-prev-char-skip" THEN 1 ELSE 0
    IN  [e EXCEPT !.vfindchar = ch, !.vfinddir = dir, !.tailadd = tail]

RepeatFind(e, rev) ==
    LET dir == IF rev # (e.zmult < 0) THEN -e.vfinddir ELSE e.vfinddir
    IN  At(e, virepeatfind(e.line, e.cs, IF e.zmult < 0 THEN -e.zmult ELSE e.zmult,
                           e.vfindchar, dir, e.tailadd, e.virangeflag))

Move(e, k, wf) ==
    LET l == e.line
        c == e.cs
        n == e.zmult
        rf == e.virangeflag # 0
        alt == e.tab = "alt"
        To(x) == {At(e, x)}
    IN  CASE k = "beginning-of-line" -> To(beginningofline(l, c, n))
          [] k = "end-of-line" -> To(endofline(l, c, n))
          [] k = "forward-char" -> To(forwardchar(l, c, n))
          [] k = "backward-char" -> To(backwardchar(l, c, n))
          [] k = "forward-word" -> To(forwardword(l, c, n, wf))
          [] k = "backward-word" -> To(backwardword(l, c, n, wf))
          [] k = "emacs-forward-word" -> To(emacsforwardword(l, c, n, wf))
          [] k = "emacs-backward-word" -> To(emacsbackwardword(l, c, n, wf))
          [] k = "vi-forward-word" -> To(viforwardword(l, c, n, wf))
          [] k = "vi-backward-word" -> To(vibackwardword(l, c, n))
          [] k = "vi-forward-blank-word" -> To(viforwardblankword(l, c, n, wf))
          [] k = "vi-backward-blank-word" -> To(vibackwardblankword(l, c, n, wf))
          [] k = "vi-forward-blank-word-end" ->
                To(viforwardblankwordend(l, c, n, rf, e.past))
          [] k = "vi-forward-word-end" -> To(viforwardwordend(l, c, n, rf, e.past))
          [] k = "vi-forward-char" -> To(viforwardchar(l, c, n, alt))
          [] k = "vi-backward-char" -> To(vibackwardchar(l, c, n, alt))
          [] k = "vi-beginning-of-line" -> To(Bol(e))
          [] k = "vi-end-of-line" -> To(viendofline(l, c, n))
          [] k = "vi-first-non-blank" -> To(vifirstnonblank(l, c))
          [] k = "vi-goto-column" -> To(vigotocolumn(l, c, n))
          [] k = "vi-match-bracket" ->
                LET r == vimatchbracket(l, c, e.virangeflag)
                IN  {[e EXCEPT !.cs = r[1], !.virangeflag = r[2]]}
          [] k = "exchange-point-and-mark" -> {exchangepointandmark(e)}
          [] k = "up-line-or-history" -> {uplineorhistory(e)}
          [] k = "down-line-or-history" -> {downlineorhistory(e)}
          [] k = "vi-up-line-or-history" -> {viuplineorhistory(e)}
          [] k = "vi-down-line-or-history" -> {vidownlineorhistory(e)}
          [] k = "vi-repeat-find" -> {RepeatFind(e, FALSE)}
          [] k = "vi-rev-repeat-find" -> {RepeatFind(e, TRUE)}
          [] k \in FindKeys ->
                {IF r[1] = "none" THEN r[2] ELSE RepeatFind(FindWith(r[2], k, r[1]), FALSE) :
                    r \in vigetkey(e)}

LineMoves == {"up-line-or-history", "down-line-or-history",
              "vi-up-line-or-history", "vi-down-line-or-history"}

\* getvirange(): a count may come before the movement; it multiplies the
\* count of the command, unless the change is repeated.
RangeKeys(e) ==
    LET start == [e EXCEPT !.zmult = 1, !.gotmult = FALSE]
        first == GetKeys(start, Movements \union {e.bindk, "2", "vi-cmd-mode"})
        keys == {r \in first : r[1] # "2"} \union
                UNION {GetKeys([r[2] EXCEPT !.zmult = 2], Movements \union {e.bindk}) :
                          r \in {q \in first : q[1] = "2"}}
        Count(f) == IF ~e.gotmult THEN f
                    ELSE [f EXCEPT !.zmult = IF e.vichgrepeat THEN e.zmult ELSE @ * e.zmult,
                                   !.gotmult = TRUE]
    IN  {<<r[1], Count(r[2])>> : r \in keys}

NoRange(e) == [ok |-> FALSE, end |-> 0, e |-> [e EXCEPT !.virangeflag = 0]]

\* As many whole lines as the count says, down or up, with this one.
LineRange(e) ==
    LET f == [e EXCEPT !.vilinerange = TRUE]
        n == IF e.zmult < 0 THEN -e.zmult ELSE e.zmult
        \* the end of the line n - 1 lines down, the start of the one as far up
        Down(k) == Times(k, LAMBDA x : IF x > ll(e) THEN x ELSE findeol(e.line, x) + 1, e.cs)
        Up(k) == Times(k, LAMBDA x : IF x < 0 THEN x ELSE findbol(e.line, x) - 1, e.cs)
    IN  IF n = 0 THEN NoRange(f)
        ELSE IF e.zmult > 0
        THEN IF Down(n - 1) > ll(e) THEN NoRange(f)
             ELSE [ok |-> TRUE, end |-> Down(n) - 1, e |-> At(f, Bol(e))]
        ELSE IF Up(n - 1) < 0 THEN NoRange(f)
             ELSE [ok |-> TRUE, end |-> Eol(e), e |-> At(f, Up(n) + 1)]

\* From where the cursor was to where movement k takes it.
MoveRange(e, m, k) ==
    LET start == IF m.virangeflag = -1 THEN e.cs + 1 ELSE e.cs
        lo == Min({start, m.cs})
        hi == Max({start, m.cs})
    IN  IF m.cs = e.cs THEN NoRange(m)
        ELSE IF k \in LineMoves
        THEN [ok |-> TRUE, end |-> findeol(m.line, hi),
              e |-> [m EXCEPT !.cs = findbol(m.line, lo), !.virangeflag = 0,
                              !.vilinerange = TRUE]]
        ELSE [ok |-> TRUE, end |-> hi, e |-> [m EXCEPT !.cs = lo, !.virangeflag = 0]]

getvirange(e, wf) ==
    UNION {LET k == r[1]
               f == [r[2] EXCEPT !.vilinerange = FALSE]
           IN  IF k = "vi-cmd-mode" \/ e.line = <<>> THEN {NoRange(f)}
               ELSE IF k = e.bindk THEN {LineRange(f)}
               ELSE {MoveRange(f, m, k) : m \in Move([f EXCEPT !.virangeflag = 1], k, wf)}
           : r \in RangeKeys(e)}

\* A command on a range: Do(e, end); the change is complete afterwards.
OnRange(e, wf, Do(_, _), Else(_)) ==
    {IF r.ok THEN Do(r.e, r.end) ELSE Else(r.e) : r \in getvirange(startvichange(e, 1), wf)}

Complete(e) == [e EXCEPT !.vichgflag = FALSE, !.vilinerange = FALSE]

\* Whole lines go with one newline: theirs, or for the last the one before.
DeleteRange(e, end) ==
    LET f == forekill(e, end - e.cs, 0)
        g == IF f.cs = ll(f) THEN At(f, f.cs - 1) ELSE f
    IN  IF ~f.vilinerange \/ f.line = <<>> THEN Complete(f)
        ELSE Complete(Indented(foredel(g, 1)))

videlete(e) == OnRange(e, FALSE, DeleteRange, Complete)

\* When no range is given the change counts as going on.
vichange(e) ==
    OnRange(e, TRUE,
            LAMBDA f, end : [Inserting(forekill(f, end - f.cs, 0)) EXCEPT !.vilinerange = FALSE],
            LAMBDA f : [f EXCEPT !.vilinerange = FALSE])

viyank(e) ==
    OnRange(e, FALSE, LAMBDA f, end : At(Complete(cut(f, f.cs, end - f.cs, 0)), e.cs),
            LAMBDA f : At(Complete(f), e.cs))

vioperswapcase(e) ==
    OnRange(e, FALSE,
            LAMBDA f, end : Complete([f EXCEPT !.line = [i \in 1 .. ll(f) |->
                IF i - 1 \in f.cs .. end - 1 THEN swapcase(f.line[i]) ELSE f.line[i]]]),
            Complete)

\* A tab more or less at the beginning of each line of the range, whose end
\* is not moved along.  (Where the lines become shorter the code goes on behind
\* the last one; what it finds there is not modelled.)
Lines(e, end, F(_)) ==
    Times(ll(e) + 1, LAMBDA x : IF x.cs >= end \/ x.cs > ll(x) THEN x
                                ELSE LET y == F(x) IN At(y, findeol(y.line, y.cs) + 1), e)

IndentBy(e, F(_)) ==
    OnRange(e, FALSE,
            LAMBDA f, end :
                IF f.vilinerange THEN Complete(Indented(At(Lines(f, end, F), f.cs)))
                ELSE [At(f, e.cs) EXCEPT !.vichgflag = FALSE],
            Complete)

viindent(e) == IndentBy(e, LAMBDA x : spaceinline(x, <<"\t">>))
viunindent(e) ==
    IndentBy(e, LAMBDA x : IF x.cs < ll(x) /\ Ch(x.line, x.cs) = "\t" THEN foredel(x, 1) ELSE x)

---------------------------------------------------------------------------
(* Characters and lines. *)

\* The count is cut to what there is; none at the end of the line.
DeleteAhead(e) == IF e.cs = Eol(e) THEN e ELSE forekill(e, Min({e.zmult, Eol(e) - e.cs}), 0)

DeleteBehind(e) ==
    IF (e.tab # "alt" /\ e.cs - e.zmult < e.viinsbegin) \/ e.cs = Bol(e) THEN e
    ELSE backkill(e, Min({e.zmult, e.cs - Bol(e)}), 1)

\* With a negative count the other one runs, from its beginning.
videletechar(e) ==
    LET f == startvichange(e, -1)
    IN  IF f.zmult >= 0 THEN DeleteAhead(f)
        ELSE LET g == [f EXCEPT !.zmult = -@]
             IN  DeleteBehind(IF g.tab = "alt" THEN startvichange(g, -1) ELSE g)

vibackwarddeletechar(e) ==
    LET f == IF e.tab = "alt" THEN startvichange(e, -1) ELSE e
    IN  IF f.zmult >= 0 THEN DeleteBehind(f)
        ELSE DeleteAhead(startvichange([f EXCEPT !.zmult = -@], -1))

\* The change begins twice: the second time with the count as it was cut, and a
\* repetition is no repetition any more and records its keys anew.
visubstitute(e) ==
    LET f == startvichange(e, 1)
        g == [f EXCEPT !.zmult = Min({@, Eol(f) - f.cs})]
    IN  IF f.zmult < 0 \/ f.cs = Eol(f) THEN f ELSE startvitext(DeleteAhead(g), 1)

vichangeeol(e) == startvitext(forekill(e, Eol(e) - e.cs, 0), 1)
vichangewholeline(e) == vichangeeol(Indented(e))

vikilleol(e) ==
    LET f == startvichange(e, -1)
    IN  IF Eol(e) = e.cs THEN f ELSE forekill(f, Eol(f) - f.cs, 0)

viyankeol(e) ==
    LET f == startvichange(e, -1) IN IF Eol(e) = e.cs THEN f ELSE cut(f, f.cs, Eol(f) - f.cs, 0)

\* vilinerange stays set.
viyankwholeline(e) ==
    LET f == startvichange(e, -1)
        Down(k) == Times(k, LAMBDA x : IF x > ll(f) THEN x ELSE findeol(f.line, x) + 1, f.cs)
    IN  IF f.zmult < 1 \/ Down(f.zmult - 1) > ll(f) THEN f
        ELSE cut([f EXCEPT !.vilinerange = TRUE], Bol(f), Down(f.zmult) - Bol(f) - 1, 0)

\* A newline takes the place of all the characters.
vireplacechars(e) ==
    LET Replace(f, ch) ==
            IF ch = "none" \/ f.zmult < 0 \/ f.zmult + f.cs > Eol(f) THEN f
            ELSE IF ch = NL
            THEN LET g == backkill(At(f, f.cs + f.zmult - 1), f.zmult - 1, 0)
                 IN  [g EXCEPT !.line = Put(@, g.cs, NL), !.cs = @ + 1]
            ELSE [f EXCEPT !.line = [i \in 1 .. ll(f) |->
                                        IF i - 1 \in f.cs .. f.cs + f.zmult - 1 THEN ch
                                        ELSE f.line[i]],
                           !.cs = @ + f.zmult - 1]
    IN  {[Replace(r[2], r[1]) EXCEPT !.vichgflag = FALSE] : r \in vigetkey(startvichange(e, 1))}

viswapcase(e) ==
    LET f == startvichange(e, -1)
        to == Min({Eol(f), f.cs + f.zmult})
        g == [f EXCEPT !.line = [i \in 1 .. ll(f) |-> IF i - 1 \in f.cs .. to - 1
                                                      THEN swapcase(f.line[i]) ELSE f.line[i]],
                       !.cs = to]
    IN  IF f.zmult < 1 THEN f ELSE IF to > 0 /\ to = Eol(f) THEN At(g, to - 1) ELSE g

\* The next line is joined, its leading blanks making one.
vijoin(e) ==
    LET f == startvichange(e, -1)
        x == Eol(f)
        to == SkipF(f.line, x + 1, iblank)
        g == backdel(At(f, to), to - x)
    IN  IF x = ll(f) THEN f
        ELSE IF g.cs > 0 /\ iblank(Ch(g.line, g.cs - 1)) THEN At(g, g.cs - 1)
        ELSE spaceinline(g, <<" ">>)

\* Whole lines go on lines of their own, vilinerange stays set.
PutLines(e, b, after) ==
    LET f == spaceinline(At(e, IF after THEN Eol(e) ELSE Bol(e)),
                         IF after THEN <<NL>> \o b.buf ELSE b.buf \o <<NL>>)
    IN  Indented([f EXCEPT !.vilinerange = TRUE, !.cs = IF after THEN @ + 1 ELSE @])

PutChars(e, b) ==
    LET s == Copies(b.buf, e.zmult)
        f == [spaceinline(e, s) EXCEPT !.cs = @ + Len(s), !.vilinerange = FALSE]
    IN  IF f.cs > 0 THEN At(f, f.cs - 1) ELSE f

viputbefore(e) ==
    LET f == startvichange(e, -1)
    IN  IF f.zmult < 0 \/ ~Source(f).set THEN f
        ELSE IF Source(f).line THEN PutLines(f, Source(f), FALSE) ELSE PutChars(f, Source(f))

viputafter(e) ==
    LET f == startvichange(e, -1)
    IN  IF f.zmult < 0 \/ ~Source(f).set THEN f
        ELSE IF Source(f).line THEN PutLines(f, Source(f), TRUE)
        ELSE PutChars(IF f.cs # Eol(f) THEN At(f, f.cs + 1) ELSE f, Source(f))

\* Within the insertion, or (^U) all of it.
vibackwardkillword(e) ==
    LET lim == Max({e.viinsbegin, Bol(e)})
        Back(x, P(_)) == IF x <= lim THEN x
                         ELSE Max({j \in lim .. x : j = lim \/ ~P(Ch(e.line, j - 1))})
        Step(x) == LET y == Back(x, iblank)
                   IN  IF y > lim /\ iident(Ch(e.line, y - 1)) THEN Back(y, iident)
                       ELSE Back(y, Punct)
    IN  IF e.zmult < 0 THEN e ELSE backkill(e, e.cs - Times(e.zmult, Step, e.cs), 1)

vikillline(e) == IF e.viinsbegin > e.cs THEN e ELSE backdel(e, e.cs - e.viinsbegin)

vipoundinsert(e) ==
    LET f == Indented(startvichange(e, -1))
        b == f.cs
    IN  IF ChOr(f.line, b, f.past) # "#"
        THEN [spaceinline(f, <<"#">>) EXCEPT
                 !.viinsbegin = IF b <= @ THEN @ + 1 ELSE @,
                 !.cs = IF b <= e.cs THEN e.cs + 1 ELSE e.cs]
        ELSE [foredel(f, 1) EXCEPT !.viinsbegin = IF b < @ THEN @ - 1 ELSE @,
                                   !.cs = IF b < e.cs THEN e.cs - 1 ELSE e.cs]

\* The '^' shown meanwhile is gone before the character is inserted.
viquotedinsert(e) == {selfinsert(r[2], r[1]) : r \in GetKeys(e, CharKeys)}

---------------------------------------------------------------------------
(* Buffers, marks, repetition. *)

\* "A means buffer "a, appending.
visetbuffer(e) ==
    IF e.spec # "none" THEN {e}
    ELSE {CASE r[1] \in {"a", "1", "2"} -> [r[2] EXCEPT !.spec = r[1], !.append = FALSE]
            [] r[1] = "A" -> [r[2] EXCEPT !.spec = "a", !.append = TRUE]
            [] OTHER -> r[2]
          : r \in GetKeys(e, {"a", "A", "2", " "})}

visetmark(e) == [e EXCEPT !.vimarks = [cs |-> e.cs, line |-> e.histline]]

vigotomark(e) ==
    LET m == e.vimarks
        f == IF curhist(e) = m.line THEN e
             ELSE vifetchhistory([e EXCEPT !.zmult = m.line, !.gotmult = TRUE])
    IN  IF m.line = 0 THEN e
        ELSE IF curhist(e) # m.line /\ f.histline # m.line THEN f
        ELSE At(f, Min({m.cs, ll(f)}))

vigotomarkline(e) == Indented(vigotomark(e))

virepeatchange(e) ==
    IF ~e.vichgbuf.set \/ e.vichgflag THEN e
    ELSE [e EXCEPT !.lastmult = IF e.gotmult THEN e.zmult ELSE @,
                   !.lastgotmult = @ \/ e.gotmult,
                   !.lastspec = IF e.spec # "none" THEN e.spec ELSE @,
                   !.inrepeat = TRUE, !.unget = e.vichgbuf.text \o @]
============================================================================
