------------------------------ MODULE ZleHist ------------------------------
(***************************************************************************)
(* The history commands of zle_hist.c.  Events are numbered from 1; event   *)
(* curhist is the line being typed.  More fields of the editor:            *)
(*                                                                         *)
(*   hist, zle_text       texts of the events, and as edited here          *)
(*   histline             the event the line is                            *)
(*   curhistline          the line being typed, while another is shown     *)
(*   lastcol, histpos     column of vertical moves, length searched for    *)
(*   visrchstr, visrchsense                                                *)
(*   bufstack, stackcs, stackhist   lines put aside, for the next zleread  *)
(*   lastinsert, lasthist, lastpos  of insert-last-word                    *)
(*   tab                  the key table: "main" or "alt", vi command mode  *)
(***************************************************************************)
EXTENDS ZleEdit

NoText == [set |-> FALSE, text |-> <<>>]
TextOf(s) == [set |-> TRUE, text |-> s]

curhist(e) == Len(e.hist) + 1

\* A plausible slip: only the line being typed is remembered.
remember_edits_Current(e) ==
    IF e.histline = curhist(e) THEN [e EXCEPT !.curhistline = TextOf(e.line)] ELSE e

remember_edits(e) ==
    IF e.histline = curhist(e) THEN [e EXCEPT !.curhistline = TextOf(e.line)]
    ELSE IF e.line = (IF e.zle_text[e.histline].set THEN e.zle_text[e.histline].text
                      ELSE e.hist[e.histline])
    THEN e
    ELSE [e EXCEPT !.zle_text[e.histline] = TextOf(e.line)]

forget_edits(e) == [e EXCEPT !.zle_text = [i \in DOMAIN e.hist |-> NoText]]

zle_get_event(e, ev) ==
    IF ev = curhist(e) THEN e.curhistline
    ELSE IF ev \notin DOMAIN e.hist THEN NoText
    ELSE IF e.zle_text[ev].set THEN e.zle_text[ev] ELSE TextOf(e.hist[ev])

setline(e, s) ==
    [e EXCEPT !.line = s, !.past = NUL,
              !.cs = IF e.tab = "alt" /\ s # <<>> THEN Len(s) - 1 ELSE Len(s)]

zle_goto_hist(e, ev) ==
    LET f == remember_edits(e)
        t == zle_get_event(f, ev)
    IN  IF t.set THEN setline([f EXCEPT !.histline = ev], t.text) ELSE f

\* For the second line on: moving n lines counts what is left to move.
uphistory(e, n) == zle_goto_hist(e, e.histline - n)
downhistory(e, n) == zle_goto_hist(e, e.histline + n)

beginningoflinehistory(e) ==
    LET r == IF e.zmult < 0 THEN endoflinehist(e.line, e.cs, -e.zmult)
             ELSE beginningoflinehist(e.line, e.cs, e.zmult)
        f == [e EXCEPT !.cs = r[1]]
    IN  IF r[2] = 0 THEN f
        ELSE IF e.zmult < 0 THEN downhistory(f, r[2])
        ELSE [uphistory(f, r[2]) EXCEPT !.cs = 0]

endoflinehistory(e) == beginningoflinehistory([e EXCEPT !.zmult = -@])

\* The column is that of the first of several vertical moves.  The result is
\* <<editor, lines that are left>>.
ToColumn(e) ==
    LET x == findeol(e.line, e.cs)
    IN  IF e.cs + e.lastcol < x THEN [e EXCEPT !.cs = @ + e.lastcol]
        ELSE IF x > findbol(e.line, x) /\ e.tab = "alt" THEN [e EXCEPT !.cs = x - 1]
        ELSE [e EXCEPT !.cs = x]

Column(e) == IF "LINEMOVE" \in e.lastcmd THEN e.lastcol ELSE e.cs - findbol(e.line, e.cs)

uplineN(e, n) ==
    LET r == Times(n, LAMBDA x : IF x[1] = 0 THEN x
                                 ELSE <<findbol(e.line, x[1] - 1), x[2] - 1>>,
                   <<findbol(e.line, e.cs), n>>)
        f == [e EXCEPT !.lastcol = Column(e), !.cs = r[1]]
    IN  <<IF r[2] = 0 THEN ToColumn(f) ELSE f, r[2]>>

\* ToColumn counts from the cursor: after a move down that is the beginning of
\* a line, with a count of 0 it is where the cursor was.
downlineN(e, n) ==
    LET r == Times(n, LAMBDA x : IF findeol(e.line, x[1]) = ll(e) THEN x
                                 ELSE <<findeol(e.line, x[1]) + 1, x[2] - 1>>, <<e.cs, n>>)
        f == [e EXCEPT !.lastcol = Column(e), !.cs = r[1]]
    IN  <<IF r[2] = 0 THEN ToColumn(f) ELSE f, r[2]>>

upline(e) == IF e.zmult < 0 THEN downlineN(e, -e.zmult) ELSE uplineN(e, e.zmult)
downline(e) == IF e.zmult < 0 THEN uplineN(e, -e.zmult) ELSE downlineN(e, e.zmult)

\* The lines that are left are moved in the history, upward even when a
\* negative count had the cursor go down; not for the range of a vi command.
OrElse(e, r, Other(_, _)) ==
    IF r[2] = 0 THEN r[1]
    ELSE LET f == [r[1] EXCEPT !.cs = e.cs]
         IN  IF e.virangeflag # 0 THEN f ELSE Other(f, r[2])

uplineorhistory(e) == OrElse(e, upline(e), uphistory)
downlineorhistory(e) == OrElse(e, downline(e), downhistory)

viuplineorhistory(e) ==
    LET f == uplineorhistory(e)
    IN  [f EXCEPT !.lastcol = e.lastcol, !.cs = vifirstnonblank(f.line, f.cs)]
vidownlineorhistory(e) ==
    LET f == downlineorhistory(e)
    IN  [f EXCEPT !.lastcol = e.lastcol, !.cs = vifirstnonblank(f.line, f.cs)]

beginningofhistory(e) == zle_goto_hist(e, 1)
endofhistory(e) == zle_goto_hist(e, curhist(e))
beginningofbufferorhistory(e) ==
    IF findbol(e.line, e.cs) # 0 THEN [e EXCEPT !.cs = 0] ELSE beginningofhistory(e)
endofbufferorhistory(e) ==
    IF findeol(e.line, e.cs) # ll(e) THEN [e EXCEPT !.cs = ll(e)] ELSE endofhistory(e)

vifetchhistory(e) ==
    IF e.zmult < 0 THEN e
    ELSE IF e.histline = curhist(e) /\ ~e.gotmult
    THEN [e EXCEPT !.cs = findbol(e.line, ll(e))]
    ELSE zle_goto_hist(e, IF e.gotmult THEN e.zmult ELSE curhist(e))

---------------------------------------------------------------------------
(* Searches. *)

\* The events from here in direction dir, and the n-th that satisfies P.
Ahead(e, dir) ==
    {h \in 1 .. curhist(e) : (IF dir = 1 THEN h > e.histline ELSE h < e.histline)
                             /\ zle_get_event(e, h).set}

NthHit(e, dir, n, P(_)) ==
    LET hits == {h \in Ahead(e, dir) : P(h)}
        nth == {h \in hits : Cardinality({g \in hits : IF dir = 1 THEN g < h ELSE g > h})
                             = (IF n < 1 THEN 0 ELSE n - 1)}
    IN  IF nth = {} THEN 0 ELSE CHOOSE h \in nth : TRUE

GotoHit(e, h) == IF h = 0 THEN e ELSE zle_goto_hist(e, h)

\* Begins with s and is longer; the line being typed may also be s itself.
Begins(e, h, s) ==
    LET t == zle_get_event(e, h).text
    IN  IsPrefix(s, t) /\ (t # s \/ h = curhist(e))
Begins_Strictly(e, h, s) ==
    LET t == zle_get_event(e, h).text
    IN  IsPrefix(s, t) /\ t # s

SearchLength(e) ==
    LET w == Min({j \in 0 .. ll(e) : j = ll(e) \/ iblank(Ch(e.line, j))})
    IN  IF w < ll(e) THEN w + 1 ELSE w

\* The first word, as it was when the series of searches began.
historysearch(e, dir) ==
    LET d == IF e.zmult < 0 THEN -dir ELSE dir
        t0 == IF "HISTSEARCH" \in e.lastcmd THEN e.histpos ELSE SearchLength(e)
        f == [e EXCEPT !.histpos = t0]
        s == Before(e, Min({t0, ll(e)}))
    IN  GotoHit(f, NthHit(f, d, IF e.zmult < 0 THEN -e.zmult ELSE e.zmult,
                          LAMBDA h : /\ IF d = 1 THEN Begins(f, h, s)
                                        ELSE Begins_Strictly(f, h, s)
                                     /\ zle_get_event(f, h).text # f.line))

uplineorsearch(e) ==
    OrElse(e, upline(e), LAMBDA f, n : historysearch([f EXCEPT !.zmult = n], -1))
downlineorsearch(e) ==
    OrElse(e, downline(e), LAMBDA f, n : historysearch([f EXCEPT !.zmult = n], 1))

\* What is before the cursor; the cursor stays.
historybeginningsearch(e, dir) ==
    LET d == IF e.zmult < 0 THEN -dir ELSE dir
        s == Before(e, e.cs)
        h == NthHit(e, d, IF e.zmult < 0 THEN -e.zmult ELSE e.zmult,
                    LAMBDA g : /\ IF d = 1 THEN Begins(e, g, s) ELSE Begins_Strictly(e, g, s)
                               /\ zle_get_event(e, g).text # e.line)
    IN  IF h = 0 THEN e ELSE [zle_goto_hist(e, h) EXCEPT !.cs = e.cs]

Occurs(p, t) == \E i \in 0 .. Len(t) - Len(p) : SubSeq(t, i + 1, i + Len(p)) = p

\* A negative count turns the sense of the searches that follow, too.
virepeatsearch(e) ==
    IF ~e.visrchstr.set THEN e
    ELSE LET sense == IF e.zmult < 0 THEN -e.visrchsense ELSE e.visrchsense
             f == [e EXCEPT !.visrchsense = sense]
             p == e.visrchstr.text
         IN  GotoHit(f, NthHit(f, sense, IF e.zmult < 0 THEN -e.zmult ELSE e.zmult,
                    LAMBDA h : LET t == zle_get_event(f, h).text
                               IN  t # f.line
                                   /\ IF p # <<>> /\ Head(p) = "^" THEN IsPrefix(Tail(p), t)
                                      ELSE t # <<>> /\ Occurs(p, t)))

virevrepeatsearch(e) ==
    LET f == virepeatsearch([e EXCEPT !.visrchsense = -@])
    IN  [f EXCEPT !.visrchsense = -@]

\* After getvisrchstr() has read p; an empty line leaves the search.
vihistorysearch(e, sense, p) ==
    virepeatsearch([e EXCEPT !.visrchsense = sense, !.visrchstr = TextOf(p)])

\* The event after an earlier one that reads like the line.  These look at
\* the events as they were entered.
qgetevent(e, ev) ==
    IF ev = curhist(e) THEN e.curhistline
    ELSE IF ev \in DOMAIN e.hist THEN TextOf(e.hist[ev]) ELSE NoText

Inferred(e) ==
    LET same == {t \in 1 .. e.histline - 2 : qgetevent(e, t).text = e.line}
    IN  IF same = {} THEN 0 ELSE Max(same) + 1

infernexthistory(e) == GotoHit(e, Inferred(e))

---------------------------------------------------------------------------
(* Lines put aside. *)

push(e, s) == [e EXCEPT !.bufstack = <<s>> \o @]

acceptline(e) == [e EXCEPT !.done = TRUE]
acceptandhold(e) == [push(e, e.line) EXCEPT !.stackcs = e.cs, !.done = TRUE]

acceptlineanddownhistory(e) ==
    LET s == zle_get_event(e, e.histline + 1)
    IN  IF ~s.set THEN e
        ELSE [push(e, s.text) EXCEPT !.stackhist = e.histline + 1, !.done = TRUE]

acceptandinfernexthistory(e) ==
    LET h == Inferred(e)
    IN  IF h = 0 THEN acceptline(e)
        ELSE [push(e, qgetevent(e, h).text) EXCEPT !.stackhist = h, !.done = TRUE]

\* The line goes on the stack with empty ones on top of it, to come back
\* after as many lines.  A count of 0 counts down from there.
pushline(e) ==
    IF e.zmult < 0 THEN e
    ELSE [Times(e.zmult - 1, LAMBDA x : push(x, <<>>), push(e, e.line)) EXCEPT
             !.stackcs = e.cs, !.line = <<>>, !.cs = 0, !.past = NUL]

getline(e) ==
    IF e.bufstack = <<>> THEN e
    ELSE LET s == Head(e.bufstack)
         IN  [spaceinline(e, s) EXCEPT !.cs = @ + Len(s), !.bufstack = Tail(@)]

\* zmult-th word from the end of an event; called again at the same place, the
\* word of the event before instead.
WordsOf(s) ==
    LET starts == {i \in 1 .. Len(s) : s[i] \notin Blank /\ (i = 1 \/ s[i - 1] \in Blank)}
        End(i) == Max({j \in i .. Len(s) : \A k \in i .. j : s[k] \notin Blank})
    IN  [n \in 1 .. Cardinality(starts) |->
            LET i == CHOOSE x \in starts : Cardinality({y \in starts : y < x}) = n - 1
            IN  SubSeq(s, i, End(i))]

insertlastword(e) ==
    LET n0 == Len(e.lastinsert.text)
        again == /\ e.lastinsert.set /\ e.lastpos <= e.cs /\ e.cs - e.lastpos = n0
                 /\ Text(e, e.lastpos, n0) = e.lastinsert.text
        ev == IF again THEN e.lasthist - 1 ELSE curhist(e) - 1
        f == IF again
             THEN [foredel([e EXCEPT !.cs = e.lastpos], n0) EXCEPT
                      !.lastinsert = NoText, !.lasthist = ev]
             ELSE [e EXCEPT !.lastinsert = NoText]
        w == IF ev \in DOMAIN e.hist THEN WordsOf(e.hist[ev]) ELSE <<>>
        n == IF e.zmult > 0 THEN Len(w) - (e.zmult - 1) ELSE 1 - e.zmult
    IN  IF n \notin DOMAIN w THEN f
        ELSE [spaceinline(f, w[n]) EXCEPT
                 !.cs = @ + Len(w[n]), !.lastinsert = TextOf(w[n]),
                 !.lasthist = ev, !.lastpos = f.cs]
============================================================================
