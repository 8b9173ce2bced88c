------------------------------ MODULE ZleEdit ------------------------------
(***************************************************************************)
(* The editing commands of zle_misc.c and zle_word.c and the functions of  *)
(* zle_utils.c they are made of: space and deletion, the kill buffers,     *)
(* the undo ring.  An editor is a record; a command maps editors to        *)
(* editors.  feep() changes nothing and is not represented.  Its fields    *)
(* carry the source's names, shortened where TLA+ has no room:             *)
(*                                                                         *)
(*   line, cs, mark       the text (ll is its length), cursor, mark        *)
(*   past                 what a read of line[ll] finds                    *)
(*   c                    the key last read                                *)
(*   zmult, gotmult       the count                                        *)
(*   spec, append         the vi buffer named for this command (vibufspec, *)
(*                        gotvibufspec, vibufappend)                       *)
(*   lastcmd              the flags of the command before                  *)
(*   undos, undoct, lastline, lastcs, undoing                              *)
(*   cutbuf, kring, kringnum, kct, yankb, yanke, vibuf, vilinerange        *)
(***************************************************************************)
EXTENDS ZleLine, SequencesExt

CONSTANTS
    UNDOCT,     \* entries of the undo ring
    KRINGCT,    \* entries of the kill ring
    Past        \* the characters that may lie behind the end of the line

ASSUME EditBounds == /\ UNDOCT \in Nat \ {0} /\ KRINGCT \in Nat \ {0}
                     /\ IsFiniteSet(Past)

NUL == "nul"
NoBuf == [set |-> FALSE, buf |-> <<>>, line |-> FALSE]
NoChange == [set |-> FALSE, pref |-> 0, suff |-> 0, change |-> <<>>, cs |-> 0]

ll(e) == Len(e.line)
Text(e, i, ct) == SubSeq(e.line, i + 1, i + ct)
Before(e, i) == SubSeq(e.line, 1, i)
After(e, i) == SubSeq(e.line, i + 1, ll(e))

\* spaceinline(Len(s)) and the copy that always follows it.
spaceinline(e, s) ==
    [e EXCEPT !.line = Before(e, e.cs) \o s \o After(e, e.cs),
              !.mark = IF @ > e.cs THEN @ + Len(s) ELSE @,
              !.past = NUL]

shiftchars(e, to, cnt) ==
    [e EXCEPT !.line = Before(e, to) \o After(e, to + cnt),
              !.mark = IF @ >= to + cnt THEN @ - cnt ELSE IF @ > to THEN to ELSE @,
              !.past = NUL]

backdel(e, ct) == shiftchars([e EXCEPT !.cs = @ - ct], e.cs - ct, ct)
foredel(e, ct) == shiftchars(e, e.cs, ct)

---------------------------------------------------------------------------
(* Kill buffers. *)

\* A named buffer is replaced, or appended to: whole lines are separated,
\* and a buffer of whole lines is not appended to a part of a line.
CutNamed(e, s) ==
    LET b == e.vibuf[e.spec]
        app == e.append /\ b.set /\ ~(b.line /\ ~e.vilinerange)
    IN  [e EXCEPT !.vibuf[e.spec] =
                      [set |-> TRUE, line |-> e.vilinerange,
                       buf |-> IF ~app THEN s
                               ELSE b.buf \o (IF e.vilinerange THEN <<NL>> ELSE <<>>) \o s],
                  !.append = @ /\ ~(b.line /\ ~e.vilinerange)]

\* The numbered buffers "1 to "9 of which the model has the first two.
ShiftNumbered(e, s) ==
    [e EXCEPT !.vibuf["2"] = e.vibuf["1"],
              !.vibuf["1"] = [set |-> TRUE, line |-> e.vilinerange, buf |-> s]]

\* A command that follows another kill adds to the buffer, at the end or (dir)
\* at the front; any other starts a new one and puts the old in the ring.
CutRing(e, s, dir) ==
    LET new == e.cutbuf.set /\ "KILL" \notin e.lastcmd
        n == (e.kringnum + 1) % KRINGCT
        old == IF new THEN <<>> ELSE e.cutbuf.buf
    IN  [e EXCEPT !.kringnum = IF new THEN n ELSE @,
                  !.kring = IF new THEN [@ EXCEPT ![n] = e.cutbuf] ELSE @,
                  !.cutbuf = [set |-> TRUE, line |-> e.vilinerange,
                              buf |-> IF dir = 1 THEN s \o old ELSE old \o s]]

\* A plausible slip: what is killed backward goes to the end as well.
CutText_AtTheEnd(e, s, dir) ==
    IF e.spec # "none" THEN CutNamed(e, s) ELSE CutRing(ShiftNumbered(e, s), s, 0)

CutText(e, s, dir) ==
    IF e.spec # "none" THEN CutNamed(e, s) ELSE CutRing(ShiftNumbered(e, s), s, dir)

cut(e, i, ct, dir) == CutText(e, Text(e, i, ct), dir)

backkill(e, ct, dir) ==
    shiftchars(cut([e EXCEPT !.cs = @ - ct], e.cs - ct, ct, dir), e.cs - ct, ct)

forekill(e, ct, dir) == shiftchars(cut(e, e.cs, ct, dir), e.cs, ct)

---------------------------------------------------------------------------
(* Undo: entry undoct holds what turns the line into the one before. *)

\* Length of the common prefix of two lines, and of the common suffix of what
\* is left of them.
CommonPrefix(a, b) ==
    Max({k \in 0 .. Min({Len(a), Len(b)}) : SubSeq(a, 1, k) = SubSeq(b, 1, k)})

CommonSuffix(a, b, p) ==
    Max({k \in 0 .. Min({Len(a), Len(b)}) - p :
            SubSeq(a, Len(a) - k + 1, Len(a)) = SubSeq(b, Len(b) - k + 1, Len(b))})

DeltaWith(e, p, s) ==
    [set |-> TRUE, pref |-> p, suff |-> s, cs |-> e.lastcs,
     change |-> SubSeq(e.lastline, p + 1, Len(e.lastline) - s)]

\* A plausible slip: the suffix is measured over the whole of both lines.
Delta_Overlaps(e) ==
    DeltaWith(e, CommonPrefix(e.line, e.lastline), CommonSuffix(e.line, e.lastline, 0))

Delta(e) ==
    LET p == CommonPrefix(e.line, e.lastline)
    IN  DeltaWith(e, p, CommonSuffix(e.line, e.lastline, p))

initundo(e) ==
    [e EXCEPT !.undos = [i \in 0 .. UNDOCT - 1 |-> NoChange], !.undoct = 0,
              !.lastline = e.line, !.lastcs = e.cs]

addundo(e) ==
    IF e.line = e.lastline THEN e
    ELSE LET n == (e.undoct + 1) % UNDOCT
         IN  [e EXCEPT !.undoct = n, !.undos[n] = Delta(e),
                       !.lastline = e.line, !.lastcs = e.cs]

\* The line that entry u makes of l; what lies outside l is unknown (NUL).
Undone(l, u) ==
    LET n == u.pref + Len(u.change)
    IN  [i \in 1 .. n + u.suff |->
            IF i <= u.pref THEN ChOr(l, i - 1, NUL)
            ELSE IF i <= n THEN u.change[i - u.pref]
            ELSE ChOr(l, Len(l) - u.suff + i - n - 1, NUL)]

\* line[ll] is left as it was in memory.
undo(e) ==
    LET u == e.undos[e.undoct]
        new == Undone(e.line, u)
        behind == IF Len(new) < ll(e) THEN {Ch(e.line, Len(new))}
                  ELSE IF Len(new) = ll(e) THEN {NUL} ELSE Past
    IN  IF ~u.set THEN {e}
        ELSE {[e EXCEPT !.line = new, !.cs = u.cs, !.past = p,
                        !.undos[e.undoct] = NoChange,
                        !.undoct = (@ + UNDOCT - 1) % UNDOCT] : p \in behind}

---------------------------------------------------------------------------
(* Inserting and deleting. *)

Rep(ch, n) == [i \in 1 .. n |-> ch]

\* insmode: insert; else overwrite, and make room only for what goes past the
\* end.  A count below zero leaves the cursor where it is.
selfinsert(e, ch) ==
    LET n == IF e.zmult < 0 THEN -e.zmult ELSE e.zmult
        to == IF e.zmult < 0 THEN e.cs ELSE e.cs + n
        roomy == IF e.insmode \/ ll(e) = e.cs THEN spaceinline(e, Rep(ch, n)) ELSE e
    IN  IF e.insmode \/ ll(e) = e.cs THEN [roomy EXCEPT !.cs = to]
        ELSE [e EXCEPT !.line = [i \in 1 .. ll(e) |-> IF i - 1 \in e.cs .. e.cs + n - 1
                                                      THEN ch ELSE e.line[i]],
                       !.cs = to]

\* Where overwriting would need room, spaceinline() gets a negative count.
OverwritesPastEnd(e) ==
    /\ ~e.insmode /\ ll(e) # e.cs
    /\ e.cs + (IF e.zmult < 0 THEN -e.zmult ELSE e.zmult) > ll(e)

backwarddeletecharN(e, n) == backdel(e, Min({n, e.cs}))
deletecharN(e, n) == IF e.cs + n <= ll(e) THEN backdel([e EXCEPT !.cs = @ + n], n) ELSE e

deletechar(e) ==
    IF e.zmult < 0 THEN backwarddeletecharN(e, -e.zmult) ELSE deletecharN(e, e.zmult)
backwarddeletechar(e) ==
    IF e.zmult < 0 THEN deletecharN(e, -e.zmult) ELSE backwarddeletecharN(e, e.zmult)

WordsBack(e, n) == backwardwordN(e.line, e.cs, n)
WordsAhead(e, n) == emacsforwardword(e.line, e.cs, n, FALSE)

deleteword(e) ==
    IF e.zmult < 0 THEN backdel(e, e.cs - WordsBack(e, -e.zmult))
    ELSE foredel(e, WordsAhead(e, e.zmult) - e.cs)
backwarddeleteword(e) == deleteword([e EXCEPT !.zmult = -@])

killword(e) ==
    IF e.zmult < 0 THEN backkill(e, e.cs - WordsBack(e, -e.zmult), 1)
    ELSE forekill(e, WordsAhead(e, e.zmult) - e.cs, 0)
backwardkillword(e) == killword([e EXCEPT !.zmult = -@])

\* Whole lines with their newline; at the end of the text, the one before it.
killwholeline(e) ==
    LET Step(x) ==
            LET fg == x.cs > 0 /\ x.cs = ll(x)
                b == findbol(x.line, IF fg THEN x.cs - 1 ELSE x.cs)
                i == findeol(x.line, b)
            IN  forekill([x EXCEPT !.cs = b], i - b + (IF i # ll(x) THEN 1 ELSE 0),
                         IF fg THEN 1 ELSE 0)
    IN  Times(e.zmult, Step, e)

killbuffer(e) == forekill([e EXCEPT !.cs = 0], ll(e), 0)

\* From line to line: a newline is one step, the rest of a line another.
\* The cursor may step on what lies behind the end (past).
KillAhead(e, n) ==
    Times(n, LAMBDA x : IF ChOr(e.line, x, e.past) = NL THEN x + 1
                        ELSE findeol(e.line, x), e.cs)
KillBehind(e, n) ==
    Times(n, LAMBDA x : IF x > 0 /\ Ch(e.line, x - 1) = NL THEN x - 1
                        ELSE findbol(e.line, x), e.cs)

killline(e) ==
    IF e.zmult < 0
    THEN forekill([e EXCEPT !.cs = KillBehind(e, -e.zmult)], e.cs - KillBehind(e, -e.zmult), 1)
    ELSE LET x == KillAhead(e, e.zmult)
         IN  shiftchars(CutText(e, SubSeq(e.line \o <<e.past>>, e.cs + 1, x), 0),
                        e.cs, x - e.cs)
backwardkillline(e) == killline([e EXCEPT !.zmult = -@])

killregion(e) ==
    LET m == Min({e.mark, ll(e)})
        f == [e EXCEPT !.mark = m]
    IN  IF m > e.cs THEN forekill(f, m - e.cs, 0) ELSE backkill(f, e.cs - m, 1)

copyregionaskill(e) ==
    LET m == Min({e.mark, ll(e)})
        f == [e EXCEPT !.mark = m]
    IN  IF m > e.cs THEN cut(f, e.cs, m - e.cs, 0) ELSE cut(f, m, e.cs - m, 1)

Source(e) == IF e.spec # "none" THEN e.vibuf[e.spec] ELSE e.cutbuf
Copies(s, n) == FlattenSeq(Rep(s, n))

\* spaceinline() has the mark at the cursor, not behind it: it stays.
yank(e) ==
    IF e.zmult < 0 \/ ~Source(e).set THEN e
    ELSE LET s == Copies(Source(e).buf, e.zmult)
         IN  [spaceinline([e EXCEPT !.mark = e.cs], s) EXCEPT
                 !.cs = @ + Len(s), !.yankb = e.cs,
                 !.yanke = IF e.zmult = 0 THEN @ ELSE e.cs + Len(s),
                 !.kct = IF e.zmult = 0 THEN @ ELSE e.kringnum]

\* What was yanked makes place for the entry of the ring before it.
Popped(e) ==
    LET s == e.kring[e.kct].buf
        f == foredel([e EXCEPT !.cs = e.yankb], e.yanke - e.yankb)
    IN  [spaceinline(f, s) EXCEPT !.cs = @ + Len(s), !.kct = (@ + KRINGCT - 1) % KRINGCT]

CanPop(e) == "YANK" \in e.lastcmd /\ e.kring[e.kct].set

yankpop(e) == IF CanPop(e) THEN [Popped(e) EXCEPT !.yanke = Popped(e).cs] ELSE e

---------------------------------------------------------------------------
(* Other commands. *)

setmarkcommand(e) == [e EXCEPT !.mark = e.cs]
exchangepointandmark(e) == [e EXCEPT !.mark = e.cs, !.cs = Min({e.mark, ll(e)})]
overwritemode(e) == [e EXCEPT !.insmode = ~@]

\* A copy of the word before the cursor and what follows it.  The search stops
\* at character 0 whether it belongs to the word or not.
copyprevword(e) ==
    LET w == Max({j \in -1 .. e.cs - 1 : j = -1 \/ iword(Ch(e.line, j))})
        b == Max({j \in -1 .. w : j = -1 \/ ~iword(Ch(e.line, j))})
        t0 == IF b = 0 THEN 0 ELSE b + 1
        s == Text(e, t0, e.cs - t0)
    IN  [spaceinline(e, s) EXCEPT !.cs = @ + Len(s)]

MapLine(e, p) == [e EXCEPT !.line = p[1], !.cs = p[2]]

\* '#' is put in front of every line, or taken away from all that have it.
PoundLines(e, F(_)) ==
    LET Step(p) ==
            LET y == F(p.e)
                z == findeol(y.line, y.cs)
            IN  IF p.last THEN p
                ELSE IF z = ll(y) THEN [e |-> y, last |-> TRUE]
                ELSE [e |-> [y EXCEPT !.cs = vifirstnonblank(y.line, z + 1)], last |-> FALSE]
        r == Times(ll(e) + 1, Step,
                   [e |-> [e EXCEPT !.cs = vifirstnonblank(e.line, 0)], last |-> FALSE])
    IN  [r.e EXCEPT !.cs = ll(r.e), !.done = TRUE]

poundinsert(e) ==
    LET b == vifirstnonblank(e.line, 0)
    IN  IF ChOr(e.line, b, e.past) # "#"
        THEN PoundLines(e, LAMBDA x : spaceinline(x, <<"#">>))
        ELSE PoundLines(e, LAMBDA x : IF ChOr(x.line, x.cs, x.past) = "#"
                                      THEN foredel(x, 1) ELSE x)

makequote(s) ==
    <<"'">> \o FlattenSeq([i \in 1 .. Len(s) |->
                              IF s[i] = "'" THEN <<"'", "\\", "'", "'">> ELSE <<s[i]>>])
            \o <<"'">>

quoteregion(e) ==
    LET m == Min({e.mark, ll(e)})
        b == Min({m, e.cs})
        s == makequote(Text(e, b, Max({m, e.cs}) - b))
        f == foredel([e EXCEPT !.cs = b, !.mark = Max({m, e.cs})], Max({m, e.cs}) - b)
    IN  [spaceinline(f, s) EXCEPT !.mark = b, !.cs = b + Len(s)]

quoteline(e) ==
    LET s == makequote(e.line)
    IN  {[e EXCEPT !.line = s, !.cs = Len(s), !.past = p] : p \in Past}

\* Counts.
digitargument(e, d) ==
    LET m == IF "DIGIT" \in e.lastcmd THEN e.zmult ELSE 0
    IN  [e EXCEPT !.zmult = m * 10 + (IF e.zmult < 0 THEN -d ELSE d), !.gotmult = TRUE]
negargument(e) == [e EXCEPT !.zmult = -1, !.gotmult = TRUE]
universalargument(e) ==
    [e EXCEPT !.zmult = IF "ARG" \in e.lastcmd THEN @ * 4 ELSE 4, !.gotmult = TRUE]
============================================================================
