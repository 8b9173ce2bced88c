-------------------------------- MODULE Zle --------------------------------
(***************************************************************************)
(* The line editor: zleread()'s loop of zle_main.c over the commands of     *)
(* ZleEdit, ZleHist and ZleVi, from one line to the next.                  *)
(*                                                                         *)
(* A step reads a key, runs the command it is bound to and does what        *)
(* zleread() does around every command.  z is the editor; its field h has  *)
(* what the properties need to remember:                                   *)
(*   changes   the lines that undo is to bring back, the latest last       *)
(*   want      the line the last undo was to bring back                    *)
(*   kill      the line when the present series of kills began             *)
(*   yank      the line without what was yanked last                       *)
(*   left      per event, its text when it was left for another            *)
(***************************************************************************)
EXTENDS ZleVi

CONSTANTS
    Sessions,   \* ways to use the editor, records: main and alt, the commands
                \* bound in the main table and in that of vi command mode;
                \* lines, those it may begin with; keys, how many are typed
    History,    \* the events there are
    MaxLen,     \* length of the line
    MaxCount,   \* count given to a command
    MaxStack,   \* lines put aside
    Quirks      \* corners of the code that are included, see Corner

VARIABLES z, session, keys

vars == <<z, session, keys>>

---------------------------------------------------------------------------
(* The command table. *)

KillCommands == {"backward-kill-line", "backward-kill-word", "copy-region-as-kill",
                 "kill-buffer", "kill-line", "kill-region", "kill-whole-line", "kill-word",
                 "vi-backward-kill-word", "vi-delete", "vi-kill-eol", "vi-kill-line"}
YankCommands == {"yank", "yank-pop", "vi-put-after", "vi-put-before"}

Flags(k) ==
       (IF k \in KillCommands THEN {"KILL"} ELSE {})
    \union (IF k \in YankCommands THEN {"YANK"} ELSE {})
    \union (IF k \in LineMoves \union {"up-line-or-search", "down-line-or-search"}
            THEN {"LINEMOVE"} ELSE {})
    \union (IF k \in {"up-line-or-search", "down-line-or-search",
                      "history-search-backward", "history-search-forward"}
            THEN {"HISTSEARCH"} ELSE {})
    \union (CASE k = "undo" -> {"UNDO"}
              [] k \in {"2", "3"} -> {"ARG", "DIGIT"}
              [] k = "neg-argument" -> {"ARG", "NEGARG"}
              [] k \in {"universal-argument", "vi-set-buffer"} -> {"ARG"}
              [] OTHER -> {})

EmacsEdit(e, k) ==
    CASE k = "set-mark-command" -> setmarkcommand(e)
      [] k = "overwrite-mode" -> overwritemode(e)
      [] k = "delete-char" -> deletechar(e)
      [] k = "backward-delete-char" -> backwarddeletechar(e)
      [] k = "delete-word" -> deleteword(e)
      [] k = "backward-delete-word" -> backwarddeleteword(e)
      [] k = "kill-word" -> killword(e)
      [] k = "backward-kill-word" -> backwardkillword(e)
      [] k = "kill-whole-line" -> killwholeline(e)
      [] k = "kill-buffer" -> killbuffer(e)
      [] k = "kill-line" -> killline(e)
      [] k = "backward-kill-line" -> backwardkillline(e)
      [] k = "kill-region" -> killregion(e)
      [] k = "copy-region-as-kill" -> copyregionaskill(e)
      [] k = "yank" -> yank(e)
      [] k = "yank-pop" -> yankpop(e)
      [] k = "copy-prev-word" -> copyprevword(e)
      [] k = "quote-region" -> quoteregion(e)
      [] k = "pound-insert" -> poundinsert(e)
      [] k = "up-case-word" -> MapLine(e, upcaseword(e.line, e.cs, e.zmult))
      [] k = "down-case-word" -> MapLine(e, downcaseword(e.line, e.cs, e.zmult))
      [] k = "capitalize-word" -> MapLine(e, capitalizeword(e.line, e.cs, e.zmult))
      [] k = "transpose-chars" -> MapLine(e, transposechars(e.line, e.cs, e.zmult))
      [] k = "transpose-words" -> MapLine(e, transposewords(e.line, e.cs, e.zmult, e.past))
      [] k = "gosmacs-transpose-chars" -> MapLine(e, gosmacstransposechars(e.line, e.cs))
      [] k = "2" -> digitargument(e, 2)
      [] k = "3" -> digitargument(e, 3)
      [] k = "neg-argument" -> negargument(e)
      [] k = "universal-argument" -> universalargument(e)

EmacsKeys == {"set-mark-command", "overwrite-mode", "delete-char", "backward-delete-char",
              "delete-word", "backward-delete-word", "kill-word", "backward-kill-word",
              "kill-whole-line", "kill-buffer", "kill-line", "backward-kill-line",
              "kill-region", "copy-region-as-kill", "yank", "yank-pop", "copy-prev-word",
              "quote-region", "pound-insert", "up-case-word", "down-case-word",
              "capitalize-word", "transpose-chars", "transpose-words",
              "gosmacs-transpose-chars", "2", "3", "neg-argument", "universal-argument"}

HistoryEdit(e, k) ==
    CASE k = "up-history" -> uphistory(e, e.zmult)
      [] k = "down-history" -> downhistory(e, e.zmult)
      [] k = "up-line-or-search" -> uplineorsearch(e)
      [] k = "down-line-or-search" -> downlineorsearch(e)
      [] k = "beginning-of-line-hist" -> beginningoflinehistory(e)
      [] k = "end-of-line-hist" -> endoflinehistory(e)
      [] k = "beginning-of-buffer-or-history" -> beginningofbufferorhistory(e)
      [] k = "end-of-buffer-or-history" -> endofbufferorhistory(e)
      [] k = "history-search-backward" -> historysearch(e, -1)
      [] k = "history-search-forward" -> historysearch(e, 1)
      [] k = "history-beginning-search-backward" -> historybeginningsearch(e, -1)
      [] k = "history-beginning-search-forward" -> historybeginningsearch(e, 1)
      [] k = "infer-next-history" -> infernexthistory(e)
      [] k = "insert-last-word" -> insertlastword(e)
      [] k = "push-line" -> pushline(e)
      [] k = "get-line" -> getline(e)
      [] k = "accept-line" -> acceptline(e)
      [] k = "accept-and-hold" -> acceptandhold(e)
      [] k = "accept-and-infer-next-history" -> acceptandinfernexthistory(e)
      [] k = "accept-line-and-down-history" -> acceptlineanddownhistory(e)
      [] k = "vi-fetch-history" -> vifetchhistory(e)
      [] k = "vi-repeat-search" -> virepeatsearch(e)
      [] k = "vi-rev-repeat-search" -> virevrepeatsearch(e)
      [] k = "vi-history-search-backward" -> vihistorysearch(e, -1, <<"a">>)
      [] k = "vi-history-search-forward" -> vihistorysearch(e, 1, <<"^", "a">>)

HistoryKeys == {"up-history", "down-history", "up-line-or-search", "down-line-or-search",
                "beginning-of-line-hist", "end-of-line-hist",
                "beginning-of-buffer-or-history", "end-of-buffer-or-history",
                "history-search-backward", "history-search-forward",
                "history-beginning-search-backward", "history-beginning-search-forward",
                "infer-next-history", "insert-last-word", "push-line", "get-line",
                "accept-line", "accept-and-hold", "accept-and-infer-next-history",
                "accept-line-and-down-history", "vi-fetch-history", "vi-repeat-search",
                "vi-rev-repeat-search", "vi-history-search-backward",
                "vi-history-search-forward"}

ViEdit(e, k) ==
    CASE k = "vi-cmd-mode" -> {vicmdmode(e)}
      [] k = "vi-add-next" -> {viaddnext(e)}
      [] k = "vi-add-eol" -> {viaddeol(e)}
      [] k = "vi-insert" -> {viinsert(e)}
      [] k = "vi-insert-bol" -> {viinsertbol(e)}
      [] k = "vi-replace" -> {vireplace(e)}
      [] k = "vi-open-line-below" -> {viopenlinebelow(e)}
      [] k = "vi-open-line-above" -> {viopenlineabove(e)}
      [] k = "vi-delete" -> videlete(e)
      [] k = "vi-change" -> vichange(e)
      [] k = "vi-yank" -> viyank(e)
      [] k = "vi-oper-swap-case" -> vioperswapcase(e)
      [] k = "vi-indent" -> viindent(e)
      [] k = "vi-unindent" -> viunindent(e)
      [] k = "vi-delete-char" -> {videletechar(e)}
      [] k = "vi-backward-delete-char" -> {vibackwarddeletechar(e)}
      [] k = "vi-substitute" -> {visubstitute(e)}
      [] k = "vi-change-eol" -> {vichangeeol(e)}
      [] k = "vi-change-whole-line" -> {vichangewholeline(e)}
      [] k = "vi-kill-eol" -> {vikilleol(e)}
      [] k = "vi-yank-eol" -> {viyankeol(e)}
      [] k = "vi-yank-whole-line" -> {viyankwholeline(e)}
      [] k = "vi-replace-chars" -> vireplacechars(e)
      [] k = "vi-swap-case" -> {viswapcase(e)}
      [] k = "vi-join" -> {vijoin(e)}
      [] k = "vi-put-before" -> {viputbefore(e)}
      [] k = "vi-put-after" -> {viputafter(e)}
      [] k = "vi-backward-kill-word" -> {vibackwardkillword(e)}
      [] k = "vi-kill-line" -> {vikillline(e)}
      [] k = "vi-pound-insert" -> {vipoundinsert(e)}
      [] k = "vi-quoted-insert" -> viquotedinsert(e)
      [] k = "vi-set-buffer" -> visetbuffer(e)
      [] k = "vi-set-mark" -> {visetmark(e)}
      [] k = "vi-goto-mark" -> {vigotomark(e)}
      [] k = "vi-goto-mark-line" -> {vigotomarkline(e)}
      [] k = "vi-repeat-change" -> {virepeatchange(e)}
      [] k \in {"undo", "vi-undo-change"} -> undo(e)
      [] k = "quote-line" -> quoteline(e)

ViKeys == {"vi-cmd-mode", "vi-add-next", "vi-add-eol", "vi-insert", "vi-insert-bol",
           "vi-replace", "vi-open-line-below", "vi-open-line-above", "vi-delete",
           "vi-change", "vi-yank", "vi-oper-swap-case", "vi-indent", "vi-unindent",
           "vi-delete-char", "vi-backward-delete-char", "vi-substitute", "vi-change-eol",
           "vi-change-whole-line", "vi-kill-eol", "vi-yank-eol", "vi-yank-whole-line",
           "vi-replace-chars", "vi-swap-case", "vi-join", "vi-put-before", "vi-put-after",
           "vi-backward-kill-word", "vi-kill-line", "vi-pound-insert", "vi-quoted-insert",
           "vi-set-buffer", "vi-set-mark", "vi-goto-mark", "vi-goto-mark-line",
           "vi-repeat-change", "undo", "vi-undo-change", "quote-line"}

MoveKeys == FindKeys \union LineMoves \union
            {"beginning-of-line", "end-of-line", "forward-char", "backward-char",
             "forward-word", "backward-word", "emacs-forward-word", "emacs-backward-word",
             "vi-forward-word", "vi-backward-word", "vi-forward-blank-word",
             "vi-backward-blank-word", "vi-forward-blank-word-end", "vi-forward-word-end",
             "vi-forward-char", "vi-backward-char", "vi-beginning-of-line",
             "vi-end-of-line", "vi-first-non-blank", "vi-goto-column",
             "vi-match-bracket", "exchange-point-and-mark", "vi-repeat-find",
             "vi-rev-repeat-find"}

Typing == {"a", "-", " ", NL}

\* What the command bound to key k makes of the editor.  Characters are
\* bound to self-insert in the main table only.
Run(e, k) ==
    CASE k \in Typing -> {IF e.tab = "main" THEN selfinsert(e, k) ELSE e}
      [] k \in MoveKeys -> Move(e, k, FALSE)
      [] k \in EmacsKeys -> {EmacsEdit(e, k)}
      [] k \in HistoryKeys -> {HistoryEdit(e, k)}
      [] k \in ViKeys -> ViEdit(e, k)

---------------------------------------------------------------------------
(* The loop of zleread(). *)

\* addundo() and the list of the lines it has recorded.
Record(e) ==
    LET f == addundo(e)
        seen == Append(e.h.changes, e.lastline)
    IN  IF e.line = e.lastline THEN f
        ELSE [f EXCEPT !.h.changes = IF Len(seen) > UNDOCT THEN Tail(seen) ELSE seen]

\* Before the command: count and buffer are for one command; a series of
\* undo commands, and what comes after it, begin with a record.
Prepare(e, k) ==
    LET f == IF "ARG" \in e.lastcmd THEN e
             ELSE [e EXCEPT !.zmult = 1, !.gotmult = FALSE, !.spec = "none", !.append = FALSE]
    IN  [IF ("UNDO" \in e.lastcmd) # ("UNDO" \in Flags(k)) /\ e.undoing THEN Record(f) ELSE f
            EXCEPT !.bindk = k]

\* After it: not past the last character in vi command mode.
Legalise(e) ==
    IF /\ e.tab = "alt" /\ e.cs > findbol(e.line, e.cs)
       /\ e.cs = ll(e) \/ Ch(e.line, e.cs) = NL
    THEN [e EXCEPT !.cs = @ - 1] ELSE e

Conclude(e, k) ==
    LET f == [Legalise(e) EXCEPT !.lastcmd = Flags(k)]
    IN  IF "UNDO" \notin Flags(k) /\ e.undoing THEN Record(f) ELSE f

---------------------------------------------------------------------------
(* What the properties remember. *)

\* Kills that take text next to the cursor.
KillsHere == {"kill-word", "backward-kill-word", "kill-line", "backward-kill-line",
              "kill-region"}

Remember(e, f, k) ==
    [f EXCEPT
        !.h.changes = IF k \in {"undo", "vi-undo-change"} /\ e.undos[e.undoct].set
                      THEN Front(@) ELSE @,
        !.h.want = IF k \in {"undo", "vi-undo-change"} /\ e.undos[e.undoct].set
                   THEN TextOf(Last(e.h.changes)) ELSE NoText,
        !.h.kill = IF k \notin KillsHere \/ e.spec # "none" THEN NoText
                   ELSE IF "KILL" \in e.lastcmd THEN @ ELSE TextOf(e.line),
        !.h.yank = IF k = "yank" /\ f.yankb = e.cs /\ f.cs = f.yanke THEN TextOf(e.line)
                   ELSE IF k = "yank-pop" THEN @ ELSE NoText,
        !.h.left = IF f.histline # e.histline
                   THEN [h \in 1 .. curhist(e) |-> IF h = e.histline THEN TextOf(e.line)
                                                   ELSE @[h]] ELSE @]

---------------------------------------------------------------------------
(* Corners of the code, left out unless Quirks names them: the editor b     *)
(* before the key, e when its command k begins, f when it ends.            *)

CornerBefore(b, e, k) ==
    \* a change after a series of undos is recorded on top of older records
    \* that belong to another line
    \/ /\ "interrupted_undo" \notin Quirks
       /\ "UNDO" \in b.lastcmd /\ k # "undo" /\ b.line # b.lastline
       /\ b.undos[b.undoct].set
    \* overwriting past the end makes the line shorter
    \/ /\ "overwrite_past_end" \notin Quirks
       /\ k \in Typing \union {"vi-quoted-insert"} /\ OverwritesPastEnd(e)
    \* a newline that lies behind the end of the line is killed as well
    \/ /\ "newline_behind" \notin Quirks
       /\ k \in {"kill-line", "backward-kill-line"} /\ e.past = NL
       /\ KillAhead(e, IF e.zmult < 0 THEN -e.zmult ELSE e.zmult) > ll(e)
    \* a yank-pop that was refused, and a vi put, count as a yank: the next one
    \* takes away whatever is now where text was yanked before
    \/ /\ "stale_yank" \notin Quirks
       /\ k = "yank-pop" /\ CanPop(e) /\ ~e.h.yank.set

CornerAfter(e, k, f) ==
    \* turning a "skip" search that ends at the first character: before the line
    /\ "before_line" \notin Quirks
    /\ k \in {"vi-repeat-find", "vi-rev-repeat-find"} /\ f.cs < 0

---------------------------------------------------------------------------
(* Sessions. *)

\* What zleread() sets before its loop; the line put aside last, if any.
zleread(e) ==
    LET b == [e EXCEPT !.line = <<>>, !.cs = 0, !.mark = 0, !.histline = curhist(e),
                       !.curhistline = NoText, !.zmult = 1, !.gotmult = FALSE,
                       !.spec = "none", !.append = FALSE, !.lastcmd = {}, !.tab = "main",
                       !.undoing = TRUE, !.insmode = TRUE, !.virangeflag = 0,
                       !.vilinerange = FALSE, !.vichgflag = FALSE, !.viinsbegin = 0,
                       !.done = FALSE,
                       !.h = [changes |-> <<>>, want |-> NoText, kill |-> NoText,
                              yank |-> NoText,
                              left |-> [i \in 1 .. curhist(e) |-> NoText]]]
        s == setline(b, Head(b.bufstack))
        top == [s EXCEPT !.bufstack = Tail(@),
                         !.cs = IF e.stackcs # -1 THEN Min({e.stackcs, ll(s)}) ELSE @,
                         !.stackcs = -1,
                         !.histline = IF e.stackhist # -1 THEN e.stackhist ELSE @,
                         !.stackhist = -1]
    IN  initundo(IF e.bufstack = <<>> THEN b ELSE top)

\* An accepted line becomes an event; edits of others are forgotten.
Accepted(e) ==
    LET f == forget_edits([e EXCEPT !.hist = IF e.line = <<>> THEN @ ELSE Append(@, e.line)])
    IN  [f EXCEPT !.zle_text = [i \in DOMAIN f.hist |-> NoText]]

Fresh(s, c, p) ==
    [line |-> <<>>, cs |-> 0, mark |-> 0, past |-> p, zmult |-> 1, gotmult |-> FALSE,
     spec |-> "none", append |-> FALSE, lastcmd |-> {}, bindk |-> "none",
     undos |-> [i \in 0 .. UNDOCT - 1 |-> NoChange], undoct |-> 0, lastline |-> <<>>,
     lastcs |-> 0, undoing |-> TRUE, insmode |-> TRUE, tab |-> "main", done |-> FALSE,
     cutbuf |-> NoBuf, kring |-> [i \in 0 .. KRINGCT - 1 |-> NoBuf], kringnum |-> 0,
     kct |-> 0, yankb |-> 0, yanke |-> 0, vilinerange |-> FALSE,
     vibuf |-> [b \in {"a", "1", "2"} |-> NoBuf],
     hist |-> History, zle_text |-> [i \in DOMAIN History |-> NoText],
     histline |-> Len(History) + 1, curhistline |-> NoText, lastcol |-> 0, histpos |-> 0,
     visrchstr |-> NoText, visrchsense |-> 1, lastinsert |-> NoText, lasthist |-> 0,
     lastpos |-> 0, bufstack |-> <<s>>, stackcs |-> c, stackhist |-> -1,
     viinsbegin |-> 0, vichgflag |-> FALSE, vichgbuf |-> NoText, inrepeat |-> FALSE,
     vichgrepeat |-> FALSE, lastmult |-> 1, lastgotmult |-> FALSE, lastspec |-> "none",
     unget |-> <<>>, vfindchar |-> "a", vfinddir |-> 0, tailadd |-> 0, virangeflag |-> 0,
     vimarks |-> [cs |-> 0, line |-> 0],
     h |-> [changes |-> <<>>, want |-> NoText, kill |-> NoText, yank |-> NoText,
            left |-> <<>>]]

\* The first line comes from the stack of lines put aside, with its cursor.
Init ==
    /\ session \in Sessions
    /\ \E s \in session.lines : \E c \in 0 .. Len(s), p \in Past : z = zleread(Fresh(s, c, p))
    /\ keys = 0

\* One key and its command.  Keys given back are read before typed ones.
Key ==
    /\ ~z.done
    /\ \E r \in GetKeys(z, session[z.tab] \ {"send-break"}) :
       \E k \in {r[1]}, e \in {Prepare(r[2], r[1])} :
          /\ ~CornerBefore(z, e, k)
          /\ \E f \in Run(e, k) :
             /\ ~CornerAfter(e, k, f)
             /\ Len(f.line) <= MaxLen /\ Len(f.bufstack) <= MaxStack
             /\ f.zmult \in -MaxCount .. MaxCount
             /\ z' = Conclude(Remember(e, f, k), k)
             /\ keys' = IF z.unget = <<>> THEN keys + 1 ELSE keys
    /\ keys < session.keys \/ z.unget # <<>>
    /\ UNCHANGED session

\* The line is accepted, the next is read.
NextLine ==
    /\ z.done
    /\ z' = zleread(Accepted(z))
    /\ UNCHANGED <<session, keys>>

\* send-break, or an interrupt: the line is given up.
SendBreak ==
    /\ ~z.done /\ z.unget = <<>> /\ keys < session.keys /\ "send-break" \in session[z.tab]
    /\ z' = zleread(forget_edits(z))
    /\ keys' = keys + 1
    /\ UNCHANGED session

Next == Key \/ NextLine \/ SendBreak

Spec == Init /\ [][Next]_vars

---------------------------------------------------------------------------
(* Properties. *)

\* Types; the cursor is in the line, and where there is something to undo the
\* record fits the line it is for (zle_main.c, the loop of zleread()).
TypeOK ==
    /\ session \in Sessions /\ keys \in 0 .. session.keys
    /\ z.cs \in 0 .. ll(z) /\ z.mark \in Nat /\ z.lastcs \in 0 .. Len(z.lastline)
    /\ z.undoct \in 0 .. UNDOCT - 1 /\ z.kringnum \in 0 .. KRINGCT - 1
    /\ z.histline \in 1 .. curhist(z) /\ z.tab \in {"main", "alt"}
    /\ z.virangeflag = 0

\* undo: "Incrementally undo the last text modification" (zshzle.man).  What
\* undo() makes of the line from the ring is the line as it was before the
\* last change that is not undone yet, over commands that change it at both
\* ends, a ring that wraps, insertions in vi mode that count as one change.
UndoGoesBack == z.h.want.set => z.line = z.h.want.text

\* A series of kills at the cursor, whatever their directions and counts, is in
\* the kill buffer as it stood in the line: yank would bring all of it back
\* (cut() of zle_utils.c and the flag ZLE_KILL).
KillsCollect ==
    z.h.kill.set => Before(z, z.cs) \o z.cutbuf.buf \o After(z, z.cs) = z.h.kill.text

\* yank and the yank-pops after it change nothing but the text yanked: what is
\* between yankb and yanke is one of the buffers, the rest is the line as it
\* was (zle_misc.c).
YankPopReplaces ==
    z.h.yank.set =>
        /\ 0 <= z.yankb /\ z.yankb <= z.yanke /\ z.yanke <= ll(z)
        /\ Before(z, z.yankb) \o After(z, z.yanke) = z.h.yank.text

\* Whatever is killed, collected, yanked and replaced, the line and the buffers
\* together have the text (zle_utils.c, zle_misc.c).
NoKillIsLost == KillsCollect /\ YankPopReplaces

\* An event that was left for another reads, when it is come back to, as it
\* was left, edits included, until the line is accepted (remember_edits() of
\* zle_hist.c).
EditsKept ==
    \A ev \in DOMAIN z.h.left :
        ev # z.histline /\ z.h.left[ev].set => zle_get_event(z, ev) = z.h.left[ev]

\* Repeating a change leaves the change that the next repetition will repeat:
\* reading the keys again does not record them again, or where a repetition is
\* recorded anew (vi-substitute begins a change twice), what has been read and
\* what is still given back are the whole of it (zle_vi.c).
RecordedKeys == z.vichgbuf.text \o (IF z.vichgflag THEN z.unget ELSE <<>>)


---------------------------------------------------------------------------
(* Instances for TLC.  A keymap is a choice of commands around one subject,  *)
(* so that short sequences of keys reach what matters.                     *)

Insert == {"a", " "}

\* What may be read behind the end of the line.
MCPast == {"nul", "\n"}

\* Emacs: edit in place and undo.
EditMap == {"a", "backward-char", "undo", "transpose-chars", "transpose-words",
            "gosmacs-transpose-chars", "up-case-word", "down-case-word",
            "capitalize-word", "delete-word", "backward-delete-word", "delete-char",
            "backward-delete-char", "copy-prev-word", "quote-region", "quote-line",
            "set-mark-command", "overwrite-mode", "neg-argument", "2"}

\* Emacs: kill, yank, undo.
KillMap == {"a", "backward-char", "forward-word", "undo", "kill-word",
            "backward-kill-word", "kill-line", "backward-kill-line", "kill-region",
            "copy-region-as-kill", "kill-whole-line", "kill-buffer", "yank", "yank-pop",
            "set-mark-command", "exchange-point-and-mark", "neg-argument", "2"}

\* Moving about.
MoveMap == (MoveKeys \ FindKeys) \union {"2", "neg-argument", "universal-argument", "-"}

\* History and lines put aside.
HistMap == HistoryKeys \union {"a", "up-line-or-history", "down-line-or-history",
                               "neg-argument", "2", "undo", "send-break", "pound-insert"}

\* vi.
ViMain == {"a", "vi-cmd-mode", "vi-backward-delete-char", "vi-backward-kill-word",
           "vi-kill-line", "vi-quoted-insert"}

ViRanges == {"vi-delete", "vi-change", "vi-yank", "vi-oper-swap-case", "vi-indent",
             "vi-unindent", "vi-repeat-change", "2", "neg-argument", "vi-set-buffer"}
ViChanges == {"vi-add-next", "vi-add-eol", "vi-insert", "vi-insert-bol", "vi-replace",
              "vi-open-line-below", "vi-open-line-above", "vi-delete-char",
              "vi-backward-delete-char", "vi-substitute", "vi-change-eol",
              "vi-change-whole-line", "vi-kill-eol", "vi-yank-eol", "vi-yank-whole-line",
              "vi-replace-chars", "vi-swap-case", "vi-join", "vi-put-before",
              "vi-put-after", "vi-pound-insert", "vi-repeat-change", "vi-undo-change", "2"}
ViMoves == FindKeys \union {"vi-repeat-find", "vi-rev-repeat-find", "vi-set-mark",
            "vi-goto-mark", "vi-goto-mark-line", "vi-match-bracket", "vi-forward-word-end",
            "vi-up-line-or-history", "vi-down-line-or-history", "vi-fetch-history",
            "up-history", "vi-delete", "2"}

MCMovements == {"vi-forward-word", "vi-backward-word", "vi-forward-word-end",
                "vi-match-bracket", "vi-down-line-or-history", "vi-find-next-char"}

Words == <<"a", "A", " ", "-", "a">>
TwoLines == <<"a", NL, "b", " ">>
Paren == <<"(", "a", ")">>

\* Many commands and few keys; then few commands and more keys.
Emacs(S, L, n) == [main |-> S, alt |-> {}, lines |-> L, keys |-> n]
Vi(M, S, L, n) == [main |-> M, alt |-> S, lines |-> L, keys |-> n]

UndoSession ==
    Emacs({"a", "undo", "delete-char", "backward-char", "transpose-chars"}, {Paren}, 6)

MCUndoSessions == {UndoSession}

MCSessions ==
    {Emacs(EditMap, {Words, TwoLines, Paren}, 2),
     Emacs(KillMap, {Words, TwoLines}, 2),
     Emacs(MoveMap, {Words, TwoLines, Paren}, 2),
     Emacs(HistMap, {TwoLines}, 2),
     Vi(ViMain, ViChanges, {TwoLines}, 3),
     Vi(ViMain, ViMoves, {TwoLines, Paren}, 3),
     Vi(ViMain, ViRanges, {Words, TwoLines}, 2),
     UndoSession,
     Emacs({"kill-word", "backward-kill-word", "kill-line", "backward-kill-line", "2"},
           {Words, TwoLines}, 4),
     Emacs({"kill-word", "backward-kill-word", "yank", "yank-pop"}, {Words}, 6),
     Emacs({"a", "up-history", "down-history", "accept-line", "push-line"}, {Paren}, 5),
     Vi({"a", "vi-cmd-mode"}, {"vi-delete", "vi-change", "vi-put-after",
            "vi-repeat-change", "vi-undo-change"}, {Paren}, 4),
     Vi({"a", "vi-cmd-mode"}, {"vi-substitute", "vi-add-next", "vi-repeat-change", "2"}, {Paren}, 6)}

MCHistory == <<<<"a">>, <<"a", " ", "b">>, <<"a">>>>
============================================================================
