-------------------------------- MODULE Exec --------------------------------
(***************************************************************************)
(* How the shell executes a list: exec.c (execlist, doshfunc), loop.c, the *)
(* builtins of builtin.c that change the flow of control, the traps of     *)
(* signals.c and the read loop of init.c.                                  *)
(*                                                                         *)
(* The C functions call each other, and a jump out of them is not a jump:  *)
(* break, continue, return and an interrupt set breaks, contflag, retflag  *)
(* or errflag, every caller on the way up looks at some of them, and some  *)
(* caller must reset them.  The stack of this module is that C stack: a    *)
(* frame is an activation of execlist with the function that called it,    *)
(* and holds the locals of both.  The program is not given: at each point  *)
(* where the source has a list that may go on or a command that may be     *)
(* anything, every possibility is taken.                                   *)
(***************************************************************************)
EXTENDS Integers, Sequences, SequencesExt

CONSTANTS
  Jumps,         \* the counts given to break and continue
  Setups,        \* the shells that are looked at.  ERREXIT: whether it is set; ZERR, DEBUG:
                 \* the trap, "none", "list" (set by the trap builtin) or "function"
                 \* (TRAPZERR, TRAPDEBUG); ExitTraps: where an EXIT trap is set, "shell" or
                 \* "function"; Negates: whether there are pipelines with a ! in front; Depth: the
                 \* constructs the program uses, and below which depth of the stack none of
                 \* a kind is entered
  INTERACTIVE, USEZLE,   \* options
  Interrupts,    \* whether SIGINT arrives
  Quirks         \* what else the program does: see Quirk

AllQuirks == {"continue in condition", "return in condition",
              "compound trap", "interrupt over jump",
              "interrupt after last word", "negated return"}

ASSUME ConstantsAssumption ==
  /\ Jumps \subseteq Int
  /\ \A s \in Setups :
       /\ {s.ZERR, s.DEBUG} \subseteq {"none", "list", "function"} /\ {s.ERREXIT, s.Negates} \subseteq BOOLEAN
       /\ s.ExitTraps \subseteq {"shell", "function"}
       /\ DOMAIN s.Depth \subseteq {"for", "select", "while", "until", "if", "case", "eval", "fun", "source"}
       /\ \A k \in DOMAIN s.Depth : s.Depth[k] \in Nat
  /\ {INTERACTIVE, USEZLE, Interrupts} \subseteq BOOLEAN
  /\ Quirks \subseteq AllQuirks

VARIABLES
  stack,       \* the C stack, the shell's read loop first
  pc,          \* where the function on top of it is
  lastval,     \* the status of the last command
  breaks,      \* how many loops are still to be left
  contflag,    \* the last of them is to go on
  retflag,     \* a function or script is to return
  errflag,     \* an error or an interrupt: commands are not executed
  noerrexit,   \* a failure is being tested
  donetrap,    \* the static of execlist: ZERR has been served
  trapreturn,  \* negative in a trap function, then what it returned
  exittrap,    \* whether an EXIT trap is set
  cmd,         \* the command of this list executed last (history only)
  setup        \* the member of Setups; it does not change

control == <<breaks, contflag, retflag>>
error == <<noerrexit, donetrap>>
traps == <<trapreturn, exittrap>>
vars == <<stack, pc, lastval, control, errflag, error, traps, cmd>>

Top == Last(stack)
Under == Front(stack)

\* SetTop: the top frame with one field or more changed.
SetTop(f) == stack' = Append(Under, f)

LoopKinds == {"for", "select", "while", "until"}
LoopFrames ==
  {i \in DOMAIN stack : /\ stack[i].kind \in LoopKinds
                        /\ \A j \in i .. Len(stack) : stack[j].kind # "source"}
loops == Cardinality(LoopFrames)

\* What return returns from.
Callees == {i \in DOMAIN stack : stack[i].kind \in {"fun", "source"}}

\* The locals of execlist: the type of the current sublist and oldnoerrexit; and
\* of its caller: whether this is its condition or its body, olderrexit (execif,
\* execwhile) and oldval (execwhile).
Frame(k, ne) ==
  [kind |-> k, part |-> "body", op |-> "END", ne |-> ne, save |-> ne, val |-> 0]

\* Those of doshfunc: obreaks, the EXIT trap of the caller and, when the status
\* is not to be that of the function, oldlastval.  newexit: an EXIT trap was set
\* in the function.  breaks is 0 wherever a function is called, also from a trap.
FunFrame(noreturnval, ne) ==
  [kind |-> "fun", part |-> "body", op |-> "END", ne |-> ne,
   noreturnval |-> noreturnval, val |-> IF noreturnval THEN lastval ELSE 0,
   ob |-> 0, ex |-> exittrap, newexit |-> FALSE]

\* Those of dotrapargs and what execsave saves: obreaks, lastval, trapreturn; and
\* where dotrap was called.  oc and oret are history: the contflag and retflag
\* that the trap found.
TrapFrame(sig, back, ne) ==
  [kind |-> "trap", part |-> "body", op |-> "END", ne |-> ne,
   sig |-> sig, back |-> back, ob |-> breaks, val |-> lastval, tr |-> trapreturn,
   oc |-> contflag, oret |-> retflag]

TrapsRunning == {i \in DOMAIN stack : stack[i].kind = "trap"}

\* Whether the command to be executed may be more than a simple one.
Compounds == TrapsRunning = {} \/ "compound trap" \in Quirks

Init ==
  /\ setup \in Setups
  /\ stack = <<Frame("top", FALSE)>>
  /\ pc = "line"
  /\ lastval = 0
  /\ breaks = 0 /\ contflag = FALSE /\ retflag = FALSE
  /\ errflag = FALSE
  /\ noerrexit = FALSE /\ donetrap = FALSE
  /\ trapreturn = 0
  /\ exittrap = ("shell" \in setup.ExitTraps)
  /\ cmd = [op |-> "run", n |-> 0]

Ran == cmd' = [op |-> "run", n |-> 0]


Pop(next) == stack' = Under /\ pc' = next

----------------------------------------------------------------------------
(* execlist.                                                               *)

NextSublist ==
  /\ pc = "next" /\ breaks = 0 /\ ~retflag
  /\ donetrap' = FALSE
  /\ \E type \in {"END", "ANDNEXT", "ORNEXT"} :
       /\ SetTop([Top EXCEPT !.op = type])
       /\ noerrexit' = IF Top.ne THEN noerrexit ELSE type # "END"
  /\ pc' = "command"
  /\ UNCHANGED <<lastval, control, errflag, traps, cmd>>

ListEnds ==
  /\ pc = "next"
  /\ SetTop([Top EXCEPT !.op = "END"])
  /\ pc' = "left"
  /\ IF retflag THEN UNCHANGED cmd ELSE Ran
  /\ UNCHANGED <<lastval, control, errflag, error, traps>>

\* A variant, for checking that the properties tell it from the code: the status
\* of a skipped pipeline is zero.
Skipped_Succeeds ==
  /\ pc = "command"
  /\ \/ (breaks # 0 \/ retflag) /\ lastval' = 0
     \/ breaks = 0 /\ ~retflag /\ errflag /\ lastval' = 1
  /\ pc' = "chain"
  /\ UNCHANGED <<stack, control, errflag, error, traps, cmd>>

\* execpline2 executes nothing while a jump is pending, execcmd nothing after
\* an error.
Skipped ==
  /\ pc = "command"
  /\ \/ (breaks # 0 \/ retflag) /\ UNCHANGED lastval
     \/ breaks = 0 /\ ~retflag /\ errflag /\ lastval' = 1
  /\ pc' = "chain"
  /\ UNCHANGED <<stack, control, errflag, error, traps, cmd>>

\* What execpline returns: a ! in front of the pipeline turns the status round, also
\* when the pipeline was skipped or is what jumps.
PipelineStatus ==
  {lastval} \cup {v \in {0, 1} : /\ v # lastval /\ setup.Negates
                               /\ (~retflag \/ "negated return" \in Quirks)}

\* The loop over && and ||: on to the next pipeline that is not skipped, or to
\* the end of the sublist without executing its last one.
ChainTo(type) ==
  /\ pc = "chain" /\ Top.op # "END"
  /\ lastval' \in PipelineStatus
  /\ SetTop([Top EXCEPT !.op = type])
  /\ noerrexit' = IF Top.ne THEN noerrexit ELSE type # "END"
  /\ pc' = "command"
  /\ UNCHANGED <<control, errflag, donetrap, traps, cmd>>

ChainSkips ==
  /\ pc = "chain" /\ Top.op # "END"
  /\ lastval' \in PipelineStatus
  /\ (Top.op = "ANDNEXT") = (lastval' # 0)
  /\ donetrap' = TRUE
  /\ pc' = "ended"
  /\ UNCHANGED <<stack, control, errflag, noerrexit, traps, cmd>>

ChainEnds ==
  /\ pc = "chain" /\ Top.op = "END"
  /\ lastval' \in PipelineStatus
  /\ pc' = "ended"
  /\ UNCHANGED <<stack, control, errflag, error, traps, cmd>>

\* dotrapargs: what it saves, and the function or the list it runs.  It does
\* nothing after an error, and not for a trap that is already running.
Ignored(sig) == errflag \/ \E i \in TrapsRunning : stack[i].sig = sig

dotrap(sig, style, back, ne) ==
  IF Ignored(sig)
    THEN pc' = back /\ UNCHANGED <<stack, breaks, traps>>
    ELSE /\ breaks' = 0
         /\ pc' = "next"
         /\ \/ /\ style = "list"
               /\ stack' = Append(stack, TrapFrame(sig, back, ne))
               /\ UNCHANGED traps
            \/ /\ style = "function"
               /\ stack' = stack \o <<TrapFrame(sig, back, ne),
                                      FunFrame(TRUE, ne)>>
               /\ trapreturn' = -2 /\ exittrap' = FALSE

\* The end of a sublist: the DEBUG trap, the ZERR trap, ERREXIT.
SublistDone ==
  /\ pc = "ended"
  /\ noerrexit' = Top.ne
  /\ IF setup.DEBUG = "none"
       THEN pc' = "check" /\ UNCHANGED <<stack, breaks, traps>>
       ELSE dotrap("DEBUG", setup.DEBUG, "check", Top.ne)
  /\ UNCHANGED <<lastval, contflag, retflag, errflag, donetrap, cmd>>

\* zexit and the exit of ERREXIT: the EXIT trap, then exit(2).
LeaveShell ==
  IF exittrap
    THEN dotrap("EXIT", "list", "gone", noerrexit)
    ELSE pc' = "gone" /\ UNCHANGED <<stack, breaks, traps>>

ExitOnError ==
  IF lastval # 0 /\ setup.ERREXIT
    THEN LeaveShell /\ cmd' = [op |-> "errexit", n |-> 0]
    ELSE pc' = "next" /\ UNCHANGED <<stack, breaks, traps, cmd>>

CheckStatus ==
  /\ pc = "check"
  /\ IF noerrexit \/ donetrap
       THEN pc' = "next" /\ UNCHANGED <<stack, breaks, traps, cmd>>
       ELSE IF lastval # 0 /\ setup.ZERR # "none"
       THEN dotrap("ZERR", setup.ZERR, "told", noerrexit) /\ UNCHANGED cmd
       ELSE ExitOnError
  /\ UNCHANGED <<lastval, contflag, retflag, errflag, error>>

TrapTold ==
  /\ pc = "told"
  /\ donetrap' = TRUE
  /\ ExitOnError
  /\ UNCHANGED <<lastval, contflag, retflag, errflag, noerrexit>>

----------------------------------------------------------------------------
(* Commands.                                                               *)

Executing == pc = "command" /\ breaks = 0 /\ ~retflag /\ ~errflag

Simple ==
  /\ Executing
  /\ lastval' \in {0, 1}
  /\ Ran /\ pc' = "chain"
  /\ UNCHANGED <<stack, control, errflag, error, traps>>

\* An error in an expansion, a redirection or the arguments of a builtin.  Only in
\* a DEBUG trap can it come over a jump: that of a continue.
Fails ==
  /\ Executing
  /\ ~contflag \/ ("interrupt over jump" \in Quirks)
  /\ errflag' = TRUE /\ lastval' = 1
  /\ Ran /\ pc' = "chain"
  /\ UNCHANGED <<stack, control, error, traps>>

Least(a, b) == IF a < b THEN a ELSE b

bin_break(n) ==
  /\ Executing /\ Compounds /\ loops > 0
  /\ breaks' = Least(n, loops)
  /\ cmd' = [op |-> "break", n |-> n]
  /\ lastval' = 0 /\ pc' = "chain"
  /\ UNCHANGED <<stack, contflag, retflag, errflag, error, traps>>

\* The loop that continue goes on with: its condition may be what is running.
Target(n) ==
  CHOOSE i \in LoopFrames :
    Cardinality({j \in LoopFrames : j >= i}) = Least(n, loops)

bin_continue(n) ==
  /\ Executing /\ Compounds /\ loops > 0
  /\ \/ "continue in condition" \in Quirks
     \/ n < 1
     \/ stack[Target(n)].part = "body"
  /\ contflag' = TRUE
  /\ breaks' = Least(n, loops)
  /\ cmd' = [op |-> "continue", n |-> n]
  /\ lastval' = 0 /\ pc' = "chain"
  /\ UNCHANGED <<stack, retflag, errflag, error, traps>>

\* zexit: what it does to jobs and to the history is not modelled here.
bin_exit ==
  /\ Executing
  /\ LeaveShell
  /\ cmd' = [op |-> "exit", n |-> 0]
  /\ UNCHANGED <<lastval, contflag, retflag, errflag, error>>

bin_return(v) ==
  /\ Executing /\ (INTERACTIVE \/ Callees # {})
  /\ LET outer == {i \in DOMAIN stack : \E j \in Callees : i <= j}
         left == DOMAIN stack \ outer
     IN /\ "compound trap" \in Quirks \/ left \cap TrapsRunning = {}
        /\ "return in condition" \in Quirks \/ \A i \in left : stack[i].part # "cond"
  /\ retflag' = TRUE
  /\ breaks' = loops
  /\ lastval' = v
  /\ trapreturn' = IF trapreturn = -2 THEN v ELSE trapreturn
  /\ cmd' = [op |-> "return", n |-> v]
  /\ pc' = "chain"
  /\ UNCHANGED <<stack, contflag, errflag, error, exittrap>>

\* trap '...' EXIT.
bin_trap ==
  /\ Executing /\ "function" \in setup.ExitTraps /\ ~exittrap /\ (\E i \in Callees : stack[i].kind = "fun")
  /\ exittrap' = TRUE
  /\ lastval' = 0 /\ Ran /\ pc' = "chain"
  /\ UNCHANGED <<stack, control, errflag, error, trapreturn>>

----------------------------------------------------------------------------
(* Constructs: how they are entered, and what their function does when     *)
(* execlist comes back to it.                                              *)

MayEnter(k) == Executing /\ Compounds /\ k \in DOMAIN setup.Depth /\ Len(stack) < setup.Depth[k]

Enter(frame, next) ==
  /\ stack' = Append(stack, frame)
  /\ pc' = next
  /\ Ran

StartLoop(k) ==
  /\ MayEnter(k)
  /\ Enter(Frame(k, noerrexit), "turn")
  /\ lastval' = IF k \in {"for", "select"} THEN 0 ELSE lastval
  /\ UNCHANGED <<control, errflag, error, traps>>

\* Another word, another count; select reads one and may meet the end of file.
TurnFor ==
  /\ pc = "turn" /\ Top.kind \in {"for", "select"}
  /\ \/ Top.kind = "for" \/ ~errflag
  /\ pc' = "next"
  /\ UNCHANGED <<stack, lastval, control, errflag, error, traps, cmd>>

NoTurnFor ==
  /\ pc = "turn" /\ Top.kind \in {"for", "select"}
  /\ Pop("chain")
  /\ breaks' = IF Top.kind = "select" /\ breaks # 0 THEN breaks - 1 ELSE breaks
  /\ UNCHANGED <<lastval, contflag, retflag, errflag, error, traps, cmd>>

TurnWhile ==
  /\ pc = "turn" /\ Top.kind \in {"while", "until"}
  /\ SetTop([Top EXCEPT !.part = "cond", !.ne = TRUE])
  /\ noerrexit' = TRUE
  /\ pc' = "next"
  /\ UNCHANGED <<lastval, control, errflag, donetrap, traps, cmd>>

\* A variant, for checking that the properties tell it from the code: a break in
\* the condition is not counted.
WhileTested_Uncounted ==
  /\ pc = "left" /\ Top.kind \in {"while", "until"} /\ Top.part = "cond"
  /\ noerrexit' = Top.save
  /\ IF (lastval = 0) = (Top.kind = "until")
       THEN /\ Pop("chain")
            /\ breaks' = breaks
            /\ lastval' = Top.val
       ELSE /\ SetTop([Top EXCEPT !.part = "body", !.ne = Top.save])
            /\ pc' = "next"
            /\ UNCHANGED <<lastval, breaks>>
  /\ UNCHANGED <<contflag, retflag, errflag, donetrap, traps, cmd>>

WhileTested ==
  /\ pc = "left" /\ Top.kind \in {"while", "until"} /\ Top.part = "cond"
  /\ noerrexit' = Top.save
  /\ IF (lastval = 0) = (Top.kind = "until")
       THEN /\ Pop("chain")
            /\ breaks' = IF breaks # 0 THEN breaks - 1 ELSE breaks
            /\ lastval' = Top.val
       ELSE /\ SetTop([Top EXCEPT !.part = "body", !.ne = Top.save])
            /\ pc' = "next"
            /\ UNCHANGED <<lastval, breaks>>
  /\ UNCHANGED <<contflag, retflag, errflag, donetrap, traps, cmd>>

\* What every loop does when its body is done.
LeavesLoop == breaks # 0 /\ (breaks # 1 \/ ~contflag)

\* A variant, for checking that the properties tell it from the code: contflag is
\* not reset.
LoopBodyDone_KeepsContflag ==
  /\ pc = "left" /\ Top.kind \in LoopKinds /\ Top.part = "body"
  /\ breaks' = IF breaks # 0 THEN breaks - 1 ELSE breaks
  /\ IF LeavesLoop
       THEN Pop("chain") /\ UNCHANGED <<lastval, contflag>>
       ELSE /\ contflag' = contflag
            /\ IF errflag
                 THEN /\ Pop("chain")
                      /\ lastval' = IF Top.kind = "select" THEN lastval ELSE 1
                 ELSE /\ pc' = "turn"
                      /\ SetTop(IF Top.kind \in {"while", "until"}
                                  THEN [Top EXCEPT !.val = lastval] ELSE Top)
                      /\ UNCHANGED lastval
  /\ UNCHANGED <<retflag, errflag, error, traps, cmd>>

LoopBodyDone ==
  /\ pc = "left" /\ Top.kind \in LoopKinds /\ Top.part = "body"
  /\ breaks' = IF breaks # 0 THEN breaks - 1 ELSE breaks
  /\ IF LeavesLoop
       THEN Pop("chain") /\ UNCHANGED <<lastval, contflag>>
       ELSE /\ contflag' = IF breaks # 0 THEN FALSE ELSE contflag
            /\ IF errflag
                 THEN /\ Pop("chain")
                      /\ lastval' = IF Top.kind = "select" THEN lastval ELSE 1
                 ELSE /\ pc' = "turn"
                      /\ SetTop(IF Top.kind \in {"while", "until"}
                                  THEN [Top EXCEPT !.val = lastval] ELSE Top)
                      /\ UNCHANGED lastval
  /\ UNCHANGED <<retflag, errflag, error, traps, cmd>>

\* A variant, for checking that the properties tell it from the code: the condition
\* is executed like any list.
StartIf_Untested ==
  /\ MayEnter("if")
  /\ Enter([Frame("if", noerrexit) EXCEPT !.part = "cond", !.save = noerrexit], "next")
  /\ UNCHANGED noerrexit
  /\ UNCHANGED <<lastval, control, errflag, donetrap, traps>>

StartIf ==
  /\ MayEnter("if")
  /\ Enter([Frame("if", TRUE) EXCEPT !.part = "cond", !.save = noerrexit], "next")
  /\ noerrexit' = TRUE
  /\ UNCHANGED <<lastval, control, errflag, donetrap, traps>>

\* The branch that follows a condition that holds, or else; another condition
\* (elif); or no branch.
IfTested == pc = "left" /\ Top.kind = "if" /\ Top.part = "cond"

IfBranch ==
  /\ IfTested
  /\ SetTop([Top EXCEPT !.part = "body", !.ne = Top.save])
  /\ noerrexit' = Top.save
  /\ pc' = "next"
  /\ UNCHANGED <<lastval, control, errflag, donetrap, traps, cmd>>

Elif ==
  /\ IfTested /\ lastval # 0
  /\ pc' = "next"
  /\ UNCHANGED <<stack, lastval, control, errflag, error, traps, cmd>>

NoBranch ==
  /\ IfTested /\ lastval # 0
  /\ Pop("chain")
  /\ noerrexit' = Top.save
  /\ lastval' = 0
  /\ UNCHANGED <<control, errflag, donetrap, traps, cmd>>

StartCase ==
  /\ MayEnter("case")
  /\ Enter(Frame("case", noerrexit), "next")
  /\ lastval' \in {0, lastval}
  /\ UNCHANGED <<control, errflag, error, traps>>

BlockDone ==
  /\ pc = "left" /\ Top.kind \in {"if", "case"} /\ Top.part = "body"
  /\ Pop("chain")
  /\ UNCHANGED <<lastval, control, errflag, error, traps, cmd>>

bin_eval ==
  /\ MayEnter("eval")
  /\ Enter(Frame("eval", noerrexit), "next")
  /\ UNCHANGED <<lastval, control, errflag, error, traps>>

EvalDone ==
  /\ pc = "left" /\ Top.kind = "eval"
  /\ Pop("chain")
  /\ lastval' = IF errflag THEN 1 ELSE lastval
  /\ errflag' = FALSE
  /\ UNCHANGED <<control, error, traps, cmd>>

----------------------------------------------------------------------------
(* doshfunc and dotrapargs.                                                *)

doshfunc ==
  /\ MayEnter("fun")
  /\ Enter(FunFrame(FALSE, noerrexit), "next")
  /\ trapreturn' = IF trapreturn < 0 THEN trapreturn - 1 ELSE trapreturn
  /\ exittrap' = FALSE
  /\ UNCHANGED <<lastval, control, errflag, error>>

\* A trap function that began while a return was pending (history only).
ReturnDelayed == Last(Under).kind = "trap" /\ Last(Under).oret

\* The body of the function is done: the EXIT trap of the caller is back.
FunctionDone ==
  /\ pc = "left" /\ Top.kind = "fun" /\ Top.part = "body"
  /\ retflag' = FALSE
  /\ breaks' = IF retflag THEN Top.ob ELSE breaks
  /\ exittrap' = Top.ex
  /\ SetTop([Top EXCEPT !.part = "exit", !.newexit = exittrap])
  /\ IF retflag /\ ~ReturnDelayed THEN Ran ELSE UNCHANGED cmd
  /\ UNCHANGED <<pc, lastval, contflag, errflag, error, trapreturn>>

\* An EXIT trap set in the function runs now, in the environment of the caller.
FunctionExitTrap ==
  /\ pc = "left" /\ Top.kind = "fun" /\ Top.newexit
  /\ IF errflag
       THEN SetTop([Top EXCEPT !.newexit = FALSE]) /\ UNCHANGED <<pc, breaks>>
       ELSE /\ stack' = Under \o <<[Top EXCEPT !.newexit = FALSE],
                                   TrapFrame("none", "left", noerrexit)>>
            /\ breaks' = 0 /\ pc' = "next"
  /\ UNCHANGED <<lastval, contflag, retflag, errflag, error, traps, cmd>>

FunctionReturns ==
  /\ pc = "left" /\ Top.kind = "fun" /\ Top.part = "exit" /\ ~Top.newexit
  /\ Pop(IF Top.noreturnval THEN "left" ELSE "chain")
  /\ trapreturn' = IF trapreturn < -1 THEN trapreturn + 1 ELSE trapreturn
  /\ lastval' = IF Top.noreturnval THEN Top.val ELSE lastval
  /\ UNCHANGED <<control, errflag, error, exittrap, cmd>>

\* A variant, for checking that the properties tell it from the code: the jump that
\* the trap delayed is forgotten.
TrapDone_ForgetsBreaks ==
  /\ pc = "left" /\ Top.kind = "trap"
  /\ Pop(Top.back)
  /\ lastval' = Top.val
  /\ trapreturn' = Top.tr
  /\ IF trapreturn > 0 \/ errflag
       THEN breaks' = loops /\ errflag' = TRUE
       ELSE breaks' = breaks /\ UNCHANGED errflag
  /\ UNCHANGED <<contflag, retflag, error, exittrap, cmd>>

\* A trap that returned a positive status, or met an error, interrupts what it
\* interrupted.
TrapDone ==
  /\ pc = "left" /\ Top.kind = "trap"
  /\ Pop(Top.back)
  /\ lastval' = Top.val
  /\ trapreturn' = Top.tr
  /\ IF trapreturn > 0 \/ errflag
       THEN breaks' = loops /\ errflag' = TRUE
       ELSE breaks' = Least(breaks + Top.ob, loops) /\ UNCHANGED errflag
  /\ UNCHANGED <<contflag, retflag, error, exittrap, cmd>>

----------------------------------------------------------------------------
(* loop and source: a script or a terminal is read list by list.           *)

bin_dot ==
  /\ MayEnter("source")
  /\ Enter(Frame("source", noerrexit), "line")
  /\ UNCHANGED <<lastval, control, errflag, error, traps>>

\* A list has been read.  The editor resets retflag too, nothing else does.
ReadLine ==
  /\ pc = "line"
  /\ Ran
  /\ errflag' = FALSE
  /\ retflag' = (retflag /\ ~(Top.kind = "top" /\ INTERACTIVE /\ USEZLE))
  /\ SetTop([Top EXCEPT !.ne = noerrexit])
  /\ pc' = "next"
  /\ UNCHANGED <<lastval, breaks, contflag, error, traps>>

LineDone ==
  /\ pc = "left" /\ Top.kind \in {"top", "source"}
  /\ IF retflag \/ (Top.kind = "source" /\ errflag)
       THEN pc' = (IF Top.kind = "top" THEN "line" ELSE "eof")
            /\ UNCHANGED <<lastval, trapreturn>>
       ELSE /\ pc' = "line"
            /\ lastval' = IF trapreturn = 0 THEN lastval
                          ELSE IF trapreturn > 0 THEN trapreturn ELSE 1
            /\ trapreturn' = 0
  /\ UNCHANGED <<stack, control, errflag, error, exittrap, cmd>>

EndOfFile ==
  /\ pc = "line"
  /\ IF Top.kind = "source" THEN pc' = "eof" /\ UNCHANGED <<stack, breaks, traps, cmd>>
     ELSE LeaveShell /\ cmd' = [op |-> "exit", n |-> 0]
  /\ UNCHANGED <<lastval, contflag, retflag, errflag, error>>

SourceDone ==
  /\ pc = "eof"
  /\ Pop("chain")
  /\ IF retflag THEN Ran ELSE UNCHANGED cmd
  /\ errflag' = FALSE /\ retflag' = FALSE
  /\ UNCHANGED <<lastval, breaks, contflag, error, traps>>

----------------------------------------------------------------------------
\* SIGINT without a trap, while a command is being executed.
Interrupted ==
  /\ Interrupts /\ pc \notin {"line", "eof", "gone"}
  /\ (~contflag /\ ~retflag) \/ ("interrupt over jump" \in Quirks)
  /\ \/ "interrupt after last word" \in Quirks
     \/ ~(pc = "turn" /\ Top.kind \in {"for", "select"})
  /\ breaks' = loops
  /\ errflag' = TRUE
  /\ cmd' = [op |-> "interrupt", n |-> 0]
  /\ UNCHANGED <<stack, pc, lastval, contflag, retflag, error, traps>>

Execlist ==
  \/ NextSublist \/ ListEnds \/ Skipped \/ ChainSkips \/ ChainEnds
  \/ SublistDone \/ CheckStatus \/ TrapTold
  \/ \E type \in {"END", "ANDNEXT", "ORNEXT"} : ChainTo(type)

Commands ==
  \/ Simple \/ Fails \/ bin_exit \/ bin_trap
  \/ \E n \in Jumps : bin_break(n) \/ bin_continue(n)
  \/ \E v \in {0, 1} : bin_return(v)

Compound ==
  \/ \E k \in LoopKinds : StartLoop(k)
  \/ TurnFor \/ NoTurnFor \/ TurnWhile \/ WhileTested \/ LoopBodyDone
  \/ StartIf \/ IfBranch \/ Elif \/ NoBranch \/ StartCase \/ BlockDone \/ bin_eval \/ EvalDone

CallsAndReads ==
  \/ doshfunc \/ FunctionDone \/ FunctionExitTrap \/ FunctionReturns \/ TrapDone
  \/ bin_dot \/ ReadLine \/ LineDone \/ EndOfFile \/ SourceDone

Progress == Execlist \/ Commands \/ Compound \/ CallsAndReads

Next == (Progress \/ Interrupted) /\ UNCHANGED setup

Spec == Init /\ [][Next]_<<vars, setup>>

\* The shell goes on; a sublist has finitely many pipelines, an if finitely many
\* conditions.
Fairness ==
  /\ WF_vars(Progress)
  /\ SF_vars(ChainTo("END"))
  /\ SF_vars(IfBranch \/ NoBranch)

FairSpec == Spec /\ Fairness

----------------------------------------------------------------------------
(* Properties.                                                             *)

\* The variables stay within their types; in particular no more loops are to
\* be left than there are.
TypeOK ==
  /\ lastval \in {0, 1}
  /\ breaks \in 0 .. loops
  /\ {contflag, retflag, errflag, noerrexit, donetrap, exittrap} \subseteq BOOLEAN
  /\ trapreturn \in -(Len(stack) + 1) .. 1

\* contflag belongs to a continue that is still being carried out: one that is
\* left over would turn the next break into a continue.
ContinueIsPending ==
  contflag => \/ breaks > 0 \/ \E i \in TrapsRunning : stack[i].oc

\* Between a return and the function's end nothing disturbs the status: the
\* caller sees the one that was given (return [n], zshbuiltins(1)), unless a !
\* stands before the return or before what it skips ("negated return").
ReturnStatus ==
  [][pc = "left" /\ Top.kind = "fun" /\ Top.part = "body" /\ retflag /\ ~errflag
       => cmd.op = "return" /\ lastval = cmd.n]_vars

\* A return is pending until the function or script that it returns from has
\* ended ("Causes a shell function or . script to return to the invoking
\* script", zshbuiltins(1)).
ReturnIsKept == cmd.op = "return" => retflag

\* ERREXIT does not strike where a status is being tested: in a condition, or
\* before && or ||, of whatever construct is being executed.
ErrExitSparesTests ==
  [][cmd'.op = "errexit" /\ cmd.op # "errexit" =>
       \A i \in DOMAIN stack : stack[i].part # "cond" /\ stack[i].op = "END"]_vars

\* A jump is carried through: the flags that make every caller return are not
\* left set for ever.
JumpsEnd == (breaks # 0 \/ retflag) ~> ((breaks = 0 /\ ~retflag) \/ pc = "gone")

----------------------------------------------------------------------------
(* Refinement of ControlFlow: a construct that a pending jump will leave   *)
(* counts as left.                                                         *)

KindOf(f) ==
  CASE f.kind \in LoopKinds -> "loop"
    [] f.kind \in {"if", "case", "eval"} -> "block"
    [] OTHER -> f.kind

C == INSTANCE ControlFlow WITH frames <- << >>

Unwound(fs, b, c, r) ==
  IF b = 0 /\ ~r THEN fs
  ELSE IF r THEN C!AfterReturn(fs)
  ELSE IF c THEN C!AfterContinue(fs, b) ELSE C!AfterBreak(fs, b)

\* What is seen of a frame, given what is seen of those under it.  A trap runs on
\* what the jump that it delays has left.
Seen(fs, f) ==
  IF f.kind = "fun" /\ f.part = "exit" THEN fs
  ELSE Append(IF f.kind = "trap" THEN Unwound(fs, f.ob, f.oc, f.oret) ELSE fs, KindOf(f))

FramesOf(st, at, b, c, r, e) ==
  IF at = "gone" THEN << >>
  ELSE LET running == {i \in DOMAIN st : st[i].kind = "trap"}
           upTo[i \in 0 .. Len(st)] == IF i = 0 THEN << >> ELSE Seen(upTo[i - 1], st[i])
       IN Unwound(upTo[Len(st)], b, c /\ ~e /\ ~\E i \in running : st[i].oc,
                                    r /\ ~\E i \in running : st[i].oret)

frames == FramesOf(stack, pc, breaks, contflag, retflag, errflag)
=============================================================================
