------------------------------ MODULE NtSignals ------------------------------
(***************************************************************************)
(* Signals on Windows (winnt/signal.c) under the shell's SIGCHLD handling.  *)
(*                                                                         *)
(* There are no signals: a thread for each child waits for its end, puts it *)
(* on a list, suspends the main thread and calls the handler in its place;  *)
(* the console calls the handler for Ctrl-C in a thread of its own, beside  *)
(* the main thread.  The mask, what is pending and sigsuspend() are kept by *)
(* hand.  Each statement that reads or writes what threads share is a step. *)
(*                                                                         *)
(* The main thread is the shell's: it blocks SIGCHLD to start children, and *)
(* goes on or waits for all of them as waitjob() does.  It does not queue   *)
(* signals (see SignalQueue), and nothing is allocated: a thread that is    *)
(* suspended while it is in the allocator is not here.                      *)
(***************************************************************************)
EXTENDS Integers, Sequences

CONSTANTS
  Children,        \* processes, each with a thread that waits for it
  Main, Console,   \* the other threads
  MaxKeys,         \* bound: how often Ctrl-C is pressed
  PastCrossing,    \* bound: whether to follow what happens once the mask is spoilt
  Garbage          \* an exit code that was never written

AllSignals == {"SIGINT", "SIGCHLD"}
Threads == Children \union {Main, Console}

ASSUME ThreadAssumption ==
  /\ Main # Console /\ {Main, Console} \cap Children = {} /\ "none" \notin Threads
  /\ MaxKeys \in Nat /\ PastCrossing \in BOOLEAN

VARIABLES
  gBlockMask,      \* signals that are blocked
  gPending,        \* signals kept for later
  clist,           \* children that ended and have not been waited for
  crit,            \* the thread that is in sigcritter, or "none"
  frozen,          \* whether the main thread is suspended
  is_suspended,    \* __is_suspended
  hsigsusp,        \* whether the event sigsuspend() waits for is set
  stack,           \* per thread: the calls it is in, the innermost last
  child,           \* per child: where it is
  status,          \* per child: the exit code waitpid() gave; a child's own is its name
  errflag, keys,   \* SIGINT breaks off a wait; presses so far
  crowded,         \* history: children that were on the list together with another
  crossed          \* history: whether the mask was changed under the console's handler, or by
                   \* it under another

vars == <<gBlockMask, gPending, clist, crit, frozen, is_suspended, hsigsusp, stack, child, status,
          errflag, keys, crowded, crossed>>
mask == <<gBlockMask, crossed>>
mem  == <<clist, crit, frozen, child, status, crowded>>
susp == <<is_suspended, hsigsusp>>

\* A call: where it is, its signal, the mask it saved, the signals it has yet to look at.
Call(pc, sig, old, todo) == [pc |-> pc, sig |-> sig, old |-> old, todo |-> todo]
Top(t) == stack[t][Len(stack[t])]
At(t, pc) == stack[t] # <<>> /\ Top(t).pc = pc /\ (t = Main => ~frozen)
Below(t) == SubSeq(stack[t], 1, Len(stack[t]) - 1)
Goto(t, pc) == stack' = [stack EXCEPT ![t][Len(stack[t])].pc = pc]
Return(t) == stack' = [stack EXCEPT ![t] = Below(t)]
\* t goes on at pc after the call.
CallThen(t, pc, call) ==
  stack' = [stack EXCEPT ![t] = Append(Append(Below(t), [Top(t) EXCEPT !.pc = pc]), call)]

\* The console's thread is not held back while another changes the mask.
InHandler(t) ==
  \E i \in DOMAIN stack[t] : stack[t][i].pc \in {"handler", "unblock", "reap", "interrupt", "wake"}
SetMask(t, to) ==
  /\ gBlockMask' = to
  /\ crossed' = (crossed \/ \E u \in Threads \ {t} : Console \in {t, u} /\ InHandler(u))

Init ==
  /\ gBlockMask = {} /\ gPending = {} /\ clist = <<>> /\ crit = "none" /\ frozen = FALSE
  /\ is_suspended = FALSE /\ hsigsusp = FALSE /\ errflag = FALSE /\ keys = 0
  /\ crowded = {} /\ crossed = FALSE
  /\ stack = [t \in Threads |-> IF t = Main THEN <<Call("idle", "", {}, <<>>)>> ELSE <<>>]
  /\ child = [c \in Children |-> "none"] /\ status = [c \in Children |-> Garbage]

---------------------------------------------------------------------------
(* What every thread may be in the middle of.                               *)

\* deliver_pending(), entered with the signals that are not blocked now.
Deliver(blocked) ==
  LET if_open(sig) == IF sig \in blocked THEN <<>> ELSE <<sig>>
  IN  Call("deliver", "", {}, if_open("SIGINT") \o if_open("SIGCHLD"))     \* by number

Look(t) ==
  /\ At(t, "deliver")
  /\ LET todo == Top(t).todo
     IN  IF todo # <<>> /\ Head(todo) \in gPending
         THEN stack' = [stack EXCEPT ![t][Len(stack[t])] =
                           [@ EXCEPT !.pc = "clear", !.sig = Head(todo), !.todo = Tail(todo)]]
         ELSE IF Len(todo) > 1 THEN stack' = [stack EXCEPT ![t][Len(stack[t])].todo = Tail(todo)]
         ELSE Return(t)
  /\ UNCHANGED <<mask, gPending, mem, susp, errflag, keys>>
Clear(t) ==
  /\ At(t, "clear")
  /\ gPending' = gPending \ {Top(t).sig}
  /\ CallThen(t, "deliver", Call("generic", Top(t).sig, {}, <<>>))
  /\ UNCHANGED <<mask, mem, susp, errflag, keys>>

Generic_Unmasked(t) ==
  /\ At(t, "generic")
  /\ CallThen(t, "wake", Call("handler", Top(t).sig, {}, <<>>))
  /\ UNCHANGED <<mask, gPending, mem, susp, errflag, keys>>
Keep_Forgets(t) == At(t, "keep") /\ Return(t) /\ UNCHANGED <<mask, gPending, mem, susp, errflag, keys>>

\* generic_handler(): keeps the signal or calls the shell's handler, and then wakes
\* sigsuspend().
Generic(t) ==
  /\ At(t, "generic")
  /\ IF Top(t).sig \in gBlockMask THEN Goto(t, "keep")
     ELSE CallThen(t, "wake", Call("handler", Top(t).sig, {}, <<>>))
  /\ UNCHANGED <<mask, gPending, mem, susp, errflag, keys>>
Keep(t) ==
  /\ At(t, "keep")
  /\ gPending' = gPending \union {Top(t).sig}
  /\ Return(t)
  /\ UNCHANGED <<mask, mem, susp, errflag, keys>>
Wake(t) ==
  /\ At(t, "wake")
  /\ hsigsusp' = (hsigsusp \/ is_suspended)
  /\ Return(t)
  /\ UNCHANGED <<mask, gPending, mem, is_suspended, errflag, keys>>

\* handler() of the shell: all signals blocked for a moment, then its work.
BlockAll(t) ==
  /\ At(t, "handler")
  /\ stack' = [stack EXCEPT ![t][Len(stack[t])] = [Top(t) EXCEPT !.pc = "unblock", !.old = gBlockMask]]
  /\ SetMask(t, AllSignals)
  /\ UNCHANGED <<gPending, mem, susp, errflag, keys>>
Unblock(t) ==
  /\ At(t, "unblock")
  /\ SetMask(t, Top(t).old)
  /\ CallThen(t, IF Top(t).sig = "SIGCHLD" THEN "reap" ELSE "interrupt", Deliver(Top(t).old))
  /\ UNCHANGED <<gPending, mem, susp, errflag, keys>>
Interrupt(t) ==
  /\ At(t, "interrupt")
  /\ errflag' = TRUE
  /\ Return(t)
  /\ UNCHANGED <<mask, gPending, mem, susp, keys>>
\* waitpid() takes the head of the list, until there is none.
Reap(t) ==
  /\ At(t, "reap") /\ crit \in {"none", t}
  /\ IF clist = <<>> THEN Return(t) /\ UNCHANGED <<clist, child, status>>
     ELSE /\ clist' = Tail(clist)
          /\ child' = [child EXCEPT ![Head(clist).pid] = "reaped"]
          /\ status' = [status EXCEPT ![Head(clist).pid] = Head(clist).exitcode]
          /\ UNCHANGED stack
  /\ UNCHANGED <<mask, gPending, crit, frozen, crowded, susp, errflag, keys>>

Handling(t) ==
  Look(t) \/ Clear(t) \/ Generic(t) \/ Keep(t) \/ Wake(t) \/ BlockAll(t) \/ Unblock(t) \/ Interrupt(t) \/ Reap(t)

---------------------------------------------------------------------------
(* The threads that bring news.                                             *)

add_to_child_list_NoCode(c) == Append(clist, [pid |-> c, exitcode |-> Garbage])

\* The code of a child goes into the first entry, whichever that is.
add_to_child_list(c) ==
  IF clist = <<>> THEN <<[pid |-> c, exitcode |-> c]>>
  ELSE [Append(clist, [pid |-> c, exitcode |-> Garbage]) EXCEPT ![1].exitcode = c]

\* sig_child_callback(): the list, then the handler while the main thread stands.
sig_child_callback(c) ==
  /\ child[c] = "ended" /\ crit = "none"
  /\ crit' = c /\ frozen' = TRUE
  /\ clist' = add_to_child_list(c)
  /\ child' = [child EXCEPT ![c] = "listed"]
  /\ crowded' = crowded \union (IF clist = <<>> THEN {} ELSE {c} \union {clist[i].pid : i \in DOMAIN clist})
  /\ stack' = [stack EXCEPT ![c] = <<Call("resume", "", {}, <<>>), Call("generic", "SIGCHLD", {}, <<>>)>>]
  /\ UNCHANGED <<mask, gPending, status, susp, errflag, keys>>
Resume(c) ==
  /\ At(c, "resume")
  /\ crit' = "none" /\ frozen' = FALSE
  /\ Return(c)
  /\ UNCHANGED <<mask, gPending, clist, child, status, crowded, susp, errflag, keys>>

Press ==
  /\ keys < MaxKeys /\ stack[Console] = <<>>
  /\ keys' = keys + 1
  /\ stack' = [stack EXCEPT ![Console] = <<Call("generic", "SIGINT", {}, <<>>)>>]
  /\ UNCHANGED <<mask, gPending, mem, susp, errflag>>

End(c) ==
  /\ child[c] = "running"
  /\ child' = [child EXCEPT ![c] = "ended"]
  /\ UNCHANGED <<mask, gPending, clist, crit, frozen, status, crowded, susp, stack, errflag, keys>>

---------------------------------------------------------------------------
(* The main thread.                                                         *)

\* sigprocmask(): the mask, then what it lets through unless it only blocks.
child_block ==
  /\ At(Main, "idle")
  /\ SetMask(Main, gBlockMask \union {"SIGCHLD"})
  /\ errflag' = FALSE
  /\ Goto(Main, "blocked")
  /\ UNCHANGED <<gPending, mem, susp, keys>>
child_unblock ==
  /\ At(Main, "blocked") \/ At(Main, "done")
  /\ SetMask(Main, gBlockMask \ {"SIGCHLD"})
  /\ CallThen(Main, "idle", Deliver(gBlockMask \ {"SIGCHLD"}))
  /\ UNCHANGED <<gPending, mem, susp, errflag, keys>>
\* fork() has started the thread that will tell of the child.
Start(c) ==
  /\ At(Main, "blocked") /\ child[c] = "none"
  /\ child' = [child EXCEPT ![c] = "running"]
  /\ UNCHANGED <<mask, gPending, clist, crit, frozen, status, crowded, susp, stack, errflag, keys>>

Unreaped == {c \in Children : child[c] \notin {"none", "reaped"}}

\* waitjob(): SIGCHLD is blocked whenever it looks.
WaitJob ==
  /\ At(Main, "blocked") \/ At(Main, "wait")
  /\ Goto(Main, IF Unreaped # {} /\ ~errflag THEN "suspend" ELSE "done")
  /\ UNCHANGED <<mask, gPending, mem, susp, errflag, keys>>
Reblock ==
  /\ At(Main, "reblock")
  /\ SetMask(Main, gBlockMask \union {"SIGCHLD"})
  /\ Goto(Main, "wait")
  /\ UNCHANGED <<gPending, mem, susp, errflag, keys>>

Suspending_NotMarked ==
  /\ At(Main, "suspend") /\ crit = "none"
  /\ Goto(Main, "setmask")
  /\ UNCHANGED <<mask, gPending, mem, susp, errflag, keys>>

\* sigsuspend(): everything but SIGCHLD blocked until the event is set.
Suspending ==
  /\ At(Main, "suspend") /\ crit = "none"
  /\ is_suspended' = TRUE
  /\ Goto(Main, "setmask")
  /\ UNCHANGED <<mask, gPending, mem, hsigsusp, errflag, keys>>
\* The wait builtin lets SIGINT through as well.
SuspendMask ==
  /\ At(Main, "setmask")
  /\ \E open \in {{"SIGCHLD"}, {"SIGCHLD", "SIGINT"}} :
       /\ SetMask(Main, AllSignals \ open)
       /\ stack' = [stack EXCEPT ![Main] = <<[Top(Main) EXCEPT !.pc = "sleep", !.old = gBlockMask],
                                             Deliver(AllSignals \ open)>>]
  /\ UNCHANGED <<gPending, mem, susp, errflag, keys>>
Woken ==
  /\ At(Main, "sleep") /\ hsigsusp
  /\ Goto(Main, "reset")
  /\ UNCHANGED <<mask, gPending, mem, susp, errflag, keys>>
ResetEvent ==
  /\ At(Main, "reset")
  /\ hsigsusp' = FALSE
  /\ Goto(Main, "awake")
  /\ UNCHANGED <<mask, gPending, mem, is_suspended, errflag, keys>>
Awake ==
  /\ At(Main, "awake") /\ crit = "none"
  /\ is_suspended' = FALSE
  /\ Goto(Main, "restore")
  /\ UNCHANGED <<mask, gPending, mem, hsigsusp, errflag, keys>>
RestoreMask ==
  /\ At(Main, "restore")
  /\ SetMask(Main, Top(Main).old)
  /\ CallThen(Main, "reblock", Deliver(Top(Main).old))
  /\ UNCHANGED <<gPending, mem, susp, errflag, keys>>

Shell ==
  \/ child_block \/ child_unblock \/ (\E c \in Children : Start(c)) \/ WaitJob \/ Reblock
  \/ Suspending \/ SuspendMask \/ Woken \/ ResetEvent \/ Awake \/ RestoreMask

Watcher(c) == sig_child_callback(c) \/ Handling(c) \/ Resume(c)

GoesOn == crossed => PastCrossing
Next ==
  /\ GoesOn
  /\ \/ Shell \/ Handling(Main)
     \/ (\E c \in Children : Watcher(c) \/ End(c))
     \/ Press \/ Handling(Console)

\* Every thread is scheduled, and waits only for the others.
Fairness ==
  /\ WF_vars(GoesOn /\ (Shell \/ Handling(Main))) /\ WF_vars(GoesOn /\ Handling(Console))
  /\ \A c \in Children : WF_vars(GoesOn /\ Watcher(c))

Spec == Init /\ [][Next]_vars /\ Fairness

---------------------------------------------------------------------------
(* Properties.                                                              *)

TypeOK ==
  /\ gBlockMask \subseteq AllSignals /\ gPending \subseteq AllSignals
  /\ crit \in Children \union {"none"} /\ (frozen <=> crit # "none") /\ frozen \in BOOLEAN
  /\ \A i \in DOMAIN clist : clist[i].pid \in Children /\ clist[i].exitcode \in Children \union {Garbage}

\* Nobody sleeps through the end of a child: when sigsuspend() waits and no other
\* thread is about to set its event, there is a child whose end will, SIGCHLD is open,
\* none is kept and none is on the list (sigsuspend(), generic_handler(), handler()).
Quiet == stack[Console] = <<>> /\ crit = "none"
NoEndIsSleptThrough ==
  At(Main, "sleep") /\ ~hsigsusp /\ Quiet /\ ~crossed =>
      Unreaped # {} /\ "SIGCHLD" \notin gBlockMask \union gPending /\ clist = <<>>

\* Every child that ends is waited for (add_to_child_list() to waitpid()), unless the
\* console's thread has spoilt the mask.
EveryEndIsReaped == \A c \in Children : (child[c] = "ended") ~> (child[c] = "reaped" \/ crossed)

\* "unblocked during child_suspend()" (jobs.c:690): from child_block() to the wait no
\* child disappears; with Ctrl-C it does, as the console's thread puts back a mask from
\* before child_block().
Critical ==
  stack[Main] # <<>> /\ Top(Main).pc \in {"blocked", "wait", "done", "suspend", "setmask"}
Vanishes == \E c \in Children : child[c] # "reaped" /\ child'[c] = "reaped"
BlockedMeansBlocked == [][Critical /\ Vanishes => crossed]_vars
UnblockedOnlyWhileSuspended == [][Critical => ~Vanishes]_vars

\* The exit code of a child that was alone on the list is its own; of the others it
\* is not (add_to_child_list(), signal.c:476).
OwnCodeWhenAlone == \A c \in Children \ crowded : child[c] = "reaped" => status[c] = c
OwnCode == \A c \in Children : child[c] = "reaped" => status[c] = c
===============================================================================
