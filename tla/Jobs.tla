-------------------------------- MODULE Jobs --------------------------------
(***************************************************************************)
(* Job control of an interactive shell (jobs.c, the SIGCHLD part of        *)
(* signals.c:handler, execpline() and the fork part of execcmd() of        *)
(* exec.c, and the job builtins of builtin.c).                             *)
(*                                                                         *)
(* One thread of control runs command lines at the top level; SIGCHLD      *)
(* interrupts it wherever it is not blocked, and the handler updates the   *)
(* same job table.  Scope: MONITOR is set, there is no CHLD trap, and the  *)
(* members of a pipeline are external commands, so that no job becomes a   *)
(* super-job.  Exit statuses are abstracted to the job they came from.     *)
(*                                                                         *)
(* The kernel's processes, their wait status and SIGCHLD are external.     *)
(***************************************************************************)
EXTENDS Integers, Sequences

CONSTANTS
  MAXJOB,    \* size of the job table; slot 0 is not used
  Pids,      \* bound: process ids
  NoPid,     \* 0 in the code
  MaxProcs,  \* bound: processes of one pipeline
  NOTIFY,    \* the option
  Ops        \* bound: the builtins of the instance

ASSUME JobsAssumption ==
  /\ MAXJOB \in Nat /\ MAXJOB > 2
  /\ NoPid \notin Pids
  /\ MaxProcs \in Nat \ {0}
  /\ NOTIFY \in BOOLEAN

VARIABLES
  jobtab, thisjob, curjob, prevjob,
  lastval2,   \* the job whose end or stop it tells; 0 if older than the command line
  errflag,
  cmdoutpid,  \* process id of the running $(...)
  mask,       \* SIGCHLD: "open", "blocked", or "suspend" inside sigsuspend()
  inhandler,  \* handler(SIGCHLD) is running
  pc,         \* where the command line is
  cmd,        \* the command being run
  newjob,     \* execpline()'s own slot
  pid,        \* what fork() returned, before addproc()
  wait,       \* arguments of waitjob(), and who called it
  child,      \* kernel: state of each process
  unreported, \* kernel: stopped processes not yet waited for
  sigchld     \* kernel: SIGCHLD is pending

table  == <<jobtab, thisjob, curjob, prevjob, lastval2>>
kernel == <<child, unreported, sigchld>>
vars   == <<table, errflag, cmdoutpid, mask, inhandler, pc, cmd, newjob, pid, wait, kernel>>

Slots == 1 .. MAXJOB - 1
Flags == {"INUSE", "STOPPED", "DONE", "CHANGED", "LOCKED", "CURSH", "NOSTTY"}
None  == -1

ProcStatus == {"running", "stopped", "exited", "killed"}
Process == [pid : Pids, status : ProcStatus]
Job  == [stat : SUBSET Flags, procs : Seq(Process)]
zero == [stat |-> {}, procs |-> <<>>]

Command ==
  [op : {"run"}, how : {"sync", "async", "disown"}, left : 0 .. MaxProcs, simple : BOOLEAN,
   subst : BOOLEAN]
  \cup [op : {"fg", "bg", "wait", "disown"}, arg : {0, None} \cup Slots]
  \cup [op : {"jobs", "waitall"}]

NoCommand == [op |-> "jobs"]
NoWait == [job |-> 1, int |-> FALSE, caller |-> "none"]

Init ==
  /\ jobtab = [j \in Slots |-> zero]
  /\ thisjob = None /\ curjob = None /\ prevjob = None
  /\ lastval2 = 0
  /\ errflag = FALSE
  /\ cmdoutpid = NoPid
  /\ mask = "open"
  /\ inhandler = FALSE
  /\ pc = "prompt"
  /\ cmd = NoCommand
  /\ newjob = 1
  /\ pid = NoPid
  /\ wait = NoWait
  /\ child = [p \in Pids |-> "unborn"]
  /\ unreported = {}
  /\ sigchld = FALSE

-----------------------------------------------------------------------------
(* The job table as a value: the functions of jobs.c map one to the next.  *)

Table == [tab |-> jobtab, this |-> thisjob, cur |-> curjob, prev |-> prevjob,
          val2 |-> lastval2]

Becomes(T) ==
  /\ jobtab' = T.tab /\ thisjob' = T.this /\ curjob' = T.cur /\ prevjob' = T.prev
  /\ lastval2' = T.val2

Stat(T, j)      == T.tab[j].stat
Set(T, j, f)    == [T EXCEPT !.tab[j].stat = @ \cup f]
Clear(T, j, f)  == [T EXCEPT !.tab[j].stat = @ \ f]
InUse(T, j)     == j # None /\ "INUSE" \in Stat(T, j)
IsStopped(T, j) == j # None /\ "STOPPED" \in Stat(T, j)
Statuses(jn)    == {jn.procs[i].status : i \in DOMAIN jn.procs}
PidsOf(jn)      == {jn.procs[i].pid : i \in DOMAIN jn.procs}

deletejob(T, j) == [T EXCEPT !.tab[j] = zero]

\* The highest stopped job, else the highest job, other than curjob and thisjob.
setprevjob(T) ==
  LET others  == {i \in Slots \ {T.cur, T.this} : InUse(T, i)}
      stopped == {i \in others : IsStopped(T, i)}
      highest(S) == CHOOSE i \in S : \A k \in S : k <= i
  IN [T EXCEPT !.prev = IF stopped # {} THEN highest(stopped)
                        ELSE IF others # {} THEN highest(others) ELSE None]

\* A job that is done is forgotten once it is printed.
printjob(T, j) ==
  IF "DONE" \notin Stat(T, j) THEN Clear(T, j, {"CHANGED"})
  ELSE LET gone  == deletejob(T, j)
           moved == IF j = T.cur THEN [gone EXCEPT !.cur = T.prev, !.prev = j] ELSE gone
       IN IF j = moved.prev THEN setprevjob(moved) ELSE moved

scanjobs(T) ==
  LET upTo[j \in 0 .. MAXJOB - 1] ==
        IF j = 0 THEN T
        ELSE LET S == upTo[j - 1] IN IF "CHANGED" \in Stat(S, j) THEN printjob(S, j) ELSE S
  IN upTo[MAXJOB - 1]

\* makerunning(): the stop is forgotten, for the job and for its processes.
makerunning(T, j) ==
  LET run(q) == IF q.status = "stopped" THEN [q EXCEPT !.status = "running"] ELSE q
  IN [T EXCEPT !.tab[j].stat = @ \ {"STOPPED"},
               !.tab[j].procs = [i \in DOMAIN @ |-> run(@[i])]]

\* Mutant: it does not look for processes still running.
update_job_AnyEnd(T, j) ==
  LET jn == T.tab[j]
      somestopped == "stopped" \in Statuses(jn)
      valued == [T EXCEPT !.val2 = j]
      marked == Set(valued, j, {"CHANGED", IF somestopped THEN "STOPPED" ELSE "DONE"})
      current == IF "DONE" \in Stat(marked, j) THEN marked
                 ELSE [marked EXCEPT !.prev = T.cur, !.cur = j]
  IN CASE somestopped /\ IsStopped(T, j) -> T
       [] OTHER -> IF (NOTIFY \/ j = T.this) /\ "LOCKED" \in jn.stat
                     THEN printjob(current, j) ELSE current

\* update_job(): nothing while a process runs; else the job is stopped or done.
update_job(T, j) ==
  LET jn == T.tab[j]
      somestopped == "stopped" \in Statuses(jn)
      valued == [T EXCEPT !.val2 = j]
      marked == Set(valued, j, {"CHANGED", IF somestopped THEN "STOPPED" ELSE "DONE"})
      current == IF "DONE" \in Stat(marked, j) THEN marked
                 ELSE [marked EXCEPT !.prev = T.cur, !.cur = j]
  IN CASE "running" \in Statuses(jn) -> T
       [] somestopped /\ IsStopped(T, j) -> T
       [] OTHER -> IF (NOTIFY \/ j = T.this) /\ "LOCKED" \in jn.stat
                     THEN printjob(current, j) ELSE current

\* findproc(): the first slot, and in it the first process, with this id.
Holders(T, p) == {j \in Slots : p \in PidsOf(T.tab[j])}
findproc(T, p) == CHOOSE j \in Holders(T, p) : \A k \in Holders(T, p) : j <= k

\* Mutant: the job's leader is updated whichever process ended.
Reaped_Leader(T, p, status) ==
  LET j == findproc(T, p)
  IN update_job([T EXCEPT !.tab[j].procs[1].status = status], j)

\* update_process(), then update_job().
Reaped(T, p, status) ==
  LET j == findproc(T, p)
      first == CHOOSE i \in DOMAIN T.tab[j].procs :
                 /\ T.tab[j].procs[i].pid = p
                 /\ \A k \in 1 .. i - 1 : T.tab[j].procs[k].pid # p
  IN update_job([T EXCEPT !.tab[j].procs[first].status = status], j)

\* setcurjob(): curjob must be in use and not be the builtin's own job.
Unsuitable(T) == T.cur = T.this \/ (T.cur # None /\ ~ InUse(T, T.cur))
PrevBecomesCur(T) == setprevjob([T EXCEPT !.cur = T.prev])
\* Mutant: the new curjob is not tested.
setcurjob_Once(T) ==
  LET once == IF Unsuitable(T) THEN PrevBecomesCur(T) ELSE T
  IN once

setcurjob(T) ==
  LET once == IF Unsuitable(T) THEN PrevBecomesCur(T) ELSE T
  IN IF Unsuitable(T) /\ Unsuitable(once) THEN PrevBecomesCur(once) ELSE once

-----------------------------------------------------------------------------
(* The kernel. *)

JobOf(p) == findproc(Table, p)
\* Assumption: the id of a process that was waited for is not given out again.
Fresh == {p \in Pids : child[p] = "unborn"}

\* A child exits, is killed, or stops: SIGCHLD.
ChildEnds(p, how) ==
  /\ child[p] \in {"running", "stopped"}
  /\ how \in {"exited", "killed"}
  /\ child[p] = "stopped" => how = "killed"
  /\ child' = [child EXCEPT ![p] = how]
  /\ unreported' = unreported \ {p}
  /\ sigchld' = TRUE
  /\ UNCHANGED <<table, errflag, cmdoutpid, mask, inhandler, pc, cmd, newjob, pid, wait>>

ChildStops(p) ==
  /\ child[p] = "running"
  /\ child' = [child EXCEPT ![p] = "stopped"]
  /\ unreported' = unreported \cup {p}
  /\ sigchld' = TRUE
  /\ UNCHANGED <<table, errflag, cmdoutpid, mask, inhandler, pc, cmd, newjob, pid, wait>>

\* Continuing a process: nothing is reported, and a stop not yet waited for is lost.
Continued(P) ==
  /\ child' = [p \in Pids |-> IF p \in P /\ child[p] = "stopped" THEN "running" ELSE child[p]]
  /\ unreported' = unreported \ P
  /\ UNCHANGED sigchld

\* Somebody else sends SIGCONT.
ChildContinues(p) ==
  /\ child[p] = "stopped"
  /\ Continued({p})
  /\ UNCHANGED <<table, errflag, cmdoutpid, mask, inhandler, pc, cmd, newjob, pid, wait>>

Kernel == \E p \in Pids :
  \/ \E how \in {"exited", "killed"} : ChildEnds(p, how)
  \/ ChildStops(p)
  \/ ChildContinues(p)

-----------------------------------------------------------------------------
(* handler(SIGCHLD).  The kernel blocks SIGCHLD while it runs; afterwards  *)
(* the interrupted mask is back, and sigsuspend() returns.                 *)

HandlerStarts ==
  /\ sigchld /\ mask # "blocked" /\ ~ inhandler
  /\ inhandler' = TRUE
  /\ sigchld' = FALSE
  /\ UNCHANGED <<table, errflag, cmdoutpid, mask, pc, cmd, newjob, pid, wait, child, unreported>>

Waitable(p) == child[p] \in {"exited", "killed"} \/ p \in unreported

\* update_job() on the foreground job: its leader died of ^C ("killed"), and the
\* shell, in another process group, pretends that it got the signal too.
LeaderKilled(p, j) ==
  LET jn == jobtab[j]
      now(i) == IF jn.procs[i].pid = p THEN child[p] ELSE jn.procs[i].status
      nows == {now(i) : i \in DOMAIN jn.procs}
  IN /\ j = thisjob
     /\ "running" \notin nows
     /\ "stopped" \in nows => "STOPPED" \notin jn.stat
     /\ now(1) = "killed"

\* One turn of the loop: WAIT() returns p.
HandlerReaps(p) ==
  /\ inhandler
  /\ Waitable(p)
  /\ child' = IF child[p] = "stopped" THEN child ELSE [child EXCEPT ![p] = "gone"]
  /\ unreported' = unreported \ {p}
  /\ cmdoutpid' = IF p = cmdoutpid THEN NoPid ELSE cmdoutpid
  /\ IF p # cmdoutpid /\ Holders(Table, p) # {}
       THEN /\ Becomes(Reaped(Table, p, child[p]))
            /\ errflag' = (errflag \/ LeaderKilled(p, JobOf(p)))
       ELSE UNCHANGED <<table, errflag>>
  /\ UNCHANGED <<mask, inhandler, pc, cmd, newjob, pid, wait, sigchld>>

\* Where the interrupted sigsuspend() goes on; child_block() follows it.
Woken(from) == CASE from = "asleep" -> "waittest"
                 [] from = "substasleep" -> "build"
                 [] OTHER -> from

\* Mutant: one WAIT() for one SIGCHLD.
HandlerEnds_Once ==
  /\ inhandler
  /\ inhandler' = FALSE
  /\ mask' = IF mask = "suspend" THEN "blocked" ELSE mask
  /\ pc' = Woken(pc)
  /\ UNCHANGED <<table, errflag, cmdoutpid, cmd, newjob, pid, wait, kernel>>

HandlerEnds ==
  /\ inhandler
  /\ \A p \in Pids : ~ Waitable(p)
  /\ inhandler' = FALSE
  /\ mask' = IF mask = "suspend" THEN "blocked" ELSE mask
  /\ pc' = Woken(pc)
  /\ UNCHANGED <<table, errflag, cmdoutpid, cmd, newjob, pid, wait, kernel>>

\* handler(SIGINT): it ends what a simple command line is doing.  sigsuspend()
\* lets it in only when it was asked to, which child_suspend(0) does not.
Interrupt ==
  /\ ~ inhandler
  /\ pc \notin {"prompt", "scan", "printed", "idle"}
  /\ pc # "substasleep" /\ (pc = "asleep" => wait.int)
  /\ cmd.op = "run" => cmd.simple
  /\ ~ errflag
  /\ errflag' = TRUE
  /\ mask' = IF mask = "suspend" THEN "blocked" ELSE mask
  /\ pc' = Woken(pc)
  /\ UNCHANGED <<table, cmdoutpid, inhandler, cmd, newjob, pid, wait, kernel>>

Signals ==
  \/ HandlerStarts
  \/ \E p \in Pids : HandlerReaps(p)
  \/ HandlerEnds
  \/ Interrupt

-----------------------------------------------------------------------------
(* loop() and preprompt(). *)

At(l) == ~ inhandler /\ pc = l
Goto(l) == pc' = l

\* Without NOTIFY, scanjobs() runs; SIGCHLD is not blocked.
preprompt ==
  /\ At("prompt")
  /\ errflag' = FALSE
  /\ Goto(IF NOTIFY THEN "idle" ELSE "scan")
  /\ cmd' = NoCommand /\ newjob' = 1 /\ wait' = NoWait
  /\ UNCHANGED <<table, cmdoutpid, mask, inhandler, pid, kernel>>

\* One job of scanjobs(), up to the test of STAT_DONE in printjob(); wait.job
\* is the loop's index.
ScanNext == IF wait.job = MAXJOB - 1 THEN Goto("idle") /\ wait' = NoWait
            ELSE Goto("scan") /\ wait' = [wait EXCEPT !.job = @ + 1]

\* What is printed of a job that is done, and its deletion, are one step.
ScanTests ==
  /\ At("scan")
  /\ LET stat == jobtab[wait.job].stat IN
       CASE "CHANGED" \notin stat -> ScanNext /\ UNCHANGED table
         [] {"CHANGED", "DONE"} \subseteq stat -> ScanNext /\ Becomes(printjob(Table, wait.job))
         [] OTHER -> Goto("printed") /\ UNCHANGED <<table, wait>>
  /\ UNCHANGED <<errflag, cmdoutpid, mask, inhandler, cmd, newjob, pid, kernel>>

\* ... and the rest of printjob(): jn->stat &= ~STAT_CHANGED.
ScanClears ==
  /\ At("printed")
  /\ Becomes(Clear(Table, wait.job, {"CHANGED"}))
  /\ ScanNext
  /\ UNCHANGED <<errflag, cmdoutpid, mask, inhandler, cmd, newjob, pid, kernel>>

-----------------------------------------------------------------------------
(* execpline() of a line read at the prompt. *)

FreeSlots == {j \in Slots : jobtab[j].stat = {}}
Lowest(S) == CHOOSE j \in S : \A k \in S : j <= k

\* child_block(), initjob(); a builtin runs in the shell itself, its job gets
\* STAT_CURSH.  initjob() cannot fail here (see RoomForACommand).
execpline(c) ==
  /\ At("idle")
  /\ FreeSlots # {}
  /\ LET j == Lowest(FreeSlots) IN
       /\ newjob' = j
       /\ Becomes([Table EXCEPT !.this = j, !.val2 = 0,
                   !.tab[j].stat = IF c.op = "run" THEN {"INUSE"} ELSE {"INUSE", "CURSH"}])
  /\ mask' = "blocked"
  /\ cmd' = c
  /\ Goto(IF c.op = "run" THEN "build" ELSE "builtin")
  /\ UNCHANGED <<errflag, cmdoutpid, inhandler, pid, wait, kernel>>

Lines ==
  {[op |-> "run", how |-> h, left |-> n, simple |-> n = 1, subst |-> TRUE] :
     h \in {"sync", "async", "disown"}, n \in 1 .. MaxProcs}
  \cup [op : {"fg", "bg", "wait", "disown"} \cap Ops, arg : {0, None} \cup Slots]
  \cup [op : {"jobs", "waitall"} \cap Ops]

Building == At("build") /\ cmd.left > 0

NextCommand == cmd' = [cmd EXCEPT !.left = @ - 1]
AfterCommand == IF cmd.left = 1 THEN Goto("launch") ELSE Goto("build")

\* getoutput(): $(...) among the words of a command; child_block(), zfork().
\* One per pipeline is enough to let SIGCHLD in between two of its commands.
getoutput ==
  /\ Building /\ cmd.subst
  /\ ~ errflag
  /\ cmd' = [cmd EXCEPT !.subst = FALSE]
  /\ IF thisjob >= MAXJOB - 1
       THEN /\ errflag' = TRUE /\ mask' = "open" /\ cmdoutpid' = NoPid
            /\ UNCHANGED <<pc, child, pid>>
       ELSE \E p \in Fresh :
            /\ child' = [child EXCEPT ![p] = "running"]
            /\ cmdoutpid' = p /\ pid' = p
            /\ mask' = "blocked"
            /\ Goto("substread")
            /\ UNCHANGED errflag
  /\ UNCHANGED <<table, inhandler, newjob, wait, unreported, sigchld>>

\* When the output is read, child_suspend(0): one sleep, whichever child ends it,
\* and SIGCHLD is blocked again after it.  (waitforpid() elsewhere than on NT.)
SubstSuspends ==
  /\ At("substread")
  /\ Goto("substasleep")
  /\ mask' = "suspend"
  /\ pid' = NoPid
  /\ UNCHANGED <<table, errflag, cmdoutpid, inhandler, cmd, newjob, wait, kernel>>

\* Mutant: the last slot may fork.
CommandForks_LastSlot ==
  /\ Building
  /\ ~ errflag
  /\ thisjob < MAXJOB
  /\ mask' = "blocked"
  /\ \E p \in Fresh :
       /\ child' = [child EXCEPT ![p] = "running"]
       /\ pid' = p
  /\ Goto("forked")
  /\ UNCHANGED <<table, errflag, cmdoutpid, inhandler, cmd, newjob, wait, unreported, sigchld>>

\* Mutant: SIGCHLD is let in behind fork(), before addproc().
CommandForks_Open ==
  /\ Building
  /\ ~ errflag
  /\ thisjob < MAXJOB - 1
  /\ mask' = "open"
  /\ \E p \in Fresh :
       /\ child' = [child EXCEPT ![p] = "running"]
       /\ pid' = p
  /\ Goto("forked")
  /\ UNCHANGED <<table, errflag, cmdoutpid, inhandler, cmd, newjob, wait, unreported, sigchld>>

\* execcmd() forks: child_block(), zfork().  The last slot may not fork.
CommandForks ==
  /\ Building
  /\ ~ errflag
  /\ thisjob < MAXJOB - 1
  /\ mask' = "blocked"
  /\ \E p \in Fresh :
       /\ child' = [child EXCEPT ![p] = "running"]
       /\ pid' = p
  /\ Goto("forked")
  /\ UNCHANGED <<table, errflag, cmdoutpid, inhandler, cmd, newjob, wait, unreported, sigchld>>

\* zfork() fails, in the last slot or in the kernel; or prefork() found errflag.
CommandFails ==
  /\ Building
  /\ mask' = IF errflag THEN mask ELSE "blocked"
  /\ NextCommand
  /\ AfterCommand
  /\ UNCHANGED <<table, errflag, cmdoutpid, inhandler, newjob, pid, wait, kernel>>

\* addproc(): the process joins the job, which is not done any more.
addproc ==
  /\ At("forked")
  /\ Becomes([Table EXCEPT
       !.tab[thisjob] = [stat  |-> @.stat \ {"DONE"},
                         procs |-> Append(@.procs, [pid |-> pid, status |-> "running"])]])
  /\ pid' = NoPid
  /\ NextCommand
  /\ AfterCommand
  /\ UNCHANGED <<errflag, cmdoutpid, mask, inhandler, newjob, wait, kernel>>

\* spawnjob(): a job put in the background becomes curjob unless that is stopped.
spawnjob(T) ==
  LET j == T.this
      shuffled == IF ~ IsStopped(T, T.cur) THEN setprevjob([T EXCEPT !.cur = j])
                  ELSE IF ~ IsStopped(T, T.prev) THEN [T EXCEPT !.prev = j] ELSE T
      kept == IF T.tab[j].procs = <<>> THEN deletejob(shuffled, j)
              ELSE Set(shuffled, j, {"LOCKED"})
  IN [kept EXCEPT !.this = None]

\* How execpline() ends with &, with &! or &|, or by waiting for the job.
LaunchAsync ==
  /\ At("launch")
  /\ cmd.op = "run" /\ cmd.how # "sync"
  /\ LET T == Set(Table, thisjob, {"NOSTTY"}) IN
       IF cmd.how = "disown" THEN Becomes([deletejob(T, thisjob) EXCEPT !.this = None])
       ELSE Becomes(spawnjob(T))
  /\ mask' = "open"
  /\ Goto("prompt")
  /\ UNCHANGED <<errflag, cmdoutpid, inhandler, cmd, newjob, pid, wait, kernel>>

Waits(j, int, caller) ==
  /\ wait' = [job |-> j, int |-> int, caller |-> caller]
  /\ Goto("wait")

LaunchSync ==
  /\ At("launch")
  /\ cmd.op = "run" => cmd.how = "sync"
  /\ Waits(thisjob, FALSE, "execpline")
  /\ UNCHANGED <<table, errflag, cmdoutpid, mask, inhandler, cmd, newjob, pid, kernel>>

-----------------------------------------------------------------------------
(* waitjob(). *)

\* Mutant: no child_block() around the test and the sleep.
WaitEnters_Open ==
  /\ At("wait")
  /\ mask' = "open"
  /\ LET locked == Set(Table, wait.job, {"LOCKED"}) IN
       IF jobtab[wait.job].procs # <<>>
         THEN /\ Becomes(IF "CHANGED" \in Stat(locked, wait.job)
                           THEN printjob(locked, wait.job) ELSE locked)
              /\ Goto("waittest")
         ELSE /\ Becomes(deletejob(Table, wait.job))
              /\ Goto("waitover")
  /\ UNCHANGED <<errflag, cmdoutpid, inhandler, cmd, newjob, pid, wait, kernel>>

\* child_block(); the job is marked as completely built, or deleted if it has
\* no processes.
WaitEnters ==
  /\ At("wait")
  /\ mask' = "blocked"
  /\ LET locked == Set(Table, wait.job, {"LOCKED"}) IN
       IF jobtab[wait.job].procs # <<>>
         THEN /\ Becomes(IF "CHANGED" \in Stat(locked, wait.job)
                           THEN printjob(locked, wait.job) ELSE locked)
              /\ Goto("waittest")
         ELSE /\ Becomes(deletejob(Table, wait.job))
              /\ Goto("waitover")
  /\ UNCHANGED <<errflag, cmdoutpid, inhandler, cmd, newjob, pid, wait, kernel>>

Over(j) == jobtab[j].stat = {} \/ jobtab[j].stat \cap {"DONE", "STOPPED"} # {}

WaitTests ==
  /\ At("waittest")
  /\ Goto(IF errflag \/ Over(wait.job) THEN "waitover" ELSE "suspend")
  /\ UNCHANGED <<table, errflag, cmdoutpid, mask, inhandler, cmd, newjob, pid, wait, kernel>>

\* child_suspend(): one system call opens the mask and sleeps.
WaitSuspends ==
  /\ At("suspend")
  /\ mask' = "suspend"
  /\ Goto("asleep")
  /\ UNCHANGED <<table, errflag, cmdoutpid, inhandler, cmd, newjob, pid, wait, kernel>>

\* child_unblock(): a pending SIGCHLD is handled before waitjob() returns.
WaitUnblocks ==
  /\ At("waitover")
  /\ mask' = "open"
  /\ Goto("return")
  /\ UNCHANGED <<table, errflag, cmdoutpid, inhandler, cmd, newjob, pid, wait, kernel>>

\* Back in the caller: waitjobs() in execpline() and in fg, wait, wait for all.
WaitReturns ==
  /\ At("return")
  /\ CASE wait.caller = "execpline" ->
             Goto("prompt") /\ Becomes([Table EXCEPT !.this = None]) /\ wait' = NoWait
       [] wait.caller = "fg" ->
             Goto("launch") /\ Becomes([Table EXCEPT !.this = newjob]) /\ wait' = NoWait
       [] wait.caller = "wait" -> Waits(thisjob, FALSE, "fg") /\ UNCHANGED table
       [] wait.caller = "waitall" -> Goto("waitall") /\ UNCHANGED <<table, wait>>
  /\ UNCHANGED <<errflag, cmdoutpid, mask, inhandler, cmd, newjob, pid, kernel>>

-----------------------------------------------------------------------------
(* bin_fg(): the builtins fg, bg, wait, disown and jobs. *)

\* What bin_fg() does first: scanjobs() without NOTIFY, setcurjob().
Scanned == setcurjob(IF NOTIFY THEN Table ELSE scanjobs(Table))

\* The job named: the current one (arg 0), the previous one (None), or %n.
Named(T) == IF cmd.arg = 0 THEN T.cur ELSE IF cmd.arg = None THEN T.prev ELSE cmd.arg
Refused(T) ==
  LET j == Named(T) IN
  \/ ~ InUse(T, j)
  \/ cmd.arg = T.this
  \/ cmd.op = "bg" /\ ~ IsStopped(T, j)

\* The job being resumed stops being curjob; see the comments in bin_fg().
Shuffle(T, j) ==
  LET left == IF T.cur = j THEN [T EXCEPT !.cur = T.prev,
                                         !.prev = IF cmd.op = "bg" THEN None ELSE j] ELSE T
      prev == IF left.prev \in {j, None} THEN setprevjob(left) ELSE left
  IN IF prev.cur = None THEN PrevBecomesCur(prev) ELSE prev

Resumed(T, j) ==
  LET shuffled == Shuffle(IF IsStopped(T, j) THEN makerunning(T, j) ELSE T, j)
      printed  == IF cmd.op = "wait" THEN shuffled ELSE printjob(shuffled, j)
  IN CASE cmd.op = "bg" -> Set(printed, j, {"NOSTTY"})
       [] cmd.op = "fg" -> [printed EXCEPT !.this = j]
       [] OTHER -> printed

Builtin(ops) == At("builtin") /\ cmd.op \in ops

BuiltinRefuses ==
  /\ Builtin({"fg", "bg", "wait", "disown"})
  /\ Refused(Scanned)
  /\ Becomes(Scanned)
  /\ Goto("launch")
  /\ cmd' = NoCommand
  /\ UNCHANGED <<errflag, cmdoutpid, mask, inhandler, newjob, pid, wait, kernel>>

\* killjb(SIGCONT) reaches the job's processes if the job was stopped.
BuiltinResumes ==
  /\ Builtin({"fg", "bg", "wait"})
  /\ LET T == Scanned
         j == Named(T)
     IN /\ ~ Refused(T)
        /\ Becomes(Resumed(T, j))
        /\ IF IsStopped(T, j) THEN Continued(PidsOf(T.tab[j])) ELSE UNCHANGED kernel
        /\ CASE cmd.op = "bg"   -> Goto("launch") /\ UNCHANGED wait
             [] cmd.op = "fg"   -> Waits(j, FALSE, "fg")
             [] cmd.op = "wait" -> Waits(j, TRUE, "wait")
  /\ cmd' = NoCommand
  /\ UNCHANGED <<errflag, cmdoutpid, mask, inhandler, newjob, pid>>

\* disown: jobtab[job] = zero.
BuiltinDisowns ==
  /\ Builtin({"disown"})
  /\ ~ Refused(Scanned)
  /\ Becomes(deletejob(Scanned, Named(Scanned)))
  /\ Goto("launch")
  /\ cmd' = NoCommand
  /\ UNCHANGED <<errflag, cmdoutpid, mask, inhandler, newjob, pid, wait, kernel>>

\* jobs: every job but the builtin's own is printed.
Listed(T) ==
  LET upTo[j \in 0 .. MAXJOB - 1] ==
        IF j = 0 THEN T
        ELSE LET S == upTo[j - 1] IN
             IF j # S.this /\ Stat(S, j) # {} THEN printjob(S, j) ELSE S
  IN upTo[MAXJOB - 1]

BuiltinLists ==
  /\ Builtin({"jobs"})
  /\ Becomes(Listed(Scanned))
  /\ Goto("launch")
  /\ UNCHANGED <<errflag, cmdoutpid, mask, inhandler, cmd, newjob, pid, wait, kernel>>

\* wait without arguments: one waitjob() after the other.
BuiltinWaitsAll ==
  /\ Builtin({"waitall"})
  /\ Becomes(Scanned)
  /\ Goto("waitall")
  /\ wait' = [job |-> 0, int |-> TRUE, caller |-> "waitall"]
  /\ UNCHANGED <<errflag, cmdoutpid, mask, inhandler, cmd, newjob, pid, kernel>>

WaitsNext ==
  /\ At("waitall")
  /\ LET rest == {j \in Slots : j > wait.job /\ j # thisjob /\ jobtab[j].stat # {}} IN
       IF rest = {} THEN Goto("launch") /\ wait' = NoWait
       ELSE Waits(Lowest(rest), TRUE, "waitall")
  /\ UNCHANGED <<table, errflag, cmdoutpid, mask, inhandler, cmd, newjob, pid, kernel>>

-----------------------------------------------------------------------------
Prompt == preprompt \/ ScanTests \/ ScanClears
Pipeline ==
  \/ getoutput \/ SubstSuspends \/ CommandForks \/ CommandFails \/ addproc
  \/ LaunchAsync \/ LaunchSync
Waitjob == WaitEnters \/ WaitTests \/ WaitSuspends \/ WaitUnblocks \/ WaitReturns
Builtins ==
  \/ BuiltinRefuses \/ BuiltinResumes \/ BuiltinDisowns \/ BuiltinLists
  \/ BuiltinWaitsAll \/ WaitsNext

Next ==
  \/ Kernel
  \/ Signals
  \/ Prompt
  \/ \E c \in Lines : execpline(c)
  \/ Pipeline
  \/ Waitjob
  \/ Builtins

Spec == Init /\ [][Next]_vars

-----------------------------------------------------------------------------
(* Properties. *)

TypeOK ==
  /\ jobtab \in [Slots -> Job]
  /\ thisjob \in Slots \cup {None}
  /\ curjob \in Slots \cup {None}
  /\ prevjob \in Slots \cup {None}
  /\ lastval2 \in Slots \cup {0}
  /\ errflag \in BOOLEAN /\ inhandler \in BOOLEAN /\ sigchld \in BOOLEAN
  /\ cmdoutpid \in Pids \cup {NoPid} /\ pid \in Pids \cup {NoPid}
  /\ mask \in {"open", "blocked", "suspend"}
  /\ cmd \in Command
  /\ newjob \in Slots
  /\ child \in [Pids -> {"unborn", "running", "stopped", "exited", "killed", "gone"}]
  /\ unreported \subseteq {p \in Pids : child[p] = "stopped"}

Entries == {e \in Slots \X (1 .. MaxProcs) : e[2] \in DOMAIN jobtab[e[1]].procs}
Entry(e) == jobtab[e[1]].procs[e[2]]

\* No child's end is missed: a process the table calls running has not been
\* waited for yet, whenever SIGCHLD came between fork() and addproc().
RunningIsUnreaped ==
  \A e \in Entries : Entry(e).status = "running" => child[Entry(e).pid] # "gone"

\* A job is done only when each of its processes is; addproc() corrects the
\* verdict of an update_job() that saw only the first ones.
DoneMeansEnded ==
  \A j \in Slots : "DONE" \in jobtab[j].stat =>
    Statuses(jobtab[j]) \subseteq {"exited", "killed"}

Alive(p) == child[p] \in {"running", "stopped"}

\* Only disown forgets a job that still has a live process.
ForgottenWhenEnded ==
  [][\A j \in Slots :
       (\E p \in PidsOf(jobtab[j]) : Alive(p)) /\ jobtab'[j].procs = <<>>
         => cmd.op = "disown" \/ (cmd.op = "run" /\ cmd.how = "disown")]_vars

\* The prompt is never reached with SIGCHLD blocked, so a shell that waits for
\* the next line learns of every child.
PromptListens == pc \in {"prompt", "scan", "idle"} => mask = "open"

\* zfork() refuses the last slot, so a command line finds one: without it no
\* builtin could ever run that frees a job.
RoomForACommand == pc = "idle" => FreeSlots # {}

\* At rest every child that ended or stopped has been waited for: one SIGCHLD
\* may stand for several.
AtRest == pc = "idle" /\ ~ inhandler /\ ~ sigchld
AllReaped == AtRest => \A p \in Pids : ~ Waitable(p)

\* At rest the table tells the state of every process; only a SIGCONT somebody
\* else sent goes unnoticed.
TableTellsTheTruth == AtRest => \A e \in Entries :
  CASE Entry(e).status = "running" -> child[Entry(e).pid] = "running"
    [] Entry(e).status = "stopped" -> Alive(Entry(e).pid)
    [] OTHER -> child[Entry(e).pid] = "gone"

\* After setcurjob() "we have a suitable current" job for fg, bg and %%: one
\* that exists and is not the builtin itself, whatever became of the job that
\* was current (comment before setcurjob()).
CurrentSuitable == pc = "builtin" =>
  LET T == Scanned IN T.cur # None => InUse(T, T.cur) /\ T.cur # T.this

-----------------------------------------------------------------------------
(* Liveness.  The shell runs on, WAIT() returns what there is, and the     *)
(* handler's loop ends: children do not stop and go on for ever faster     *)
(* than the shell waits for them (SF).  Nothing is assumed of the children *)
(* or of who types.                                                        *)

Fairness ==
  /\ WF_vars(HandlerStarts \/ Waitjob)
  /\ \A p \in Pids : WF_vars(HandlerReaps(p))
  /\ SF_vars(HandlerEnds)

FairSpec == Spec /\ Fairness

\* waitjob() never sleeps through the end of the job's last process: the test
\* and the sleep are one critical section for SIGCHLD.
WaitEnds ==
  (pc = "asleep" /\ \A p \in PidsOf(jobtab[wait.job]) : ~ Alive(p)) ~> pc # "asleep"

-----------------------------------------------------------------------------
(* What the documentation says and the code does not keep. *)

\* zshbuiltins.man, wait: "The exit status from this command is that of the job
\* waited for." (0: nothing ended during the wait.)
WaitTellsItsJob ==
  pc = "return" /\ wait.caller = "wait" /\ wait.job # thisjob /\ ~ inhandler /\ ~ errflag
     /\ jobtab[wait.job] = zero
    => lastval2 \in {0, wait.job}

\* zshmisc.man: "If notify is not set, it waits until just before it prints a
\* prompt before it informs you": what has ended is still to be announced.
EndIsAnnounced == pc = "idle" /\ ~ inhandler =>
  \A j \in Slots : "DONE" \in jobtab[j].stat => "CHANGED" \in jobtab[j].stat

-----------------------------------------------------------------------------
\* Process ids are interchangeable.
PidSymmetry ==
  {[p \in Pids |-> f[p]] : f \in {f \in [Pids -> Pids] : \A p \in Pids : \E q \in Pids : f[q] = p}}
=============================================================================
