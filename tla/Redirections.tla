---------------------------- MODULE Redirections ----------------------------
(* The descriptors of the shell while it redirects a command: exec.c and    *)
(* utils.c.  What a descriptor is open on is given by the files it reads or  *)
(* writes, several if a process at the other end of a pipe serves them.      *)
EXTENDS Integers, Sequences, FiniteSets, TLC, Lib
LOCAL INSTANCE SequencesExt
LOCAL INSTANCE FiniteSetsExt

CONSTANTS
  NLOW,         \* 10 in the code: descriptors below are the user's
  Digit,        \* the number that a word of digits stands for
  Missing,      \* names of files that cannot be opened
  Scripts       \* what the shell may be given: whether there is a coprocess and whether
                \* fork() succeeds, and commands: kind, multios, joined (what it is
                \* piped to), redir

VARIABLES
  cmd,          \* execcmd(): sh, the shell's descriptors (open; fdtable, those marked;
                \* max_zsh_fd; coprocin; coprocout; forks, whether fork() succeeds), redir,
                \* save, mfds, errflag, and of history: view (what the manual says is
                \* redirected), before, and the leaks that are known
  pc,
  script        \* the commands that are left

vars == <<cmd, pc, script>>

Low == 0 .. NLOW - 1

\* A descriptor that is open on files, or on the pipe of the multio of a descriptor.
On(files)   == [to |-> files, pipe |-> -1]
PipeOf(fd1) == [to |-> << >>, pipe |-> fd1]

Lowest(s, from) == Min((from .. from + Cardinality(DOMAIN s.open)) \ DOMAIN s.open)

opened(s, from, value) ==
  LET fd == Lowest(s, from)
  IN  [sh |-> [s EXCEPT !.open = With(@, fd, value)], fd |-> fd]

-----------------------------------------------------------------------------
(* utils.c *)

zclose(s, fd) ==
  LET marked == s.fdtable \ {fd}
      below  == {f \in marked : f <= s.max_zsh_fd}
  IN  IF fd < 0 THEN s
      ELSE [s EXCEPT !.open = But(@, {fd}), !.fdtable = marked,
                     !.max_zsh_fd = IF below = {} THEN 0 ELSE Max(below),
                     !.coprocin  = IF @ = fd THEN -1 ELSE @,
                     !.coprocout = IF @ = fd THEN -1 ELSE @]

Marked(s, fd) == [s EXCEPT !.fdtable = @ \union {fd},
                           !.max_zsh_fd = IF fd > @ THEN fd ELSE @]

movefd(s, fd) ==
  LET copy == opened(s, NLOW, s.open[fd])
  IN  IF fd = -1 THEN [sh |-> s, fd |-> -1]
      ELSE IF fd >= NLOW THEN [sh |-> Marked(s, fd), fd |-> fd]
      ELSE IF fd \notin DOMAIN s.open THEN [sh |-> zclose(s, fd), fd |-> -1]
      ELSE [sh |-> Marked(zclose(copy.sh, fd), copy.fd), fd |-> copy.fd]

redup(s, x, y) ==
  LET marks  == x \in s.fdtable
      dup2   == [s EXCEPT !.open = IF x \in DOMAIN @ THEN With(@, y, @[x]) ELSE @,
                          !.fdtable = IF marks THEN @ \union {y} ELSE @ \ {y},
                          !.max_zsh_fd = IF marks /\ y > @ THEN y ELSE @]
  IN  IF x < 0 THEN zclose(s, y)
      ELSE IF x = y THEN s
      ELSE zclose(dup2, x)

-----------------------------------------------------------------------------
(* exec.c *)

\* A pipe, both ends moved: 0 is the end to read from, 1 the one to write to.
mpipe(s, value) ==
  LET r  == opened(s, 0, value)
      w  == opened(r.sh, 0, value)
      r2 == movefd(w.sh, r.fd)
      w2 == movefd(r2.sh, w.fd)
  IN  [sh |-> w2.sh, end |-> [e \in {0, 1} |-> IF e = 0 THEN r2.fd ELSE w2.fd]]

\* closem(1): nothing is marked with more, as there is no PATH_DEV_FD.
closem(s) == FoldSet(LAMBDA fd, t : zclose(t, fd), s, {f \in s.fdtable : f \in NLOW .. s.max_zsh_fd})

\* The process that copies gets the descriptors; the command has the pipe.
Served(c, fd) ==
  LET mn    == c.mfds[fd]
      files == FlattenSeq([j \in DOMAIN mn.fds |->
                  IF mn.fds[j] \in DOMAIN c.sh.open THEN c.sh.open[mn.fds[j]].to ELSE << >>])
      tee   == IF c.sh.forks
               THEN [c.sh EXCEPT !.open = [f \in DOMAIN @ |->
                        IF @[f].pipe = fd THEN On(files) ELSE @[f]]]
               ELSE c.sh
  IN  [c EXCEPT !.sh = FoldLeft(zclose, tee, Append(mn.fds, mn.pipe)), !.mfds[fd].fds = <<fd>>]

closemn(c, fd) ==
  IF fd \in DOMAIN c.mfds /\ Len(c.mfds[fd].fds) > 1 THEN Served(c, fd) ELSE c

closemnodes(c) ==
  [c EXCEPT !.sh = FoldSet(LAMBDA i, s : FoldLeft(zclose, s, c.mfds[i].fds), @, DOMAIN c.mfds),
            !.mfds = << >>,
            !.leaks = IF \E i \in DOMAIN c.mfds : Len(c.mfds[i].fds) > 1
                      THEN @ \union {"pipe of a multio"} ELSE @]

fixfds(c) ==
  [c EXCEPT !.sh = FoldSet(LAMBDA i, s : IF c.save[i] = -2 THEN s ELSE redup(s, c.save[i], i), @, Low)]

\* A slip: what was saved is forgotten when the descriptor was closed before.
firstfd_SavesAgain(c, fd1, fd2, rflag) ==
  LET moved == IF fd1 = fd2 THEN [sh |-> c.sh, fd |-> -1] ELSE movefd(c.sh, fd1)
      keeps == fd1 \notin DOMAIN c.mfds /\ c.kind # "external"
  IN  [c EXCEPT !.sh = redup(IF keeps THEN moved.sh ELSE @, fd2, fd1),
                !.save[fd1] = IF keeps THEN moved.fd ELSE @,
                !.mfds = With(@, fd1, [fds |-> <<fd1>>, pipe |-> -1, rflag |-> rflag])]

firstfd(c, fd1, fd2, rflag) ==
  LET new   == fd1 \notin DOMAIN c.mfds
      moved == IF fd1 = fd2 THEN [sh |-> c.sh, fd |-> -1] ELSE movefd(c.sh, fd1)
      keeps == new /\ c.kind # "external" /\ c.save[fd1] = -2
  IN  [c EXCEPT !.sh = redup(IF keeps THEN moved.sh ELSE @, fd2, fd1),
                !.save[fd1] = IF keeps THEN moved.fd ELSE @,
                !.mfds = With(@, fd1, [fds |-> <<fd1>>, pipe |-> -1, rflag |-> rflag])]

splitfd(c, fd1, fd2, rflag) ==
  LET a     == movefd(c.sh, fd1)
      b     == movefd(a.sh, fd2)
      pipes == mpipe(b.sh, PipeOf(fd1))
  IN  [c EXCEPT !.sh = redup(pipes.sh, pipes.end[rflag], fd1),
                !.mfds[fd1] = [fds |-> <<a.fd, b.fd>>, pipe |-> pipes.end[1 - rflag],
                               rflag |-> rflag]]

joinfd(c, fd1, fd2) ==
  LET b == movefd(c.sh, fd2)
  IN  [c EXCEPT !.sh = b.sh, !.mfds[fd1].fds = Append(@, b.fd)]

addfd(c, fd1, fd2, rflag) ==
  IF fd1 \notin DOMAIN c.mfds \/ ~c.multios THEN firstfd(c, fd1, fd2, rflag)
  ELSE IF c.mfds[fd1].rflag # rflag
  THEN [c EXCEPT !.errflag = TRUE, !.leaks = @ \union {"mode mismatch"}]
  ELSE IF Len(c.mfds[fd1].fds) = 1 THEN splitfd(c, fd1, fd2, rflag)
  ELSE joinfd(c, fd1, fd2)

-----------------------------------------------------------------------------
(* What zshmisc(1) says of redirections, in terms of files alone. *)

Now(v, fd) == IF fd \in DOMAIN v.to THEN v.to[fd] ELSE << >>

\* With MULTIOS a further redirection adds, without it replaces.
Says(c, fd, rflag, files) ==
  LET v == c.view IN
  IF ~c.multios \/ fd \notin DOMAIN v.mode
  THEN [c EXCEPT !.view = [to |-> With(v.to, fd, files), mode |-> With(v.mode, fd, rflag)]]
  ELSE IF v.mode[fd] # rflag THEN c
  ELSE [c EXCEPT !.view.to = With(@, fd, Now(v, fd) \o files)]

SaysClosed(c, fd) == [c EXCEPT !.view.to = But(@, {fd})]

-----------------------------------------------------------------------------
(* The redirections of a command in execcmd(). *)

\* The process behind < <(...) or > >(...), started before any redirection.
getpipe(a, r) ==
  LET pipes == mpipe(a.sh, On(<<r.word>>))
      out   == IF r.type = "INPIPE" THEN 1 ELSE 0
  IN  IF r.type \notin {"INPIPE", "OUTPIPE"} THEN [a EXCEPT !.redir = Append(@, r)]
      ELSE IF r.word \in Missing THEN [a EXCEPT !.redir = Append(@, [r EXCEPT !.fd2 = -1])]
      ELSE [sh |-> zclose(pipes.sh, pipes.end[out]),
            redir |-> Append(a.redir, [r EXCEPT !.fd2 = pipes.end[1 - out]])]

spawnpipes(c) ==
  LET a == FoldLeft(getpipe, [sh |-> c.sh, redir |-> << >>], c.redir)
  IN  [c EXCEPT !.sh = a.sh, !.redir = a.redir]

\* What a redirection becomes when its word is expanded.
xpandredir(c, r) ==
  LET one   == ~c.multios \/ Len(r.matches) = 1
      name  == IF c.multios /\ one THEN Head(r.matches) ELSE r.word
      merge == r.type \in {"MERGEIN", "MERGEOUT"}
      error == [rest |-> << >>, now |-> << >>, bad |-> TRUE]
      plain == [r EXCEPT !.word = name]
      Now_(x) == [rest |-> << >>, now |-> <<x>>, bad |-> FALSE]
  IN  IF one
      THEN IF ~merge THEN Now_(plain)
           ELSE IF name = "-" THEN Now_([plain EXCEPT !.type = "CLOSE"])
           ELSE IF name = "p" THEN Now_([plain EXCEPT !.fd2 = -2])
           ELSE IF name \in DOMAIN Digit THEN Now_([plain EXCEPT !.fd2 = Digit[name]])
           ELSE IF r.type = "MERGEIN" THEN error
           ELSE Now_([plain EXCEPT !.type = "ERRWRITE"])
      ELSE IF r.type = "MERGEIN" THEN error
      ELSE LET t == IF merge THEN "ERRWRITE" ELSE r.type
           IN  [rest |-> [i \in DOMAIN r.matches |-> [r EXCEPT !.type = t, !.word = r.matches[i],
                                                               !.matches = <<r.matches[i]>>]],
                now  |-> IF r.matches = << >> THEN <<[r EXCEPT !.type = t]>> ELSE << >>,
                bad  |-> FALSE]

\* closemnodes(), fixfds() and execerr().
Failed(c) ==
  LET d == fixfds(closemnodes(c))
  IN  [d EXCEPT !.errflag = TRUE,
                !.leaks = IF \E i \in DOMAIN c.redir : c.redir[i].type \in {"INPIPE", "OUTPIPE"} /\ c.redir[i].fd2 # -1
                          THEN @ \union {"pipe of a process"} ELSE @,
                !.redir = << >>, !.failed = TRUE]

\* A file, for READ, READWRITE, HERESTR, WRITE and APP.
File(c, r, rflag) ==
  LET new == opened(c.sh, 0, On(<<r.word>>))
  IN  IF r.word \in Missing THEN Failed(c)
      ELSE Says(addfd([c EXCEPT !.sh = new.sh], r.fd1, new.fd, rflag), r.fd1, rflag, <<r.word>>)

\* A file for fd1 and for 2.
ErrorFile(c, r) ==
  LET fil  == opened(c.sh, 0, On(<<r.word>>))
      dfil == opened(fil.sh, 0, On(<<r.word>>))
      both == addfd(addfd([c EXCEPT !.sh = dfil.sh], r.fd1, fil.fd, 1), 2, dfil.fd, 1)
      said == Says(Says(both, r.fd1, 1, <<r.word>>), 2, 1, <<r.word>>)
  IN  IF r.word \in Missing THEN Failed(c)
      ELSE IF r.fd1 = dfil.fd THEN [said EXCEPT !.leaks = @ \union {"the copy is fd1"}] ELSE said

Close(c, r) ==
  LET keeps == c.kind # "external" /\ c.save[r.fd1] = -2
      moved == movefd(c.sh, r.fd1)
      d     == closemn([c EXCEPT !.sh = IF keeps THEN moved.sh ELSE @,
                                 !.save[r.fd1] = IF keeps THEN moved.fd ELSE @], r.fd1)
  IN  SaysClosed([d EXCEPT !.sh = zclose(@, r.fd1)], r.fd1)

Merge(c, r) ==
  LET d     == IF r.fd2 \in Low THEN closemn(c, r.fd2) ELSE c
      rflag == IF r.type = "MERGEOUT" THEN 1 ELSE 0
      fd    == IF r.fd2 # -2 THEN r.fd2 ELSE IF rflag = 1 THEN d.sh.coprocout ELSE d.sh.coprocin
      own   == r.fd2 >= NLOW /\ r.fd2 \in d.sh.fdtable \union {d.sh.coprocin, d.sh.coprocout}
      fil   == opened(d.sh, 0, d.sh.open[fd])
      says  == IF fd \in Low THEN Now(c.view, fd) ELSE d.sh.open[fd].to
  IN  IF own \/ fd \notin DOMAIN d.sh.open THEN Failed(d)
      ELSE Says(addfd([d EXCEPT !.sh = fil.sh], r.fd1, fil.fd, rflag), r.fd1, rflag, says)

Process(c, r, rflag) ==
  IF r.fd2 = -1 THEN Failed(c)
  ELSE Says(addfd(c, r.fd1, r.fd2, rflag), r.fd1, rflag, <<r.word>>)

Redirected(c, r) ==
  CASE r.type = "INPIPE"  -> Process(c, r, 0)
    [] r.type = "OUTPIPE" -> Process(c, r, 1)
    [] r.type \in {"READ", "READWRITE", "HERESTR"} -> File(c, r, 0)
    [] r.type = "CLOSE"   -> Close(c, r)
    [] r.type \in {"MERGEIN", "MERGEOUT"} -> Merge(c, r)
    [] r.type = "ERRWRITE" -> ErrorFile(c, r)
    [] OTHER -> File(c, r, 1)

\* A turn of the loop over the redirections.
Turn(c) ==
  LET r == Head(c.redir)
      x == IF r.type = "HERESTR" \/ r.type \in {"INPIPE", "OUTPIPE"}
           THEN [rest |-> << >>, now |-> <<r>>, bad |-> FALSE] ELSE xpandredir(c, r)
      d == [c EXCEPT !.redir = Tail(@) \o x.rest]
  IN  IF r.type \notin {"INPIPE", "OUTPIPE"} /\ (c.errflag \/ x.bad) THEN Failed(d)
      ELSE IF x.now = << >> THEN d
      ELSE Redirected(d, Head(x.now))

-----------------------------------------------------------------------------
(* Words that become several files are redirected behind all the rest. *)
InTurn(redir) ==
  \A i \in DOMAIN redir : Len(redir[i].matches) > 1 => i = Len(redir)

\* The descriptors that the user knows of, by what they are open on.
ViewOf(s) == [fd \in DOMAIN s.open \cap Low |-> s.open[fd].to]

Shell(coproc, forks) ==
  [open |-> [fd \in (0 .. 2) \union {NLOW} \union (IF coproc THEN {NLOW + 1, NLOW + 2} ELSE {})
               |-> On(<<ToString(fd)>>)],
   fdtable |-> {NLOW}, max_zsh_fd |-> NLOW,
   coprocin  |-> IF coproc THEN NLOW + 1 ELSE -1,
   coprocout |-> IF coproc THEN NLOW + 2 ELSE -1,
   forks |-> forks]

Command(s, k) ==
  [sh |-> s, kind |-> k.kind, multios |-> k.multios, redir |-> k.redir,
   save |-> [i \in Low |-> -2], mfds |-> << >>, errflag |-> FALSE, failed |-> FALSE,
   view |-> [to |-> ViewOf(s), mode |-> << >>], before |-> s, leaks |-> {}]

Init ==
  /\ \E s \in Scripts :
       /\ script = s.commands
       /\ cmd = Command(Shell(s.coproc, s.forks), [kind |-> "none", multios |-> FALSE, redir |-> << >>])
  /\ pc = "done"

\* The pipe from the left or to the right, made by execpline(); the other end
\* is the other command's.
Joined(c, k) ==
  LET p == mpipe(c.sh, On(<<k.joined>>))
      d == [c EXCEPT !.sh = zclose(p.sh, p.end[IF k.joined = "input" THEN 1 ELSE 0])]
  IN  CASE k.joined = "input"  -> Says(addfd(d, 0, p.end[0], 0), 0, 0, <<"input">>)
        [] k.joined = "output" -> Says(addfd(d, 1, p.end[1], 1), 1, 1, <<"output">>)
        [] OTHER -> c

\* execcmd() up to the loop; the child of an external command closes SHTTY.
Begin ==
  LET k == Head(script)
      c == Command(cmd.sh, k)
      d == IF k.kind = "external" THEN [c EXCEPT !.sh = zclose(@, NLOW)] ELSE c
  IN  /\ pc = "done" /\ script # << >> /\ cmd.leaks = {} /\ InTurn(k.redir)
      /\ cmd' = spawnpipes(Joined(d, k))
      /\ pc' = "redirecting" /\ script' = Tail(script)

Redirect ==
  /\ pc = "redirecting" /\ cmd.redir # << >>
  /\ cmd' = Turn(cmd)
  /\ pc' = IF ~cmd'.failed THEN "redirecting"
           ELSE IF cmd.kind = "external" THEN "gone" ELSE "done"
  /\ UNCHANGED script

AllDone(c) == FoldLeft(closemn, c, [i \in 1 .. NLOW |-> i - 1])

Kept(c) == [c EXCEPT !.sh = FoldSet(LAMBDA i, s : zclose(s, c.save[i]), @,
                                    {i \in Low : c.save[i] # -2})]

Alone(c) == [c EXCEPT !.sh = zclose(zclose(closem(@), @.coprocin), @.coprocout)]

\* The multios are closed, and the command is run unless there was an error.
Run ==
  /\ pc = "redirecting" /\ cmd.redir = << >>
  /\ LET c == AllDone(cmd) IN
     CASE cmd.kind = "exec" -> cmd' = Kept(c) /\ pc' = "done"
       [] cmd.kind # "exec" /\ cmd.errflag -> cmd' = fixfds(c) /\ pc' = "done"
       [] cmd.kind = "external" /\ ~cmd.errflag -> cmd' = Alone(c) /\ pc' = "running"
       [] OTHER -> cmd' = c /\ pc' = "running"
  /\ UNCHANGED script

\* A builtin or function returns.
Return ==
  /\ pc = "running" /\ cmd.kind = "builtin"
  /\ cmd' = fixfds(cmd) /\ pc' = "done"
  /\ UNCHANGED script

Next == Begin \/ Redirect \/ Run \/ Return

Spec == Init /\ [][Next]_vars

-----------------------------------------------------------------------------
\* zshmisc(1), REDIRECTION: when a command runs, and after exec, its descriptors
\* are open on the files that its redirections name, each evaluated in terms of
\* what the earlier ones had done, all of them where MULTIOS applies; an external
\* command has no other descriptors.
RedirectionsMeanWhatTheySay ==
  (cmd.sh.forks /\ cmd.leaks = {} /\ (pc = "running" \/ (pc = "done" /\ cmd.kind = "exec" /\ ~cmd.failed))) =>
    /\ ViewOf(cmd.sh) = cmd.view.to
    /\ cmd.kind = "external" => DOMAIN cmd.sh.open \subseteq Low

\* When a builtin or a function is done, or a redirection failed, the shell has
\* the descriptors it had (exec.c:2088, "restore fds after redirecting a builtin"),
\* none more, and knows which are its own, so that it can close them in a child.
DescriptorsComeBack ==
  pc = "done" =>
    /\ (cmd.kind = "builtin" \/ cmd.failed) =>
         /\ \A fd \in DOMAIN cmd.before.open \cap Low :
              fd \in DOMAIN cmd.sh.open /\ cmd.sh.open[fd] = cmd.before.open[fd]
         /\ cmd.leaks = {} => DOMAIN cmd.sh.open \cap Low = DOMAIN cmd.before.open \cap Low
    /\ cmd.leaks = {} =>
         DOMAIN cmd.sh.open \ Low = DOMAIN cmd.before.open \ Low
    /\ cmd.sh.fdtable \subseteq DOMAIN cmd.sh.open
    /\ DOMAIN cmd.sh.open \ Low \subseteq cmd.sh.fdtable \union {cmd.sh.coprocin, cmd.sh.coprocout}
    /\ \A fd \in cmd.sh.fdtable : fd <= cmd.sh.max_zsh_fd
=============================================================================
