--------------------------- MODULE NtSignalsProofs ---------------------------
(***************************************************************************)
(* No end is slept through, and what is blocked is blocked: proofs about   *)
(* NtSignals for every set of children and any number of Ctrl-C.           *)
(*                                                                         *)
(* The threads are in calls of calls, as deep as there are signals; what   *)
(* the argument needs of a stack is its first call, its innermost one, and *)
(* that whoever handles a signal stands on a call that will wake           *)
(* sigsuspend().  While the mask is not spoilt, at most one thread has all  *)
(* signals blocked for a moment, and the mask that it will put back, or    *)
(* the mask that is in force, is the one that belongs to the place of the   *)
(* main thread.  So SIGCHLD is handled only where it is open; a SIGCHLD     *)
(* that is kept although it is open was kept under a handler, whose end    *)
(* wakes the sleeper.                                                      *)
(***************************************************************************)
EXTENDS NtSignals, SequenceTheorems, TLAPS

BasePcs == {"idle", "blocked", "wait", "done", "suspend", "setmask", "sleep", "reset", "awake",
            "restore", "reblock"}
\* Where the main thread wants SIGCHLD blocked.
ClosedPcs == {"blocked", "wait", "done", "suspend", "setmask", "reblock"}
WorkPcs == {"handler", "unblock", "reap", "interrupt"}
HandlerPcs == {"deliver", "clear", "generic", "keep", "wake"} \union WorkPcs
\* Where a call is while another runs on top of it.
CallerPcs == {"deliver", "wake", "reap", "interrupt", "idle", "sleep", "reblock", "resume"}
Pcs == BasePcs \union HandlerPcs \union {"resume"}

Todos == {<<>>, <<"SIGINT">>, <<"SIGCHLD">>, <<"SIGINT", "SIGCHLD">>}
Frame == [pc : Pcs, sig : AllSignals \union {""}, old : SUBSET AllSignals, todo : Todos]
Entry == [pid : Children, exitcode : Children \union {Garbage}]

Types ==
  /\ gBlockMask \in SUBSET AllSignals /\ gPending \in SUBSET AllSignals
  /\ clist \in Seq(Entry) /\ crit \in Children \union {"none"} /\ frozen \in BOOLEAN
  /\ is_suspended \in BOOLEAN /\ hsigsusp \in BOOLEAN /\ errflag \in BOOLEAN /\ crossed \in BOOLEAN
  /\ keys \in Nat /\ crowded \in SUBSET Children
  /\ stack \in [Threads -> Seq(Frame)]
  /\ child \in [Children -> {"none", "running", "ended", "listed", "reaped"}]
  /\ status \in [Children -> Children \union {Garbage}]

\* A handler stands on the call that wakes sigsuspend(); only the calls that call
\* others are under others.
FrameOK(s, i) ==
  /\ s[i].pc \in WorkPcs => i > 1 /\ s[i - 1].pc = "wake"
  /\ s[i].pc = "reap" => s[i].sig = "SIGCHLD"
  /\ s[i].pc \in {"clear", "generic", "keep"} => s[i].sig \in AllSignals
  /\ i < Len(s) => s[i].pc \in CallerPcs

\* The main thread is in the shell, perhaps in deliver_pending() from there; a child's
\* thread is in its callback or not at all; the console's is in the handler of SIGINT
\* whenever it delivers another signal.
StackOK(t, s) ==
  /\ \A i \in 1 .. Len(s) : FrameOK(s, i)
  /\ \A i \in 2 .. Len(s) : s[i].pc \in HandlerPcs
  /\ t = Main => Len(s) >= 1 /\ s[1].pc \in BasePcs
  /\ t = Main => (Len(s) >= 2 => s[2].pc \in {"deliver", "clear"})
  /\ t \in Children => (Len(s) >= 1 => s[1].pc = "resume")
  /\ t = Console => (Len(s) >= 1 => s[1].pc \in {"generic", "keep", "wake"} /\ s[1].sig = "SIGINT")
  /\ t = Console => (Len(s) >= 2 => s[1].pc = "wake")

Shape ==
  /\ \A t \in Threads : StackOK(t, stack[t])
  /\ \A c \in Children : (stack[c] # <<>>) <=> (crit = c)
  /\ frozen <=> (crit # "none")

\* Where the main thread is in the shell, whatever it is called away to.
Bottom == stack[Main][1]
Base == Bottom.pc

Reaping(f) == f.sig = "SIGCHLD" /\ f.pc \in {"handler", "unblock", "reap"}
Bound(f) == f.sig = "SIGCHLD" /\ f.pc \in {"generic", "keep", "handler", "unblock", "reap"}
HasWake(s) == \E i \in 1 .. Len(s) : s[i].pc = "wake"
HasBound(s) == \E i \in 1 .. Len(s) : Bound(s[i])
HasReaping(s) == \E i \in 1 .. Len(s) : Reaping(s[i])
Acting(f) == f.pc \in WorkPcs \union {"wake"}
Acts(s) == \E i \in 1 .. Len(s) : Acting(s[i])
AllBlocked(t) == stack[t] # <<>> /\ Top(t).pc = "unblock"
Wakes == \E t \in Threads : HasWake(stack[t])

\* A child on the list is told of: SIGCHLD is kept, or on its way to be kept or handled.
ListTold ==
  clist # <<>> =>
    \/ "SIGCHLD" \in gPending
    \/ \E t \in Threads : HasBound(stack[t])

Suspended == Base \in {"setmask", "sleep", "reset", "awake"} => is_suspended

\* The mask that is to be is in force, or one handler has it and will put it back.
Right(m) == ("SIGCHLD" \in m) <=> (Base \in ClosedPcs)
MaskOK ==
  /\ \A t \in Threads : AllBlocked(t) => gBlockMask = AllSignals /\ Right(Top(t).old)
  /\ (\A t \in Threads : ~AllBlocked(t)) => Right(gBlockMask)
  /\ \A t, u \in Threads : AllBlocked(t) /\ AllBlocked(u) => t = u
  /\ \A c \in Children : InHandler(c) => ~AllBlocked(Main)

NoneReaps == Base \in ClosedPcs => \A t \in Threads : ~HasReaping(stack[t])

\* Who keeps SIGCHLD while it is open does so under a handler.
KeepWakes ==
  Base = "sleep" =>
    \A t \in Threads : stack[t] # <<>> /\ Top(t).pc = "keep" /\ Top(t).sig = "SIGCHLD"
                         => hsigsusp \/ Wakes

\* The first deliver_pending() of sigsuspend() has yet to look at SIGCHLD.
Looks(s) ==
  Len(s) >= 2 /\ (\/ s[2].todo \in {<<"SIGCHLD">>, <<"SIGINT", "SIGCHLD">>}
                  \/ s[2].pc = "clear" /\ s[2].sig = "SIGCHLD")
PendingTold ==
  Base = "sleep" /\ "SIGCHLD" \in gPending => hsigsusp \/ Wakes \/ Looks(stack[Main])

SomeLeft ==
  /\ Base \in {"suspend", "setmask"} => Unreaped # {}
  /\ Base = "sleep" => Unreaped # {} \/ hsigsusp \/ Wakes

\* sigsuspend() will put back the mask of waitjob().
OldKept == Base \in {"sleep", "reset", "awake", "restore"} => "SIGCHLD" \in Bottom.old

Unspoilt == MaskOK /\ NoneReaps /\ KeepWakes /\ PendingTold /\ SomeLeft

IInv == Types /\ Shape /\ ListTold /\ Suspended /\ (~crossed => Unspoilt /\ OldKept)

-----------------------------------------------------------------------------
(* Steps of a stack.                                                        *)

Replaces(s, z, f) ==
  /\ Len(z) = Len(s) /\ z[Len(s)] = f
  /\ \A i \in 1 .. Len(s) - 1 : z[i] = s[i]
Pops(s, z) ==
  /\ Len(z) = Len(s) - 1
  /\ \A i \in 1 .. Len(s) - 1 : z[i] = s[i]
Pushes(s, z, f, g) ==
  /\ Len(z) = Len(s) + 1 /\ z[Len(s)] = f /\ z[Len(s) + 1] = g
  /\ \A i \in 1 .. Len(s) - 1 : z[i] = s[i]

\* A stack that is not empty has an innermost call, and all its calls are calls.
LEMMA SeqFacts ==
  ASSUME NEW s \in Seq(Frame), s # <<>>
  PROVE  /\ Len(s) \in Nat /\ Len(s) >= 1
         /\ \A i \in 1 .. Len(s) : s[i] \in Frame
         /\ s[Len(s)] \in Frame
  OBVIOUS

\* [s EXCEPT ![Len(s)] = f] replaces the innermost call.
LEMMA ReplaceIs ==
  ASSUME NEW s \in Seq(Frame), s # <<>>, NEW f \in Frame
  PROVE  /\ [s EXCEPT ![Len(s)] = f] \in Seq(Frame)
         /\ Replaces(s, [s EXCEPT ![Len(s)] = f], f)
  BY DEF Replaces

\* Below() pops it.
LEMMA PopIs ==
  ASSUME NEW s \in Seq(Frame), s # <<>>
  PROVE  /\ SubSeq(s, 1, Len(s) - 1) \in Seq(Frame)
         /\ Pops(s, SubSeq(s, 1, Len(s) - 1))
<1>1. PICK n \in Nat : n = Len(s) - 1
  BY SeqFacts
<1>2. \A i \in 1 .. n : s[i] \in Frame
  BY <1>1, SeqFacts
<1> DEFINE z == SubSeq(s, 1, n)
<1>3. z \in Seq(Frame) /\ Len(z) = (IF 1 <= n THEN n - 1 + 1 ELSE 0) /\ \A i \in 1 .. n - 1 + 1 : z[i] = s[1 + i - 1]
  BY <1>2, SubSeqProperties
<1> HIDE DEF z
<1>4. Len(z) = n /\ \A i \in 1 .. n : z[i] = s[i]
  BY <1>3
<1>5. z \in Seq(Frame) /\ Pops(s, z)
  BY <1>1, <1>3, <1>4 DEF Pops
<1> QED
  BY <1>1, <1>5 DEF z

\* CallThen() replaces it and pushes another.
LEMMA PushIs ==
  ASSUME NEW s \in Seq(Frame), s # <<>>, NEW f \in Frame, NEW g \in Frame
  PROVE  /\ Append(Append(SubSeq(s, 1, Len(s) - 1), f), g) \in Seq(Frame)
         /\ Pushes(s, Append(Append(SubSeq(s, 1, Len(s) - 1), f), g), f, g)
<1> DEFINE b == SubSeq(s, 1, Len(s) - 1)
<1>1. b \in Seq(Frame) /\ Len(b) = Len(s) - 1 /\ \A i \in 1 .. Len(s) - 1 : b[i] = s[i]
  BY PopIs DEF Pops
<1>2. PICK n \in Nat : n = Len(s) /\ n >= 1
  BY SeqFacts
<1> HIDE DEF b
<1> DEFINE a == Append(b, f)
<1>3. a \in Seq(Frame) /\ Len(a) = n /\ a[n] = f /\ \A i \in 1 .. n - 1 : a[i] = s[i]
  BY <1>1, <1>2
<1> HIDE DEF a
<1> DEFINE z == Append(a, g)
<1>4. z \in Seq(Frame) /\ Len(z) = n + 1 /\ z[n + 1] = g /\ \A i \in 1 .. n : z[i] = a[i]
  BY <1>2, <1>3
<1>5. z[n] = f /\ \A i \in 1 .. n - 1 : z[i] = s[i]
  BY <1>2, <1>3, <1>4
<1>6. z \in Seq(Frame) /\ Pushes(s, z, f, g)
  BY <1>2, <1>4, <1>5 DEF Pushes
<1> QED
  BY <1>6 DEF z, a, b

-----------------------------------------------------------------------------
(* The calls.                                                               *)

\* The main thread, the console's and the children's are different threads.
LEMMA ThreadsDiffer ==
  /\ Main \in Threads /\ Console \in Threads /\ Children \subseteq Threads
  /\ Main # Console /\ Main \notin Children /\ Console \notin Children /\ "none" \notin Threads
  BY ThreadAssumption DEF Threads

\* The fields of a call.
LEMMA CallTyped ==
  ASSUME NEW pc \in Pcs, NEW sig \in AllSignals \union {""}, NEW old \in SUBSET AllSignals, NEW todo \in Todos
  PROVE  /\ Call(pc, sig, old, todo) \in Frame
         /\ Call(pc, sig, old, todo).pc = pc /\ Call(pc, sig, old, todo).sig = sig
         /\ Call(pc, sig, old, todo).todo = todo
  BY DEF Call, Frame

\* deliver_pending() is a call, and looks at SIGCHLD unless that is blocked.
LEMMA DeliverTyped ==
  ASSUME NEW m \in SUBSET AllSignals
  PROVE  /\ Deliver(m) \in Frame
         /\ Deliver(m).pc = "deliver" /\ Deliver(m).sig = ""
         /\ "SIGCHLD" \notin m => Deliver(m).todo \in {<<"SIGCHLD">>, <<"SIGINT", "SIGCHLD">>}
<1> DEFINE a == IF "SIGINT" \in m THEN <<>> ELSE <<"SIGINT">>
           b == IF "SIGCHLD" \in m THEN <<>> ELSE <<"SIGCHLD">>
<1>0. /\ <<>> \o <<>> = <<>> /\ <<"SIGINT">> \o <<>> = <<"SIGINT">>
      /\ <<>> \o <<"SIGCHLD">> = <<"SIGCHLD">> /\ <<"SIGINT">> \o <<"SIGCHLD">> = <<"SIGINT", "SIGCHLD">>
  <2> DEFINE Sigs == {"SIGINT", "SIGCHLD"}
  <2>1. /\ <<>> \in Seq(Sigs) /\ <<"SIGINT">> \in Seq(Sigs) /\ <<"SIGCHLD">> \in Seq(Sigs)
        /\ <<"SIGINT", "SIGCHLD">> \in Seq(Sigs)
    <3>1. <<>> \in Seq(Sigs)
      OBVIOUS
    <3>2. <<"SIGINT">> \in Seq(Sigs)
      OBVIOUS
    <3>3. <<"SIGCHLD">> \in Seq(Sigs)
      OBVIOUS
    <3>4. <<"SIGINT", "SIGCHLD">> \in Seq(Sigs)
      OBVIOUS
    <3> QED
      BY <3>1, <3>2, <3>3, <3>4
  <2>2. <<"SIGINT">> \o <<"SIGCHLD">> = <<"SIGINT", "SIGCHLD">>
    <3> DEFINE z == <<"SIGINT">> \o <<"SIGCHLD">>
    <3>1. z \in Seq(Sigs) /\ Len(z) = 2 /\ z[1] = "SIGINT" /\ z[2] = "SIGCHLD"
      BY <2>1, ConcatProperties
    <3> HIDE DEF z
    <3>2. z = <<"SIGINT", "SIGCHLD">>
      BY <3>1, <2>1, SeqEqual
    <3> QED
      BY <3>2 DEF z
  <2> QED
    BY <2>1, <2>2, ConcatEmptySeq
<1>1. a \o b \in Todos /\ ("SIGCHLD" \notin m => a \o b \in {<<"SIGCHLD">>, <<"SIGINT", "SIGCHLD">>})
  <2>1. CASE "SIGINT" \in m
    BY <1>0, <2>1, Zenon DEF Todos
  <2>2. CASE "SIGINT" \notin m
    BY <1>0, <2>2, Zenon DEF Todos
  <2> QED
    BY <2>1, <2>2
<1>2. Deliver(m) = Call("deliver", "", {}, a \o b)
  BY DEF Deliver
<1>3. "deliver" \in Pcs
  BY DEF Pcs, HandlerPcs
<1> HIDE DEF a, b
<1> DEFINE todo == a \o b
<1>4. "" \in AllSignals \union {""} /\ {} \in SUBSET AllSignals
  OBVIOUS
<1>5. todo \in Todos
  BY <1>1
<1> HIDE DEF todo
<1>6. LET d == Call("deliver", "", {}, todo) IN d \in Frame /\ d.pc = "deliver" /\ d.sig = "" /\ d.todo = todo
  BY <1>3, <1>4, <1>5 DEF Call, Frame
<1> QED
  BY <1>1, <1>2, <1>6 DEF todo

\* A call that goes on elsewhere.
LEMMA MovedTyped ==
  ASSUME NEW f \in Frame, NEW pc \in Pcs
  PROVE  LET g == [f EXCEPT !.pc = pc]
         IN  g \in Frame /\ g.pc = pc /\ g.sig = f.sig /\ g.todo = f.todo /\ g.old = f.old
  BY DEF Frame

\* A thread's step, by what it does to its stack; the others' stay.
Alone(t) ==
  /\ stack' \in [Threads -> Seq(Frame)]
  /\ \A u \in Threads \ {t} : stack'[u] = stack[u]

\* A stack is replaced, the other threads' stay.
LEMMA Exchange ==
  ASSUME Types, NEW t \in Threads, NEW z \in Seq(Frame), stack' = [stack EXCEPT ![t] = z]
  PROVE  Alone(t) /\ stack'[t] = z
  BY DEF Types, Alone

\* Goto(), Return() and CallThen() as moves of one stack.
LEMMA GotoStep ==
  ASSUME Types, NEW t \in Threads, stack[t] # <<>>, NEW pc \in Pcs, Goto(t, pc)
  PROVE  Alone(t) /\ Replaces(stack[t], stack'[t], [Top(t) EXCEPT !.pc = pc])
<1> DEFINE s == stack[t]
           f == [s[Len(s)] EXCEPT !.pc = pc]
<1>1. s \in Seq(Frame) /\ s[Len(s)] \in Frame
  BY SeqFacts DEF Types
<1>2. f \in Frame
  BY <1>1, MovedTyped
<1>3. stack' = [stack EXCEPT ![t] = [s EXCEPT ![Len(s)] = f]]
  BY DEF Goto, Types
<1> HIDE DEF f
<1>4. [s EXCEPT ![Len(s)] = f] \in Seq(Frame) /\ Replaces(s, [s EXCEPT ![Len(s)] = f], f)
  BY <1>1, <1>2, ReplaceIs
<1>5. Alone(t) /\ stack'[t] = [s EXCEPT ![Len(s)] = f]
  BY <1>3, <1>4, Exchange
<1> QED
  BY <1>4, <1>5 DEF f, Top

\* A call that is replaced by another.
LEMMA ReplaceStep ==
  ASSUME Types, NEW t \in Threads, stack[t] # <<>>, NEW f \in Frame,
         stack' = [stack EXCEPT ![t][Len(stack[t])] = f]
  PROVE  Alone(t) /\ Replaces(stack[t], stack'[t], f)
<1> DEFINE s == stack[t]
<1>1. s \in Seq(Frame)
  BY DEF Types
<1>3. stack' = [stack EXCEPT ![t] = [s EXCEPT ![Len(s)] = f]]
  BY DEF Types
<1>4. [s EXCEPT ![Len(s)] = f] \in Seq(Frame) /\ Replaces(s, [s EXCEPT ![Len(s)] = f], f)
  BY <1>1, ReplaceIs
<1>5. Alone(t) /\ stack'[t] = [s EXCEPT ![Len(s)] = f]
  BY <1>3, <1>4, Exchange
<1> QED
  BY <1>4, <1>5

\* A call that returns.
LEMMA ReturnStep ==
  ASSUME Types, NEW t \in Threads, stack[t] # <<>>, Return(t)
  PROVE  Alone(t) /\ Pops(stack[t], stack'[t])
<1>1. stack[t] \in Seq(Frame)
  BY DEF Types
<1>2. Below(t) \in Seq(Frame) /\ Pops(stack[t], Below(t))
  BY <1>1, PopIs DEF Below
<1>3. Alone(t) /\ stack'[t] = Below(t)
  BY <1>2, Exchange DEF Return
<1> QED
  BY <1>2, <1>3

\* A call that calls.
LEMMA CallStep ==
  ASSUME Types, NEW t \in Threads, stack[t] # <<>>, NEW pc \in Pcs, NEW g \in Frame, CallThen(t, pc, g)
  PROVE  Alone(t) /\ Pushes(stack[t], stack'[t], [Top(t) EXCEPT !.pc = pc], g)
<1> DEFINE f == [Top(t) EXCEPT !.pc = pc]
           z == Append(Append(Below(t), f), g)
<1>1. stack[t] \in Seq(Frame) /\ Top(t) \in Frame
  BY SeqFacts DEF Types, Top
<1>2. f \in Frame
  BY <1>1, MovedTyped
<1> HIDE DEF f
<1>3. z \in Seq(Frame) /\ Pushes(stack[t], z, f, g)
  BY <1>1, <1>2, PushIs DEF Below
<1>4. stack' = [stack EXCEPT ![t] = z]
  BY DEF CallThen, f
<1> HIDE DEF z
<1>5. Alone(t) /\ stack'[t] = z
  BY <1>3, <1>4, Exchange
<1> QED
  BY <1>3, <1>5 DEF f

-----------------------------------------------------------------------------
(* The shape of the stacks.                                                 *)

\* What holds of a thread that is at pc.
LEMMA AtTop ==
  ASSUME Types, Shape, NEW t \in Threads, NEW pc, At(t, pc)
  PROVE  /\ stack[t] \in Seq(Frame) /\ stack[t] # <<>>
         /\ Top(t) = stack[t][Len(stack[t])] /\ Top(t) \in Frame /\ Top(t).pc = pc
         /\ Len(stack[t]) \in Nat /\ Len(stack[t]) >= 1
         /\ t = Main => ~frozen /\ crit = "none" /\ \A c \in Children : stack[c] = <<>>
         /\ t \in Children => crit = t /\ frozen
         /\ pc \in HandlerPcs => t = Console \/ Len(stack[t]) >= 2
         /\ pc \in BasePcs => t = Main /\ Len(stack[t]) = 1 /\ Base = pc
         /\ pc = "resume" => t \in Children /\ Len(stack[t]) = 1
         /\ pc \in {"clear", "generic", "keep"} => Top(t).sig \in AllSignals
<1>1. stack[t] \in Seq(Frame) /\ stack[t] # <<>>
  BY DEF Types, At
<1>2. Top(t) = stack[t][Len(stack[t])] /\ Top(t) \in Frame /\ Top(t).pc = pc
  BY <1>1, SeqFacts DEF Top, At
<1>3. Len(stack[t]) \in Nat /\ Len(stack[t]) >= 1
  BY <1>1, SeqFacts
<1>4. t = Main => ~frozen /\ crit = "none" /\ \A c \in Children : stack[c] = <<>>
  BY ThreadsDiffer DEF At, Shape, Types
<1>5. t \in Children => crit = t /\ frozen
  BY <1>1, ThreadsDiffer DEF Shape, Types
<1>6. StackOK(t, stack[t])
  BY DEF Shape
<1> DEFINE s == stack[t]
<1>a. PICK n \in Nat : n = Len(s) /\ n >= 1
  BY <1>3
<1>b. n >= 2 => pc \in HandlerPcs
  BY <1>2, <1>6, <1>a DEF StackOK
<1>c. n = 1 =>
        \/ t = Main /\ pc \in BasePcs
        \/ t \in Children /\ pc = "resume"
        \/ t = Console /\ pc \in {"generic", "keep", "wake"}
  BY <1>2, <1>6, <1>a DEF StackOK, Threads
<1>d. /\ pc \in BasePcs => pc \notin HandlerPcs /\ pc # "resume"
      /\ pc \in HandlerPcs => pc # "resume"
      /\ pc \in {"generic", "keep", "wake"} => pc \in HandlerPcs
  BY DEF HandlerPcs, BasePcs, WorkPcs
<1>g. pc \in {"clear", "generic", "keep"} => Top(t).sig \in AllSignals
  BY <1>2, <1>6, <1>a DEF StackOK, FrameOK
<1>f. Len(stack[t]) = n
  BY <1>a
<1> HIDE DEF s
<1>e. n = 1 \/ n >= 2
  BY <1>a
<1>7. pc \in HandlerPcs => t = Console \/ n >= 2
  BY <1>c, <1>d, <1>e
<1>8. pc \in BasePcs => t = Main /\ Len(stack[t]) = 1 /\ Base = pc
  <2>1. pc \in BasePcs => t = Main /\ n = 1
    BY <1>b, <1>c, <1>d, <1>e
  <2> QED
    BY <2>1, <1>2, <1>f DEF Base, Bottom
<1>9. pc = "resume" => t \in Children /\ n = 1
  BY <1>b, <1>c, <1>d, <1>e
<1> QED
  BY <1>1, <1>2, <1>3, <1>4, <1>5, <1>7, <1>8, <1>9, <1>f, <1>g

\* A return keeps the shape of a stack; the main thread does not return from the shell.
LEMMA PopOK ==
  ASSUME NEW t, NEW s \in Seq(Frame), NEW z \in Seq(Frame), StackOK(t, s), s # <<>>, Pops(s, z),
         t = Main => Len(s) >= 2
  PROVE  StackOK(t, z)
<1>1. PICK n \in Nat : n = Len(s) /\ n >= 1
  BY SeqFacts
<1>2. Len(z) = n - 1 /\ \A i \in 1 .. n - 1 : z[i] = s[i]
  BY <1>1 DEF Pops
<1>a. \A i \in 1 .. n : FrameOK(s, i)
  BY <1>1 DEF StackOK
<1>3. \A i \in 1 .. n - 1 : FrameOK(z, i)
  BY <1>1, <1>2, <1>a DEF FrameOK
<1> QED
  BY <1>1, <1>2, <1>3 DEF StackOK

\* A handler's call that goes on keeps the shape of its stack.
LEMMA ReplaceOK ==
  ASSUME NEW t, NEW s \in Seq(Frame), NEW z \in Seq(Frame), StackOK(t, s), s # <<>>,
         NEW f \in Frame, Replaces(s, z, f), f.pc \in HandlerPcs,
         t # Console => Len(s) >= 2,
         f.pc \in WorkPcs => s[Len(s)].pc \in WorkPcs,
         f.pc = "reap" => f.sig = "SIGCHLD",
         f.pc \in {"clear", "generic", "keep"} => f.sig \in AllSignals,
         t = Main /\ Len(s) = 2 => f.pc \in {"deliver", "clear"},
         t = Console /\ Len(s) = 1 => f.pc \in {"generic", "keep", "wake"} /\ f.sig = s[1].sig
  PROVE  StackOK(t, z)
<1>1. PICK n \in Nat : n = Len(s) /\ n >= 1
  BY SeqFacts
<1>2. Len(z) = n /\ z[n] = f /\ \A i \in 1 .. n - 1 : z[i] = s[i]
  BY <1>1 DEF Replaces
<1>3. \A i \in 1 .. n - 1 : FrameOK(z, i)
  BY <1>1, <1>2 DEF StackOK, FrameOK
<1>4. FrameOK(z, n)
  BY <1>1, <1>2 DEF StackOK, FrameOK
<1>5. \A i \in 2 .. n : z[i].pc \in HandlerPcs
  BY <1>1, <1>2 DEF StackOK
<1>6. Main # Console /\ Console \notin Children
  BY ThreadsDiffer
<1>7. t = Main => (n >= 2 => z[2].pc \in {"deliver", "clear"})
  <2>1. n = 1 \/ n = 2 \/ n > 2
    BY <1>1
  <2>2. n > 2 => z[2] = s[2]
    BY <1>2
  <2> QED
    BY <1>1, <1>2, <2>1, <2>2 DEF StackOK
<1>8. t = Main => z[1].pc \in BasePcs
  BY <1>1, <1>2, <1>6 DEF StackOK
<1> QED
  BY <1>1, <1>2, <1>3, <1>4, <1>5, <1>6, <1>7, <1>8 DEF StackOK

\* A handler's call that calls another keeps the shape of its stack.
LEMMA PushOK ==
  ASSUME NEW t, NEW s \in Seq(Frame), NEW z \in Seq(Frame), StackOK(t, s), s # <<>>,
         NEW f \in Frame, NEW g \in Frame, Pushes(s, z, f, g),
         t # Console => Len(s) >= 2,
         f.pc \in HandlerPcs \cap CallerPcs, g.pc \in HandlerPcs \ {"reap"},
         f.pc \in WorkPcs => s[Len(s)].pc \in WorkPcs,
         f.pc = "reap" => f.sig = "SIGCHLD",
         g.pc \in WorkPcs => f.pc = "wake", f.pc \notin {"clear", "generic", "keep"},
         g.pc \in {"clear", "generic", "keep"} => g.sig \in AllSignals,
         t = Main /\ Len(s) = 2 => f.pc \in {"deliver", "clear"},
         t = Console /\ Len(s) = 1 => f.pc = "wake" /\ f.sig = s[1].sig
  PROVE  StackOK(t, z)
<1>1. PICK n \in Nat : n = Len(s) /\ n >= 1
  BY SeqFacts
<1>2. Len(z) = n + 1 /\ z[n] = f /\ z[n + 1] = g /\ \A i \in 1 .. n - 1 : z[i] = s[i]
  BY <1>1 DEF Pushes
<1>3. \A i \in 1 .. n - 1 : FrameOK(z, i)
  BY <1>1, <1>2 DEF StackOK, FrameOK
<1>4. FrameOK(z, n)
  BY <1>1, <1>2 DEF StackOK, FrameOK
<1>5. FrameOK(z, n + 1)
  BY <1>1, <1>2 DEF FrameOK
<1>6. \A i \in 2 .. n + 1 : z[i].pc \in HandlerPcs
  BY <1>1, <1>2 DEF StackOK
<1>7. \A i \in 1 .. Len(z) : FrameOK(z, i)
  BY <1>1, <1>2, <1>3, <1>4, <1>5
<1>8. Main # Console /\ Console \notin Children
  BY ThreadsDiffer
<1>9. t = Main => (n >= 2 => z[2].pc \in {"deliver", "clear"})
  <2>1. n = 1 \/ n = 2 \/ n > 2
    BY <1>1
  <2>2. n > 2 => z[2] = s[2]
    BY <1>2
  <2> QED
    BY <1>1, <1>2, <2>1, <2>2 DEF StackOK
<1>10. t = Main => n >= 2
  BY <1>1, <1>8
<1> QED
  BY <1>1, <1>2, <1>6, <1>7, <1>8, <1>9, <1>10 DEF StackOK

\* A step of one thread's stack keeps the shape of all.
LEMMA ShapeFrom ==
  ASSUME Types, Shape, NEW t \in Threads, Alone(t), StackOK(t, stack'[t]),
         t \in Children => crit = t /\ stack'[t] # <<>>,
         crit' = crit, frozen' = frozen
  PROVE  Shape'
<1>1. \A u \in Threads : StackOK(u, stack'[u])
  BY DEF Shape, Alone
<1>2. \A c \in Children : (stack'[c] # <<>>) <=> (crit = c)
  BY ThreadsDiffer DEF Shape, Alone
<1> QED
  BY <1>1, <1>2 DEF Shape

-----------------------------------------------------------------------------
(* What each step does to its stack.                                        *)

LookSet == {<<"SIGCHLD">>, <<"SIGINT", "SIGCHLD">>}

\* What deliver_pending() has yet to look at.
LEMMA TodoFacts ==
  ASSUME NEW d \in Todos, d # <<>>
  PROVE  /\ Head(d) \in AllSignals /\ Tail(d) \in Todos
         /\ d \in LookSet => Tail(d) \in LookSet \/ Head(d) = "SIGCHLD"
         /\ d \in LookSet /\ ~(Len(d) > 1) => Head(d) = "SIGCHLD"
<1>1. CASE d = <<"SIGINT">>
  BY <1>1 DEF Todos, LookSet, AllSignals
<1>2. CASE d = <<"SIGCHLD">>
  BY <1>2 DEF Todos, LookSet, AllSignals
<1>3. CASE d = <<"SIGINT", "SIGCHLD">>
  <2>1. Tail(d) = <<"SIGCHLD">>
    BY <1>3
  <2> QED
    BY <1>3, <2>1 DEF Todos, LookSet, AllSignals
<1> QED
  BY <1>1, <1>2, <1>3 DEF Todos

\* Where calls are, by their kind.
LEMMA PcFacts ==
  /\ HandlerPcs \subseteq Pcs /\ BasePcs \subseteq Pcs /\ WorkPcs \subseteq HandlerPcs
  /\ {"deliver", "wake", "reap", "interrupt"} \subseteq HandlerPcs \cap CallerPcs
  /\ {"clear", "generic", "keep", "wake", "handler", "unblock"} \subseteq HandlerPcs \ {"reap"}
  /\ {"deliver", "clear", "generic", "keep", "wake"} \cap WorkPcs = {}
  /\ {"handler", "unblock", "reap", "interrupt"} \subseteq WorkPcs
  BY DEF HandlerPcs, BasePcs, Pcs, CallerPcs, WorkPcs

\* deliver_pending() finds a signal that is kept, goes on to the next, or is done.
LEMMA LookDoes ==
  ASSUME Types, Shape, NEW t \in Threads, Look(t)
  PROVE  /\ Alone(t)
         /\ \/ \E f \in Frame :
                 /\ Replaces(stack[t], stack'[t], f) /\ f.pc = "clear" /\ f.sig \in gPending
                 /\ Top(t).todo # <<>> /\ f.sig = Head(Top(t).todo) /\ f.todo = Tail(Top(t).todo)
            \/ \E f \in Frame :
                 /\ Replaces(stack[t], stack'[t], f) /\ f.pc = "deliver" /\ f.sig = Top(t).sig
                 /\ Top(t).todo # <<>> /\ Head(Top(t).todo) \notin gPending
                 /\ f.todo = Tail(Top(t).todo)
            \/ /\ Pops(stack[t], stack'[t])
               /\ Top(t).todo = <<>> \/ (~(Len(Top(t).todo) > 1) /\ Head(Top(t).todo) \notin gPending)
<1>1. stack[t] # <<>> /\ Top(t) \in Frame /\ Top(t).pc = "deliver" /\ Top(t) = stack[t][Len(stack[t])]
  BY AtTop DEF Look
<1> DEFINE d == Top(t).todo
<1>2. d \in Todos
  BY <1>1 DEF Frame
<1>3. CASE d # <<>> /\ Head(d) \in gPending
  <2> DEFINE f == [Top(t) EXCEPT !.pc = "clear", !.sig = Head(d), !.todo = Tail(d)]
  <2>1. Head(d) \in AllSignals /\ Tail(d) \in Todos /\ "clear" \in Pcs
    BY <1>2, <1>3, TodoFacts, PcFacts
  <2>2. f \in Frame /\ f.pc = "clear" /\ f.sig = Head(d) /\ f.todo = Tail(d)
    BY <1>1, <2>1 DEF Frame
  <2>3. stack' = [stack EXCEPT ![t][Len(stack[t])] = f]
    BY <1>1, <1>3 DEF Look
  <2> HIDE DEF f
  <2>4. Alone(t) /\ Replaces(stack[t], stack'[t], f)
    BY <1>1, <2>2, <2>3, ReplaceStep
  <2> QED
    BY <1>3, <2>2, <2>4
<1>4. CASE ~(d # <<>> /\ Head(d) \in gPending) /\ Len(d) > 1
  <2> DEFINE f == [Top(t) EXCEPT !.todo = Tail(d)]
  <2>0. d # <<>>
    BY <1>4
  <2>1. Tail(d) \in Todos
    BY <1>2, <2>0, TodoFacts
  <2>2. f \in Frame /\ f.pc = "deliver" /\ f.sig = Top(t).sig /\ f.todo = Tail(d)
    BY <1>1, <2>1 DEF Frame
  <2>3. stack' = [stack EXCEPT ![t][Len(stack[t])] = f]
    BY <1>1, <1>4 DEF Look, Types
  <2> HIDE DEF f
  <2>4. Alone(t) /\ Replaces(stack[t], stack'[t], f)
    BY <1>1, <2>2, <2>3, ReplaceStep
  <2> QED
    BY <1>4, <2>0, <2>2, <2>4
<1>5. CASE ~(d # <<>> /\ Head(d) \in gPending) /\ ~(Len(d) > 1)
  <2>1. Return(t)
    BY <1>5 DEF Look
  <2>2. Alone(t) /\ Pops(stack[t], stack'[t])
    BY <1>1, <2>1, ReturnStep
  <2> QED
    BY <1>5, <2>2
<1> QED
  BY <1>3, <1>4, <1>5

\* deliver_pending() takes a signal back and hands it to generic_handler().
LEMMA ClearDoes ==
  ASSUME Types, Shape, NEW t \in Threads, Clear(t)
  PROVE  /\ Alone(t)
         /\ \E f \in Frame, g \in Frame :
              /\ Pushes(stack[t], stack'[t], f, g)
              /\ f.pc = "deliver" /\ f.sig = Top(t).sig /\ f.todo = Top(t).todo
              /\ g.pc = "generic" /\ g.sig = Top(t).sig
<1>1. stack[t] # <<>> /\ Top(t) \in Frame
  BY AtTop DEF Clear
<1> DEFINE g == Call("generic", Top(t).sig, {}, <<>>)
           f == [Top(t) EXCEPT !.pc = "deliver"]
<1>2. Top(t).sig \in AllSignals \union {""} /\ {} \in SUBSET AllSignals /\ <<>> \in Todos
  BY <1>1 DEF Frame, Todos
<1>3. "generic" \in Pcs /\ "deliver" \in Pcs
  BY PcFacts
<1>4. g \in Frame /\ g.pc = "generic" /\ g.sig = Top(t).sig
  BY <1>2, <1>3 DEF Call, Frame
<1>5. f \in Frame /\ f.pc = "deliver" /\ f.sig = Top(t).sig /\ f.todo = Top(t).todo
  BY <1>1, <1>3, MovedTyped
<1>6. CallThen(t, "deliver", g)
  BY DEF Clear
<1> HIDE DEF g
<1>7. Alone(t) /\ Pushes(stack[t], stack'[t], f, g)
  BY <1>1, <1>3, <1>4, <1>6, CallStep
<1> HIDE DEF f
<1> QED
  BY <1>4, <1>5, <1>7

\* generic_handler() keeps a blocked signal and calls the shell's handler for others.
LEMMA GenericDoes ==
  ASSUME Types, Shape, NEW t \in Threads, Generic(t)
  PROVE  /\ Alone(t)
         /\ \/ /\ Top(t).sig \in gBlockMask
               /\ \E f \in Frame : /\ Replaces(stack[t], stack'[t], f)
                                   /\ f.pc = "keep" /\ f.sig = Top(t).sig /\ f.todo = Top(t).todo
            \/ /\ Top(t).sig \notin gBlockMask
               /\ \E f \in Frame, g \in Frame :
                    /\ Pushes(stack[t], stack'[t], f, g)
                    /\ f.pc = "wake" /\ f.sig = Top(t).sig /\ f.todo = Top(t).todo
                    /\ g.pc = "handler" /\ g.sig = Top(t).sig
<1>1. stack[t] # <<>> /\ Top(t) \in Frame
  BY AtTop DEF Generic
<1>3. "keep" \in Pcs /\ "wake" \in Pcs /\ "handler" \in Pcs
  BY PcFacts
<1>4. CASE Top(t).sig \in gBlockMask
  <2> DEFINE f == [Top(t) EXCEPT !.pc = "keep"]
  <2>1. f \in Frame /\ f.pc = "keep" /\ f.sig = Top(t).sig /\ f.todo = Top(t).todo
    BY <1>1, <1>3, MovedTyped
  <2>2. Goto(t, "keep")
    BY <1>4 DEF Generic
  <2>3. Alone(t) /\ Replaces(stack[t], stack'[t], f)
    BY <1>1, <1>3, <2>2, GotoStep
  <2> HIDE DEF f
  <2> QED
    BY <1>4, <2>1, <2>3
<1>5. CASE Top(t).sig \notin gBlockMask
  <2> DEFINE g == Call("handler", Top(t).sig, {}, <<>>)
             f == [Top(t) EXCEPT !.pc = "wake"]
  <2>1. Top(t).sig \in AllSignals \union {""} /\ {} \in SUBSET AllSignals /\ <<>> \in Todos
    BY <1>1 DEF Frame, Todos
  <2>2. g \in Frame /\ g.pc = "handler" /\ g.sig = Top(t).sig
    BY <1>3, <2>1 DEF Call, Frame
  <2>3. f \in Frame /\ f.pc = "wake" /\ f.sig = Top(t).sig /\ f.todo = Top(t).todo
    BY <1>1, <1>3, MovedTyped
  <2>4. CallThen(t, "wake", g)
    BY <1>5 DEF Generic
  <2> HIDE DEF g
  <2>5. Alone(t) /\ Pushes(stack[t], stack'[t], f, g)
    BY <1>1, <1>3, <2>2, <2>4, CallStep
  <2> HIDE DEF f
  <2> QED
    BY <1>5, <2>2, <2>3, <2>5
<1> QED
  BY <1>4, <1>5

\* The shell's handler saves the mask that is in force.
LEMMA BlockAllDoes ==
  ASSUME Types, Shape, NEW t \in Threads, BlockAll(t)
  PROVE  /\ Alone(t)
         /\ \E f \in Frame : /\ Replaces(stack[t], stack'[t], f)
                             /\ f.pc = "unblock" /\ f.sig = Top(t).sig /\ f.old = gBlockMask
<1>1. stack[t] # <<>> /\ Top(t) \in Frame
  BY AtTop DEF BlockAll
<1> DEFINE f == [Top(t) EXCEPT !.pc = "unblock", !.old = gBlockMask]
<1>2. "unblock" \in Pcs
  BY PcFacts
<1>3. f \in Frame /\ f.pc = "unblock" /\ f.sig = Top(t).sig /\ f.old = gBlockMask
  BY <1>1, <1>2 DEF Frame, Types
<1>4. stack' = [stack EXCEPT ![t][Len(stack[t])] = f]
  BY DEF BlockAll
<1> HIDE DEF f
<1>5. Alone(t) /\ Replaces(stack[t], stack'[t], f)
  BY <1>1, <1>3, <1>4, ReplaceStep
<1> QED
  BY <1>3, <1>5

\* The shell's handler puts back the mask, delivers, and does its work.
LEMMA UnblockDoes ==
  ASSUME Types, Shape, NEW t \in Threads, Unblock(t)
  PROVE  /\ Alone(t)
         /\ \E f \in Frame, g \in Frame :
              /\ Pushes(stack[t], stack'[t], f, g)
              /\ f.pc \in {"reap", "interrupt"} /\ f.sig = Top(t).sig
              /\ (f.pc = "reap") <=> (f.sig = "SIGCHLD")
              /\ g.pc = "deliver" /\ g.sig = ""
<1>1. stack[t] # <<>> /\ Top(t) \in Frame
  BY AtTop DEF Unblock
<1> DEFINE g == Deliver(Top(t).old)
           pc == IF Top(t).sig = "SIGCHLD" THEN "reap" ELSE "interrupt"
           f == [Top(t) EXCEPT !.pc = pc]
<1>2. pc \in Pcs /\ pc \in {"reap", "interrupt"} /\ (pc = "reap" <=> Top(t).sig = "SIGCHLD")
  BY PcFacts
<1>3. Top(t).old \in SUBSET AllSignals
  BY <1>1 DEF Frame
<1>4. g \in Frame /\ g.pc = "deliver" /\ g.sig = ""
  BY <1>3, DeliverTyped
<1>5. CallThen(t, pc, g)
  BY DEF Unblock
<1> HIDE DEF g, pc
<1>6. f \in Frame /\ f.pc = pc /\ f.sig = Top(t).sig
  BY <1>1, <1>2, MovedTyped
<1>7. Alone(t) /\ Pushes(stack[t], stack'[t], f, g)
  BY <1>1, <1>2, <1>4, <1>5, CallStep
<1> HIDE DEF f
<1> QED
  BY <1>2, <1>4, <1>6, <1>7

-----------------------------------------------------------------------------
(* The steps of a handler keep the types, the shape and the main thread's   *)
(* place.                                                                   *)

\* A handler's call that goes on keeps the shape of all stacks and the shell's own call.
LEMMA ReplaceKeeps ==
  ASSUME Types, Shape, NEW t \in Threads, NEW pc \in HandlerPcs, At(t, pc), Alone(t),
         NEW f \in Frame, Replaces(stack[t], stack'[t], f), f.pc \in HandlerPcs,
         f.pc \in WorkPcs => pc \in WorkPcs, f.pc # "reap",
         f.pc \in {"clear", "generic", "keep"} => f.sig \in AllSignals,
         pc \in {"deliver", "clear"} => f.pc \in {"deliver", "clear"},
         pc \in {"generic", "keep", "wake"} => f.pc \in {"generic", "keep", "wake"} /\ f.sig = Top(t).sig,
         crit' = crit, frozen' = frozen
  PROVE  Shape' /\ Bottom' = Bottom
<1> DEFINE s == stack[t]
           z == stack'[t]
<1>1. s \in Seq(Frame) /\ z \in Seq(Frame) /\ s # <<>> /\ StackOK(t, s) /\ s[Len(s)].pc = pc
  BY AtTop DEF Alone, Shape
<1>2. t # Console => Len(s) >= 2
  BY AtTop
<1>3. PICK n \in Nat : n = Len(s) /\ n >= 1
  BY <1>1, SeqFacts
<1>4. Len(z) = n /\ \A i \in 1 .. n - 1 : z[i] = s[i]
  BY <1>3 DEF Replaces
<1>5. t = Console /\ n = 1 => f.pc \in {"generic", "keep", "wake"} /\ f.sig = s[1].sig
  BY <1>1, <1>3, AtTop DEF StackOK
<1>a. t = Main /\ Len(s) = 2 => f.pc \in {"deliver", "clear"}
  BY <1>1 DEF StackOK
<1>6. StackOK(t, z)
  BY <1>1, <1>2, <1>3, <1>5, <1>a, ReplaceOK
<1>7. t \in Children => crit = t /\ stack'[t] # <<>>
  BY <1>3, <1>4, AtTop
<1>8. Shape'
  BY <1>6, <1>7, ShapeFrom
<1>9. Bottom' = Bottom
  <2>1. CASE t = Main
    BY <1>2, <1>3, <1>4, <2>1, ThreadsDiffer DEF Bottom
  <2>2. CASE t # Main
    BY <2>2, ThreadsDiffer DEF Bottom, Alone
  <2> QED
    BY <2>1, <2>2
<1> QED
  BY <1>8, <1>9

\* A handler's return keeps the shape of all stacks and the shell's own call.
LEMMA PopKeeps ==
  ASSUME Types, Shape, NEW t \in Threads, NEW pc \in HandlerPcs, At(t, pc), Alone(t),
         Pops(stack[t], stack'[t]), crit' = crit, frozen' = frozen
  PROVE  Shape' /\ Bottom' = Bottom
<1> DEFINE s == stack[t]
           z == stack'[t]
<1>1. s \in Seq(Frame) /\ z \in Seq(Frame) /\ s # <<>> /\ StackOK(t, s)
  BY AtTop DEF Alone, Shape
<1>2. t # Console => Len(s) >= 2
  BY AtTop
<1>3. PICK n \in Nat : n = Len(s) /\ n >= 1
  BY <1>1, SeqFacts
<1>4. Len(z) = n - 1 /\ \A i \in 1 .. n - 1 : z[i] = s[i]
  BY <1>3 DEF Pops
<1>6. StackOK(t, z)
  BY <1>1, <1>2, PopOK, ThreadsDiffer
<1>7. t \in Children => crit = t /\ stack'[t] # <<>>
  <2> SUFFICES ASSUME t \in Children PROVE crit = t /\ z # <<>>
    OBVIOUS
  <2>1. n >= 2 /\ crit = t
    BY <1>2, <1>3, AtTop, ThreadsDiffer
  <2>2. Len(z) >= 1
    BY <1>4, <2>1
  <2> QED
    BY <2>1, <2>2
<1>8. Shape'
  BY <1>6, <1>7, ShapeFrom
<1>9. Bottom' = Bottom
  <2>1. CASE t = Main
    BY <1>2, <1>3, <1>4, <2>1, ThreadsDiffer DEF Bottom
  <2>2. CASE t # Main
    BY <2>2, ThreadsDiffer DEF Bottom, Alone
  <2> QED
    BY <2>1, <2>2
<1> QED
  BY <1>8, <1>9

\* A handler's call of another keeps the shape of all stacks and the shell's own call.
LEMMA PushKeeps ==
  ASSUME Types, Shape, NEW t \in Threads, NEW pc \in HandlerPcs, At(t, pc), Alone(t),
         NEW f \in Frame, NEW g \in Frame, Pushes(stack[t], stack'[t], f, g),
         f.pc \in HandlerPcs \cap CallerPcs, g.pc \in HandlerPcs \ {"reap"},
         f.pc \in WorkPcs => pc \in WorkPcs, f.pc = "reap" => f.sig = "SIGCHLD",
         g.pc \in WorkPcs => f.pc = "wake", f.pc \notin {"clear", "generic", "keep"},
         g.pc \in {"clear", "generic", "keep"} => g.sig \in AllSignals,
         pc \in {"deliver", "clear"} => f.pc \in {"deliver", "clear"},
         pc \in {"generic", "keep", "wake"} => f.pc = "wake" /\ f.sig = Top(t).sig,
         crit' = crit, frozen' = frozen
  PROVE  Shape' /\ Bottom' = Bottom
<1> DEFINE s == stack[t]
           z == stack'[t]
<1>1. s \in Seq(Frame) /\ z \in Seq(Frame) /\ s # <<>> /\ StackOK(t, s) /\ s[Len(s)].pc = pc
  BY AtTop DEF Alone, Shape
<1>2. t # Console => Len(s) >= 2
  BY AtTop
<1>3. PICK n \in Nat : n = Len(s) /\ n >= 1
  BY <1>1, SeqFacts
<1>4. Len(z) = n + 1 /\ \A i \in 1 .. n - 1 : z[i] = s[i]
  BY <1>3 DEF Pushes
<1>5. t = Console /\ n = 1 => f.pc = "wake" /\ f.sig = s[1].sig
  BY <1>1, <1>3, AtTop DEF StackOK
<1>a. t = Main /\ Len(s) = 2 => f.pc \in {"deliver", "clear"}
  BY <1>1 DEF StackOK
<1>6. StackOK(t, z)
  BY <1>1, <1>2, <1>3, <1>5, <1>a, PushOK
<1>7. t \in Children => crit = t /\ stack'[t] # <<>>
  BY <1>3, <1>4, AtTop
<1>8. Shape'
  BY <1>6, <1>7, ShapeFrom
<1>9. Bottom' = Bottom
  <2>1. CASE t = Main
    BY <1>2, <1>3, <1>4, <2>1, ThreadsDiffer DEF Bottom
  <2>2. CASE t # Main
    BY <2>2, ThreadsDiffer DEF Bottom, Alone
  <2> QED
    BY <2>1, <2>2
<1> QED
  BY <1>8, <1>9

\* sigprocmask() sets a mask, and a mask that is spoilt stays spoilt.
LEMMA SetMaskTyped ==
  ASSUME Types, NEW t \in Threads, NEW m \in SUBSET AllSignals, SetMask(t, m)
  PROVE  gBlockMask' \in SUBSET AllSignals /\ crossed' \in BOOLEAN /\ (~crossed' => ~crossed)
  BY DEF SetMask, Types

\* What waitpid() takes from the list is a child and a code.
LEMMA ReapTakes ==
  ASSUME Types, clist # <<>>
  PROVE  Head(clist).pid \in Children /\ Head(clist).exitcode \in Children \union {Garbage} /\ Tail(clist) \in Seq(Entry)
<1>1. Head(clist) \in Entry /\ Tail(clist) \in Seq(Entry)
  BY DEF Types
<1> QED
  BY <1>1 DEF Entry

\* No step of a handler disturbs the types, the shapes, or where the shell is.
LEMMA HandlingShape ==
  ASSUME Types, Shape, NEW t \in Threads, Handling(t)
  PROVE  Types' /\ Shape' /\ Bottom' = Bottom /\ Base' = Base
<1> SUFFICES Types' /\ Shape' /\ Bottom' = Bottom
  BY DEF Base
<1>0. /\ "deliver" \in HandlerPcs /\ "clear" \in HandlerPcs /\ "generic" \in HandlerPcs /\ "keep" \in HandlerPcs
      /\ "wake" \in HandlerPcs /\ "handler" \in HandlerPcs /\ "unblock" \in HandlerPcs
      /\ "reap" \in HandlerPcs /\ "interrupt" \in HandlerPcs
  BY DEF HandlerPcs, WorkPcs
<1>1. CASE Look(t)
  <2>1. At(t, "deliver") /\ Alone(t) /\ crit' = crit /\ frozen' = frozen
    BY <1>1, LookDoes DEF Look, mem
  <2>2. Types'
    BY <1>1, <2>1 DEF Types, Look, Alone, mask, mem, susp
  <2>3. Shape' /\ Bottom' = Bottom
    <3>0. gPending \subseteq AllSignals
      BY DEF Types
    <3>1. CASE \E f \in Frame : /\ Replaces(stack[t], stack'[t], f) /\ f.pc \in {"clear", "deliver"}
                                /\ f.pc = "clear" => f.sig \in AllSignals
      BY <1>0, <2>1, <3>1, ReplaceKeeps, PcFacts
    <3>2. CASE Pops(stack[t], stack'[t])
      BY <1>0, <2>1, <3>2, PopKeeps
    <3> QED
      BY <1>1, <3>0, <3>1, <3>2, LookDoes
  <2> QED
    BY <2>2, <2>3
<1>2. CASE Clear(t)
  <2>1. At(t, "clear") /\ Alone(t) /\ crit' = crit /\ frozen' = frozen
    BY <1>2, ClearDoes DEF Clear, mem
  <2>2. Types'
    BY <1>2, <2>1 DEF Types, Clear, Alone, mask, mem, susp
  <2>3. PICK f \in Frame, g \in Frame : Pushes(stack[t], stack'[t], f, g) /\ f.pc = "deliver" /\ g.pc = "generic" /\ g.sig \in AllSignals
    BY <1>2, <2>1, ClearDoes, AtTop
  <2>4. Shape' /\ Bottom' = Bottom
    BY <1>0, <2>1, <2>3, PushKeeps, PcFacts
  <2> QED
    BY <2>2, <2>4
<1>3. CASE Generic(t)
  <2>1. At(t, "generic") /\ Alone(t) /\ crit' = crit /\ frozen' = frozen
    BY <1>3, GenericDoes DEF Generic, mem
  <2>2. Types'
    BY <1>3, <2>1 DEF Types, Generic, Alone, mask, mem, susp
  <2>3. Shape' /\ Bottom' = Bottom
    <3>1. CASE \E f \in Frame : Replaces(stack[t], stack'[t], f) /\ f.pc = "keep" /\ f.sig = Top(t).sig
      BY <1>0, <2>1, <3>1, ReplaceKeeps, PcFacts, AtTop
    <3>2. CASE \E f \in Frame, g \in Frame : /\ Pushes(stack[t], stack'[t], f, g)
                                             /\ f.pc = "wake" /\ g.pc = "handler" /\ f.sig = Top(t).sig
      BY <1>0, <2>1, <3>2, PushKeeps, PcFacts
    <3> QED
      BY <1>3, <3>1, <3>2, GenericDoes
  <2> QED
    BY <2>2, <2>3
<1>4. CASE Keep(t)
  <2>1. At(t, "keep") /\ Alone(t) /\ crit' = crit /\ frozen' = frozen /\ Pops(stack[t], stack'[t])
    BY <1>4, AtTop, ReturnStep DEF Keep, mem
  <2>3. Shape' /\ Bottom' = Bottom
    BY <1>0, <2>1, PopKeeps
  <2>4. Top(t).sig \in AllSignals
    BY <2>1, AtTop
  <2>5. Types'
    BY <1>4, <2>1, <2>4 DEF Types, Keep, Alone, mask, mem, susp
  <2> QED
    BY <2>3, <2>5
<1>5. CASE Wake(t)
  <2>1. At(t, "wake") /\ Alone(t) /\ crit' = crit /\ frozen' = frozen /\ Pops(stack[t], stack'[t])
    BY <1>5, AtTop, ReturnStep DEF Wake, mem
  <2>2. Types'
    BY <1>5, <2>1 DEF Types, Wake, Alone, mask, mem, susp
  <2> QED
    BY <1>0, <2>1, <2>2, PopKeeps
<1>6. CASE BlockAll(t)
  <2>1. At(t, "handler") /\ Alone(t) /\ crit' = crit /\ frozen' = frozen
    BY <1>6, BlockAllDoes DEF BlockAll, mem
  <2>2. gBlockMask' \in SUBSET AllSignals /\ crossed' \in BOOLEAN
    BY <1>6, SetMaskTyped DEF BlockAll
  <2>3. Types'
    BY <1>6, <2>1, <2>2 DEF Types, BlockAll, Alone, mem, susp
  <2>4. Shape' /\ Bottom' = Bottom
    BY <1>0, <1>6, <2>1, BlockAllDoes, ReplaceKeeps, PcFacts
  <2> QED
    BY <2>3, <2>4
<1>7. CASE Unblock(t)
  <2>1. At(t, "unblock") /\ Alone(t) /\ crit' = crit /\ frozen' = frozen
    BY <1>7, UnblockDoes DEF Unblock, mem
  <2>2. Top(t).old \in SUBSET AllSignals
    BY <2>1, AtTop DEF Frame
  <2>3. gBlockMask' \in SUBSET AllSignals /\ crossed' \in BOOLEAN
    BY <1>7, <2>2, SetMaskTyped DEF Unblock
  <2>4. Types'
    BY <1>7, <2>1, <2>3 DEF Types, Unblock, Alone, mem, susp
  <2>5. PICK f \in Frame, g \in Frame :
          /\ Pushes(stack[t], stack'[t], f, g) /\ f.pc \in {"reap", "interrupt"}
          /\ (f.pc = "reap" => f.sig = "SIGCHLD") /\ g.pc = "deliver"
    BY <1>7, UnblockDoes
  <2>6. Shape' /\ Bottom' = Bottom
    BY <1>0, <2>1, <2>5, PushKeeps, PcFacts
  <2> QED
    BY <2>4, <2>6
<1>8. CASE Interrupt(t)
  <2>1. At(t, "interrupt") /\ Alone(t) /\ crit' = crit /\ frozen' = frozen /\ Pops(stack[t], stack'[t])
    BY <1>8, AtTop, ReturnStep DEF Interrupt, mem
  <2>2. Types'
    BY <1>8, <2>1 DEF Types, Interrupt, Alone, mask, mem, susp
  <2> QED
    BY <1>0, <2>1, <2>2, PopKeeps
<1>9. CASE Reap(t)
  <2>1. At(t, "reap") /\ crit' = crit /\ frozen' = frozen
    BY <1>9 DEF Reap
  <2>2. CASE clist = <<>>
    <3>1. Alone(t) /\ Pops(stack[t], stack'[t])
      BY <1>9, <2>1, <2>2, AtTop, ReturnStep DEF Reap
    <3>2. Types'
      BY <1>9, <2>2, <3>1 DEF Types, Reap, Alone, mask, susp
    <3> QED
      BY <1>0, <2>1, <3>1, <3>2, PopKeeps
  <2>3. CASE clist # <<>>
    <3>1. stack' = stack
      BY <1>9, <2>3 DEF Reap
    <3>2. Types'
      BY <1>9, <2>3, <3>1, ReapTakes DEF Types, Reap, mask, susp
    <3> QED
      BY <2>1, <3>1, <3>2 DEF Shape, Bottom
  <2> QED
    BY <2>2, <2>3
<1> QED
  BY <1>1, <1>2, <1>3, <1>4, <1>5, <1>6, <1>7, <1>8, <1>9 DEF Handling

-----------------------------------------------------------------------------
(* The steps of the main thread in the shell, and the news.                 *)

\* The main thread is at q of the shell; or it has been called from there to deliver
\* what m does not block.
Stays(q) == Alone(Main) /\ Len(stack'[Main]) = 1 /\ stack'[Main][1].pc = q
Delivers(q, m) ==
  Alone(Main) /\ Len(stack'[Main]) = 2 /\ stack'[Main][1].pc = q /\ stack'[Main][2] = Deliver(m)

\* The main thread goes on in the shell and keeps the mask it saved.
LEMMA GotoStays ==
  ASSUME Types, Shape, NEW p \in BasePcs, At(Main, p), NEW q \in BasePcs, Goto(Main, q)
  PROVE  Stays(q) /\ stack'[Main][1].old = stack[Main][1].old
<1>1. stack[Main] # <<>> /\ Len(stack[Main]) = 1 /\ Top(Main) \in Frame /\ Main \in Threads /\ Top(Main) = stack[Main][1]
  BY AtTop, ThreadsDiffer
<1>2. q \in Pcs
  BY PcFacts
<1>3. Alone(Main) /\ Replaces(stack[Main], stack'[Main], [Top(Main) EXCEPT !.pc = q])
  BY <1>1, <1>2, GotoStep
<1>4. LET g == [Top(Main) EXCEPT !.pc = q] IN g.pc = q /\ g.old = Top(Main).old
  BY <1>1, <1>2, MovedTyped
<1> QED
  BY <1>1, <1>3, <1>4 DEF Stays, Replaces

\* The main thread calls deliver_pending() from the shell.
LEMMA CallDelivers ==
  ASSUME Types, Shape, NEW p \in BasePcs, At(Main, p), NEW q \in BasePcs, NEW m \in SUBSET AllSignals,
         CallThen(Main, q, Deliver(m))
  PROVE  Delivers(q, m)
<1>1. stack[Main] # <<>> /\ Len(stack[Main]) = 1 /\ Top(Main) \in Frame /\ Main \in Threads
  BY AtTop, ThreadsDiffer
<1>2. q \in Pcs /\ Deliver(m) \in Frame
  BY PcFacts, DeliverTyped
<1>3. Alone(Main) /\ Pushes(stack[Main], stack'[Main], [Top(Main) EXCEPT !.pc = q], Deliver(m))
  BY <1>1, <1>2, CallStep
<1>4. LET g == [Top(Main) EXCEPT !.pc = q] IN g.pc = q
  BY <1>1, <1>2, MovedTyped
<1> QED
  BY <1>1, <1>3, <1>4 DEF Delivers, Pushes

\* sigsuspend() saves the mask and calls deliver_pending().
LEMMA SuspendDelivers ==
  ASSUME Types, Shape, At(Main, "setmask"), NEW m \in SUBSET AllSignals,
         stack' = [stack EXCEPT ![Main] = <<[Top(Main) EXCEPT !.pc = "sleep", !.old = gBlockMask], Deliver(m)>>]
  PROVE  Delivers("sleep", m) /\ stack'[Main][1].old = gBlockMask
<1> DEFINE f == [Top(Main) EXCEPT !.pc = "sleep", !.old = gBlockMask]
           g == Deliver(m)
           z == <<f, g>>
<1>1. "setmask" \in BasePcs /\ "sleep" \in BasePcs /\ Main \in Threads
  BY ThreadsDiffer DEF BasePcs
<1>2. Top(Main) \in Frame /\ "sleep" \in Pcs
  BY <1>1, AtTop, PcFacts
<1>3. f \in Frame /\ f.pc = "sleep" /\ f.old = gBlockMask
  BY <1>2 DEF Frame, Types
<1>4. g \in Frame
  BY DeliverTyped
<1>5. stack' = [stack EXCEPT ![Main] = z]
  OBVIOUS
<1> HIDE DEF f, g
<1>6. z \in Seq(Frame) /\ Len(z) = 2 /\ z[1] = f /\ z[2] = g
  BY <1>3, <1>4
<1> HIDE DEF z
<1>7. Alone(Main) /\ stack'[Main] = z
  BY <1>1, <1>5, <1>6, Exchange
<1> QED
  BY <1>3, <1>6, <1>7 DEF Delivers, g

\* The shapes after a step in the shell.
LEMMA StaysKeeps ==
  ASSUME Types, Shape, NEW q \in BasePcs, Stays(q), crit' = crit, frozen' = frozen
  PROVE  Shape' /\ Base' = q
<1> DEFINE z == stack'[Main]
<1>1. Len(z) = 1 /\ z[1].pc = q
  BY DEF Stays
<1>2. q \notin WorkPcs \union {"reap", "clear", "generic", "keep"}
  BY DEF BasePcs, WorkPcs
<1>3. StackOK(Main, z)
  BY <1>1, <1>2, ThreadsDiffer DEF StackOK, FrameOK
<1>4. Main \in Threads /\ Main \notin Children /\ Alone(Main)
  BY ThreadsDiffer DEF Stays
<1> QED
  BY <1>1, <1>3, <1>4, ShapeFrom DEF Base, Bottom

\* The shapes after a step that delivers.
LEMMA DeliversKeeps ==
  ASSUME Types, Shape, NEW q \in BasePcs \cap CallerPcs, NEW m \in SUBSET AllSignals, Delivers(q, m),
         crit' = crit, frozen' = frozen
  PROVE  Shape' /\ Base' = q
<1> DEFINE z == stack'[Main]
<1>1. Len(z) = 2 /\ z[1].pc = q /\ z[2].pc = "deliver"
  BY DeliverTyped DEF Delivers
<1>2. q \notin WorkPcs \union {"reap", "clear", "generic", "keep"}
      /\ "deliver" \notin WorkPcs \union {"reap", "clear", "generic", "keep"} /\ "deliver" \in HandlerPcs
  BY DEF BasePcs, WorkPcs, HandlerPcs
<1>a. FrameOK(z, 1) /\ FrameOK(z, 2)
  BY <1>1, <1>2 DEF FrameOK
<1>3. StackOK(Main, z)
  BY <1>1, <1>2, <1>a, ThreadsDiffer DEF StackOK
<1>4. Main \in Threads /\ Main \notin Children /\ Alone(Main)
  BY ThreadsDiffer DEF Delivers
<1> QED
  BY <1>1, <1>3, <1>4, ShapeFrom DEF Base, Bottom

\* A child's end is put on the list.
LEMMA CallbackDoes ==
  ASSUME Types, Shape, NEW c \in Children, sig_child_callback(c)
  PROVE  /\ Types' /\ Shape' /\ Base' = Base /\ Bottom' = Bottom /\ Alone(c)
         /\ Len(stack'[c]) = 2 /\ stack'[c][1].pc = "resume"
         /\ stack'[c][2].pc = "generic" /\ stack'[c][2].sig = "SIGCHLD"
         /\ stack[c] = <<>>
<1> DEFINE f == Call("resume", "", {}, <<>>)
           g == Call("generic", "SIGCHLD", {}, <<>>)
           z == <<f, g>>
<1>1. c \in Threads /\ c # Main /\ c # Console /\ crit = "none" /\ c # "none"
  BY ThreadsDiffer DEF sig_child_callback
<1>2. "resume" \in Pcs /\ "generic" \in Pcs /\ <<>> \in Todos
  BY DEF Pcs, HandlerPcs, Todos
<1>3. f \in Frame /\ f.pc = "resume" /\ g \in Frame /\ g.pc = "generic" /\ g.sig = "SIGCHLD"
  BY <1>2 DEF Call, Frame, AllSignals
<1>4. stack' = [stack EXCEPT ![c] = z]
  BY DEF sig_child_callback
<1> HIDE DEF f, g
<1>5. z \in Seq(Frame) /\ Len(z) = 2 /\ z[1] = f /\ z[2] = g
  BY <1>3
<1> HIDE DEF z
<1>6. Alone(c) /\ stack'[c] = z
  BY <1>1, <1>4, <1>5, Exchange
<1>7. stack[c] = <<>>
  BY <1>1 DEF Shape
<1>8. Types'
  <2>1. add_to_child_list(c) \in Seq(Entry)
    <3>1. [pid |-> c, exitcode |-> c] \in Entry /\ [pid |-> c, exitcode |-> Garbage] \in Entry
      BY DEF Entry
    <3>2. CASE clist = <<>>
      BY <3>1, <3>2 DEF add_to_child_list
    <3>3. CASE clist # <<>>
      <4> DEFINE a == Append(clist, [pid |-> c, exitcode |-> Garbage])
      <4>1. a \in Seq(Entry) /\ Len(a) >= 1 /\ Len(a) \in Nat
        BY <3>1 DEF Types
      <4>2. a[1] \in Entry
        BY <4>1
      <4> HIDE DEF a
      <4>3. [a[1] EXCEPT !.exitcode = c] \in Entry
        BY <4>2 DEF Entry
      <4>4. [a EXCEPT ![1] = [a[1] EXCEPT !.exitcode = c]] \in Seq(Entry)
        BY <4>1, <4>3
      <4>5. add_to_child_list(c) = [a EXCEPT ![1] = [a[1] EXCEPT !.exitcode = c]]
        BY <3>3 DEF add_to_child_list, a
      <4> QED
        BY <4>4, <4>5
    <3> QED
      BY <3>2, <3>3
  <2>a. \A i \in DOMAIN clist : clist[i] \in Entry
    BY DEF Types
  <2>b. {clist[i].pid : i \in DOMAIN clist} \subseteq Children
    BY <2>a DEF Entry
  <2>c. crowded' = crowded \union (IF clist = <<>> THEN {} ELSE {c} \union {clist[i].pid : i \in DOMAIN clist})
    BY DEF sig_child_callback
  <2>2. crowded' \in SUBSET Children
    BY <2>b, <2>c DEF Types
  <2> QED
    BY <1>6, <2>1, <2>2 DEF Types, sig_child_callback, Alone, mask, susp
<1>9. StackOK(c, z)
  <2>1. /\ "resume" \in CallerPcs /\ "resume" \notin WorkPcs \union {"reap", "clear", "generic", "keep"}
        /\ "generic" \in HandlerPcs \ WorkPcs
    BY DEF CallerPcs, WorkPcs, HandlerPcs
  <2>2. FrameOK(z, 1) /\ FrameOK(z, 2)
    BY <1>3, <1>5, <2>1 DEF FrameOK, AllSignals
  <2> QED
    BY <1>1, <1>3, <1>5, <2>1, <2>2 DEF StackOK
<1>10. Shape'
  <2>1. \A u \in Threads : StackOK(u, stack'[u])
    BY <1>6, <1>9 DEF Shape, Alone
  <2>a. z # <<>>
    BY <1>5
  <2>2. crit' = c /\ frozen' = TRUE
    BY DEF sig_child_callback
  <2>3. \A d \in Children : (stack'[d] # <<>>) <=> (crit' = d)
    BY <1>1, <1>6, <2>2, <2>a, ThreadsDiffer DEF Shape, Alone
  <2> QED
    BY <1>1, <2>1, <2>2, <2>3 DEF Shape
<1> QED
  BY <1>1, <1>3, <1>5, <1>6, <1>7, <1>8, <1>10, ThreadsDiffer DEF Alone, Base, Bottom

\* A child's thread leaves its callback.
LEMMA ResumeDoes ==
  ASSUME Types, Shape, NEW c \in Children, Resume(c)
  PROVE  /\ Types' /\ Shape' /\ Base' = Base /\ Bottom' = Bottom /\ Alone(c) /\ Len(stack[c]) = 1 /\ stack[c][1].pc = "resume"
         /\ stack'[c] = <<>>
<1>1. c \in Threads /\ c # Main /\ c # Console /\ c # "none"
  BY ThreadsDiffer
<1>2. At(c, "resume")
  BY DEF Resume
<1>3. stack[c] # <<>> /\ Len(stack[c]) = 1 /\ stack[c][1].pc = "resume" /\ crit = c
  BY <1>1, <1>2, AtTop
<1>4. Alone(c) /\ Pops(stack[c], stack'[c])
  BY <1>1, <1>3, ReturnStep DEF Resume
<1>5. Len(stack'[c]) = 0 /\ stack'[c] \in Seq(Frame)
  BY <1>1, <1>3, <1>4 DEF Pops, Alone
<1>6. stack'[c] = <<>>
  BY <1>5
<1>7. StackOK(c, <<>>)
  BY <1>1 DEF StackOK
<1>8. Types'
  BY <1>2, <1>4 DEF Types, Resume, Alone, mask, susp
<1>9. \A u \in Threads : StackOK(u, stack'[u])
  BY <1>4, <1>6, <1>7 DEF Shape, Alone
<1>10. \A d \in Children : (stack'[d] # <<>>) <=> (crit' = d)
  BY <1>1, <1>3, <1>4, <1>6, ThreadsDiffer DEF Shape, Alone, Resume
<1>11. Shape'
  BY <1>9, <1>10 DEF Shape, Resume
<1> QED
  BY <1>1, <1>3, <1>4, <1>6, <1>8, <1>11, ThreadsDiffer DEF Alone, Base, Bottom

\* Ctrl-C starts the console's handler.
LEMMA PressDoes ==
  ASSUME Types, Shape, Press
  PROVE  /\ Types' /\ Shape' /\ Base' = Base /\ Bottom' = Bottom /\ Alone(Console) /\ stack[Console] = <<>>
         /\ Len(stack'[Console]) = 1 /\ stack'[Console][1].pc = "generic" /\ stack'[Console][1].sig = "SIGINT"
<1> DEFINE g == Call("generic", "SIGINT", {}, <<>>)
           z == <<g>>
<1>1. Console \in Threads /\ Console # Main /\ Console \notin Children
  BY ThreadsDiffer
<1>2. "generic" \in Pcs /\ <<>> \in Todos
  BY DEF Pcs, HandlerPcs, Todos
<1>3. g \in Frame /\ g.pc = "generic" /\ g.sig = "SIGINT"
  BY <1>2 DEF Call, Frame, AllSignals
<1>4. stack' = [stack EXCEPT ![Console] = z]
  BY DEF Press
<1> HIDE DEF g
<1>5. z \in Seq(Frame) /\ Len(z) = 1 /\ z[1] = g
  BY <1>3
<1> HIDE DEF z
<1>6. Alone(Console) /\ stack'[Console] = z
  BY <1>1, <1>4, <1>5, Exchange
<1>7. FrameOK(z, 1)
  BY <1>3, <1>5 DEF FrameOK, WorkPcs, AllSignals
<1>8. StackOK(Console, z)
  BY <1>1, <1>3, <1>5, <1>7 DEF StackOK
<1>9. Shape'
  BY <1>1, <1>6, <1>8, ShapeFrom DEF Press, mem
<1>10. Types'
  BY <1>6 DEF Types, Press, Alone, mask, mem, susp
<1> QED
  BY <1>1, <1>3, <1>5, <1>6, <1>9, <1>10 DEF Alone, Base, Bottom, Press

-----------------------------------------------------------------------------
(* What a step of a stack keeps of what is on it.                           *)

\* What is on a stack after its innermost call went on.
LEMMA ReplaceHas ==
  ASSUME NEW s \in Seq(Frame), s # <<>>, NEW z \in Seq(Frame), NEW f \in Frame, Replaces(s, z, f)
  PROVE  /\ HasBound(s) => HasBound(z) \/ Bound(s[Len(s)])
         /\ Bound(f) => HasBound(z)
         /\ HasReaping(z) => HasReaping(s) \/ Reaping(f)
         /\ HasWake(s) => HasWake(z) \/ s[Len(s)].pc = "wake"
         /\ Acts(z) => Acts(s) \/ Acting(f)
<1>1. PICK n \in Nat : n = Len(s) /\ n >= 1
  BY SeqFacts
<1>2. Len(z) = n /\ z[n] = f /\ \A i \in 1 .. n - 1 : z[i] = s[i]
  BY <1>1 DEF Replaces
<1>3. \A i \in 1 .. n : i # n => z[i] = s[i]
  BY <1>2
<1>4. 1 .. Len(s) = 1 .. n /\ 1 .. Len(z) = 1 .. n /\ n \in 1 .. n /\ s[Len(s)] = s[n]
  BY <1>1, <1>2
<1>5. HasBound(s) => HasBound(z) \/ Bound(s[Len(s)])
  BY <1>3, <1>4, Zenon DEF HasBound
<1>6. Bound(f) => HasBound(z)
  BY <1>2, <1>4, Zenon DEF HasBound
<1>7. HasReaping(z) => HasReaping(s) \/ Reaping(f)
  BY <1>2, <1>3, <1>4, Zenon DEF HasReaping
<1>8. HasWake(s) => HasWake(z) \/ s[Len(s)].pc = "wake"
  BY <1>3, <1>4, Zenon DEF HasWake
<1>9. Acts(z) => Acts(s) \/ Acting(f)
  BY <1>2, <1>3, <1>4, Zenon DEF Acts
<1> QED
  BY <1>5, <1>6, <1>7, <1>8, <1>9

\* What is on a stack after a return.
LEMMA PopHas ==
  ASSUME NEW s \in Seq(Frame), s # <<>>, NEW z \in Seq(Frame), Pops(s, z)
  PROVE  /\ HasBound(s) => HasBound(z) \/ Bound(s[Len(s)])
         /\ HasReaping(z) => HasReaping(s)
         /\ HasWake(s) => HasWake(z) \/ s[Len(s)].pc = "wake"
         /\ Acts(z) => Acts(s)
<1>1. PICK n \in Nat : n = Len(s) /\ n >= 1
  BY SeqFacts
<1>2. Len(z) = n - 1 /\ \A i \in 1 .. n - 1 : z[i] = s[i]
  BY <1>1 DEF Pops
<1>3. \A i \in 1 .. n : i # n => i \in 1 .. n - 1
  OBVIOUS
<1>4. 1 .. Len(s) = 1 .. n /\ 1 .. Len(z) = 1 .. n - 1 /\ s[Len(s)] = s[n]
  BY <1>1, <1>2
<1>5. \A i \in 1 .. n - 1 : i \in 1 .. n
  OBVIOUS
<1>6. HasBound(s) => HasBound(z) \/ Bound(s[Len(s)])
  BY <1>2, <1>3, <1>4, Zenon DEF HasBound
<1>7. HasReaping(z) => HasReaping(s)
  BY <1>2, <1>4, <1>5, Zenon DEF HasReaping
<1>8. HasWake(s) => HasWake(z) \/ s[Len(s)].pc = "wake"
  BY <1>2, <1>3, <1>4, Zenon DEF HasWake
<1>9. Acts(z) => Acts(s)
  BY <1>2, <1>4, <1>5, Zenon DEF Acts
<1> QED
  BY <1>6, <1>7, <1>8, <1>9

\* What is on a stack after a call.
LEMMA PushHas ==
  ASSUME NEW s \in Seq(Frame), s # <<>>, NEW z \in Seq(Frame), NEW f \in Frame, NEW g \in Frame,
         Pushes(s, z, f, g)
  PROVE  /\ HasBound(s) => HasBound(z) \/ Bound(s[Len(s)])
         /\ Bound(f) \/ Bound(g) => HasBound(z)
         /\ HasReaping(z) => HasReaping(s) \/ Reaping(f) \/ Reaping(g)
         /\ HasWake(s) => HasWake(z) \/ s[Len(s)].pc = "wake"
         /\ Acts(z) => Acts(s) \/ Acting(f) \/ Acting(g)
<1>1. PICK n \in Nat : n = Len(s) /\ n >= 1
  BY SeqFacts
<1>2. Len(z) = n + 1 /\ z[n] = f /\ z[n + 1] = g /\ \A i \in 1 .. n - 1 : z[i] = s[i]
  BY <1>1 DEF Pushes
<1>3. \A i \in 1 .. n + 1 : i # n /\ i # n + 1 => z[i] = s[i] /\ i \in 1 .. n
  BY <1>2
<1>4. \A i \in 1 .. n : i # n => z[i] = s[i] /\ i \in 1 .. n + 1
  BY <1>2
<1>5. 1 .. Len(s) = 1 .. n /\ 1 .. Len(z) = 1 .. n + 1 /\ n \in 1 .. n + 1 /\ n + 1 \in 1 .. n + 1 /\ s[Len(s)] = s[n]
  BY <1>1, <1>2
<1>6. HasBound(s) => HasBound(z) \/ Bound(s[Len(s)])
  BY <1>4, <1>5, Zenon DEF HasBound
<1>7. Bound(f) \/ Bound(g) => HasBound(z)
  BY <1>2, <1>5, Zenon DEF HasBound
<1>8. HasReaping(z) => HasReaping(s) \/ Reaping(f) \/ Reaping(g)
  BY <1>2, <1>3, <1>5, Zenon DEF HasReaping
<1>9. HasWake(s) => HasWake(z) \/ s[Len(s)].pc = "wake"
  BY <1>4, <1>5, Zenon DEF HasWake
<1>10. Acts(z) => Acts(s) \/ Acting(f) \/ Acting(g)
  BY <1>2, <1>3, <1>5, Zenon DEF Acts
<1> QED
  BY <1>6, <1>7, <1>8, <1>9, <1>10

\* Whoever handles a signal stands on a call that will wake sigsuspend().
LEMMA WorkerWakes ==
  ASSUME NEW t, NEW s \in Seq(Frame), StackOK(t, s), NEW i \in 1 .. Len(s), s[i].pc \in WorkPcs
  PROVE  HasWake(s) /\ Acts(s)
<1>1. PICK n \in Nat : n = Len(s)
  OBVIOUS
<1>2. i \in 1 .. n /\ FrameOK(s, i)
  BY <1>1 DEF StackOK
<1>3. i > 1 /\ s[i - 1].pc = "wake"
  BY <1>2 DEF FrameOK
<1>4. i - 1 \in 1 .. n
  BY <1>2, <1>3
<1> QED
  BY <1>1, <1>2, <1>3, <1>4 DEF HasWake, Acts, Acting

\* InHandler() in terms of the stack's calls.
LEMMA HandlersAct ==
  ASSUME Types, NEW t \in Threads
  PROVE  InHandler(t) <=> Acts(stack[t])
<1>1. DOMAIN stack[t] = 1 .. Len(stack[t])
  BY DEF Types
<1> QED
  BY <1>1 DEF InHandler, Acts, Acting, WorkPcs

\* The same of the next state.
LEMMA HandlersActNext ==
  ASSUME NEW t \in Threads, stack' \in [Threads -> Seq(Frame)]
  PROVE  InHandler(t)' <=> Acts(stack'[t])
<1>1. DOMAIN stack'[t] = 1 .. Len(stack'[t])
  OBVIOUS
<1> QED
  BY <1>1 DEF InHandler, Acts, Acting, WorkPcs

-----------------------------------------------------------------------------
(* A child on the list is told of.                                          *)

\* One thread's step loses nobody on the list unless it loses a call that will tell.
LEMMA ListToldFrom ==
  ASSUME ListTold, NEW t \in Threads, \A u \in Threads \ {t} : stack'[u] = stack[u],
         clist' # <<>> => clist # <<>>,
         clist' # <<>> /\ "SIGCHLD" \in gPending => "SIGCHLD" \in gPending' \/ HasBound(stack'[t]),
         clist' # <<>> /\ HasBound(stack[t]) => "SIGCHLD" \in gPending' \/ HasBound(stack'[t])
  PROVE  ListTold'
  BY Zenon DEF ListTold

\* A step of a handler loses nobody on the list: sig_child_callback()'s signal is kept, or on
\* its way to be kept or handled, until waitpid() has emptied the list.
LEMMA HandlingTells ==
  ASSUME Types, Shape, ListTold, NEW t \in Threads, Handling(t)
  PROVE  ListTold'
<1>0. stack' \in [Threads -> Seq(Frame)]
  BY HandlingShape DEF Types
<1> DEFINE s == stack[t]
           z == stack'[t]
<1>a. s \in Seq(Frame) /\ z \in Seq(Frame)
  BY <1>0 DEF Types
<1>1. CASE Look(t)
  <2>1. s # <<>> /\ s[Len(s)].pc = "deliver" /\ clist' = clist /\ gPending' = gPending /\ Alone(t)
    BY <1>1, AtTop, LookDoes DEF Look, mem
  <2>2. ~Bound(s[Len(s)])
    BY <2>1 DEF Bound
  <2>3. HasBound(s) => HasBound(z)
    BY <1>1, <1>a, <2>1, <2>2, LookDoes, ReplaceHas, PopHas
  <2> QED
    BY <2>1, <2>3, ListToldFrom DEF Alone
<1>2. CASE Clear(t)
  <2>1. s # <<>> /\ s[Len(s)] = Top(t) /\ Top(t).pc = "clear" /\ clist' = clist /\ gPending' = gPending \ {Top(t).sig} /\ Alone(t)
    BY <1>2, AtTop, ClearDoes DEF Clear, mem
  <2>2. ~Bound(s[Len(s)])
    BY <2>1 DEF Bound
  <2>3. PICK f \in Frame, g \in Frame : Pushes(s, z, f, g) /\ g.pc = "generic" /\ g.sig = Top(t).sig
    BY <1>2, ClearDoes
  <2>4. Top(t).sig = "SIGCHLD" => HasBound(z)
    BY <1>a, <2>1, <2>3, PushHas DEF Bound
  <2>5. HasBound(s) => HasBound(z)
    BY <1>a, <2>1, <2>2, <2>3, PushHas
  <2> QED
    BY <2>1, <2>4, <2>5, ListToldFrom DEF Alone
<1>3. CASE Generic(t)
  <2>1. s # <<>> /\ s[Len(s)] = Top(t) /\ clist' = clist /\ gPending' = gPending /\ Alone(t)
    BY <1>3, AtTop, GenericDoes DEF Generic, mem
  <2>2. HasBound(s) => HasBound(z)
    <3>1. CASE \E f \in Frame : Replaces(s, z, f) /\ f.pc = "keep" /\ f.sig = Top(t).sig
      BY <1>a, <2>1, <3>1, ReplaceHas DEF Bound
    <3>2. CASE \E f \in Frame, g \in Frame : Pushes(s, z, f, g) /\ g.pc = "handler" /\ g.sig = Top(t).sig
      BY <1>a, <2>1, <3>2, PushHas DEF Bound
    <3> QED
      BY <1>3, <3>1, <3>2, GenericDoes
  <2> QED
    BY <2>1, <2>2, ListToldFrom DEF Alone
<1>4. CASE Keep(t)
  <2>1. s # <<>> /\ s[Len(s)] = Top(t) /\ clist' = clist /\ gPending' = gPending \union {Top(t).sig}
        /\ Alone(t) /\ Pops(s, z)
    BY <1>4, AtTop, ReturnStep DEF Keep, mem
  <2>2. HasBound(s) => HasBound(z) \/ Top(t).sig = "SIGCHLD"
    BY <1>a, <2>1, PopHas DEF Bound
  <2> QED
    BY <2>1, <2>2, ListToldFrom DEF Alone
<1>5. CASE Wake(t)
  <2>1. s # <<>> /\ s[Len(s)].pc = "wake" /\ clist' = clist /\ gPending' = gPending /\ Alone(t) /\ Pops(s, z)
    BY <1>5, AtTop, ReturnStep DEF Wake, mem
  <2>2. HasBound(s) => HasBound(z)
    BY <1>a, <2>1, PopHas DEF Bound
  <2> QED
    BY <2>1, <2>2, ListToldFrom DEF Alone
<1>6. CASE BlockAll(t)
  <2>1. s # <<>> /\ s[Len(s)] = Top(t) /\ clist' = clist /\ gPending' = gPending /\ Alone(t)
    BY <1>6, AtTop, BlockAllDoes DEF BlockAll, mem
  <2>2. HasBound(s) => HasBound(z)
    BY <1>6, <1>a, <2>1, BlockAllDoes, ReplaceHas DEF Bound
  <2> QED
    BY <2>1, <2>2, ListToldFrom DEF Alone
<1>7. CASE Unblock(t)
  <2>1. s # <<>> /\ s[Len(s)] = Top(t) /\ clist' = clist /\ gPending' = gPending /\ Alone(t)
    BY <1>7, AtTop, UnblockDoes DEF Unblock, mem
  <2>2. PICK f \in Frame, g \in Frame :
          Pushes(s, z, f, g) /\ f.sig = Top(t).sig /\ (f.pc = "reap" <=> f.sig = "SIGCHLD")
    BY <1>7, UnblockDoes
  <2>3. Bound(s[Len(s)]) => Bound(f)
    BY <2>1, <2>2 DEF Bound
  <2>4. HasBound(s) => HasBound(z)
    BY <1>a, <2>1, <2>2, <2>3, PushHas
  <2> QED
    BY <2>1, <2>4, ListToldFrom DEF Alone
<1>8. CASE Interrupt(t)
  <2>1. s # <<>> /\ s[Len(s)].pc = "interrupt" /\ clist' = clist /\ gPending' = gPending /\ Alone(t) /\ Pops(s, z)
    BY <1>8, AtTop, ReturnStep DEF Interrupt, mem
  <2>2. HasBound(s) => HasBound(z)
    BY <1>a, <2>1, PopHas DEF Bound
  <2> QED
    BY <2>1, <2>2, ListToldFrom DEF Alone
<1>9. CASE Reap(t)
  <2>1. CASE clist = <<>>
    BY <1>9, <2>1 DEF Reap, ListTold
  <2>2. CASE clist # <<>>
    <3>1. stack' = stack /\ gPending' = gPending
      BY <1>9, <2>2 DEF Reap
    <3> QED
      BY <2>2, <3>1 DEF ListTold
  <2> QED
    BY <2>1, <2>2
<1> QED
  BY <1>1, <1>2, <1>3, <1>4, <1>5, <1>6, <1>7, <1>8, <1>9 DEF Handling

-----------------------------------------------------------------------------
(* While the mask is not spoilt: the steps of a handler.                    *)

\* Where SIGCHLD is to be blocked, it is.
LEMMA ClosedIsBlocked ==
  ASSUME MaskOK, Base \in ClosedPcs
  PROVE  "SIGCHLD" \in gBlockMask
  BY DEF MaskOK, Right, AllSignals

\* A mask that blocks what should be open is the one of a handler.
LEMMA UnderHandler ==
  ASSUME Types, Shape, MaskOK, Base \notin ClosedPcs, "SIGCHLD" \in gBlockMask
  PROVE  Wakes
<1>1. PICK t \in Threads : AllBlocked(t)
  BY DEF MaskOK, Right
<1> DEFINE s == stack[t]
<1>2. s \in Seq(Frame) /\ s # <<>> /\ s[Len(s)].pc = "unblock" /\ StackOK(t, s)
  BY <1>1 DEF Types, AllBlocked, Top, Shape
<1>3. Len(s) \in 1 .. Len(s) /\ "unblock" \in WorkPcs
  BY <1>2, SeqFacts DEF WorkPcs
<1>4. HasWake(s)
  BY <1>2, <1>3, WorkerWakes
<1> QED
  BY <1>4 DEF Wakes

\* A step that does not touch the mask.
LEMMA CalmMask ==
  ASSUME Types, MaskOK, NEW t \in Threads, Alone(t), ~AllBlocked(t), ~AllBlocked(t)',
         gBlockMask' = gBlockMask, Base' = Base \/ (Base' \in ClosedPcs <=> Base \in ClosedPcs),
         t \in Children /\ InHandler(t)' => InHandler(t) \/ ~AllBlocked(Main)
  PROVE  MaskOK'
<1>1. \A u \in Threads \ {t} : stack'[u] = stack[u] /\ (AllBlocked(u)' <=> AllBlocked(u)) /\ Top(u)' = Top(u)
  BY DEF Alone, AllBlocked, Top
<1>2. \A m : Right(m)' <=> Right(m)
  BY DEF Right
<1>3. \A u \in Threads : AllBlocked(u)' => AllBlocked(u) /\ Top(u)' = Top(u)
  BY <1>1
<1>4. \A u \in Threads : AllBlocked(u) => AllBlocked(u)'
  BY <1>1
<1>5. \A u \in Threads : AllBlocked(u)' => gBlockMask' = AllSignals /\ Right(Top(u).old)'
  BY <1>2, <1>3 DEF MaskOK, Right
<1>6. (\A u \in Threads : ~AllBlocked(u)') => Right(gBlockMask)'
  BY <1>4 DEF MaskOK, Right
<1>7. \A u, v \in Threads : AllBlocked(u)' /\ AllBlocked(v)' => u = v
  BY <1>3 DEF MaskOK
<1>8. \A c \in Children : InHandler(c)' => ~AllBlocked(Main)'
  <2> SUFFICES ASSUME NEW c \in Children, InHandler(c)', AllBlocked(Main)' PROVE FALSE
    OBVIOUS
  <2>1. AllBlocked(Main) /\ c \in Threads
    BY <1>3, ThreadsDiffer
  <2>2. ~InHandler(c)
    BY <2>1 DEF MaskOK
  <2>3. CASE c = t
    BY <2>1, <2>2, <2>3
  <2>4. CASE c # t
    BY <1>1, <2>1, <2>2, <2>4 DEF InHandler
  <2> QED
    BY <2>3, <2>4
<1> QED
  BY <1>5, <1>6, <1>7, <1>8 DEF MaskOK

\* After a return the innermost call is one that calls others.
LEMMA NotBlockedAfterPop ==
  ASSUME Types, Shape, NEW t \in Threads, stack[t] # <<>>, Alone(t), Pops(stack[t], stack'[t])
  PROVE  ~AllBlocked(t)' /\ (stack'[t] # <<>> => Top(t)'.pc \in CallerPcs)
<1> DEFINE s == stack[t]
           z == stack'[t]
<1>1. s \in Seq(Frame) /\ z \in Seq(Frame) /\ StackOK(t, s)
  BY DEF Types, Alone, Shape
<1>2. PICK n \in Nat : n = Len(s) /\ n >= 1
  BY <1>1, SeqFacts
<1>3. Len(z) = n - 1 /\ \A i \in 1 .. n - 1 : z[i] = s[i]
  BY <1>2 DEF Pops
<1>4. "unblock" \notin CallerPcs
  BY DEF CallerPcs
<1>5. z # <<>> => z[Len(z)].pc \in CallerPcs
  <2> SUFFICES ASSUME z # <<>> PROVE z[Len(z)].pc \in CallerPcs
    OBVIOUS
  <2>1. n - 1 >= 1 /\ n - 1 \in 1 .. n - 1
    BY <1>1, <1>2, <1>3, SeqFacts
  <2>2. FrameOK(s, n - 1) /\ n - 1 < Len(s)
    BY <1>1, <1>2, <2>1 DEF StackOK
  <2> QED
    BY <1>3, <2>1, <2>2 DEF FrameOK
<1> QED
  BY <1>4, <1>5 DEF AllBlocked, Top

\* The innermost call after it went on.
LEMMA TopAfterReplace ==
  ASSUME NEW t \in Threads, Types, stack[t] # <<>>, Alone(t), NEW f \in Frame, Replaces(stack[t], stack'[t], f)
  PROVE  stack'[t] # <<>> /\ Top(t)' = f
<1>1. stack[t] \in Seq(Frame) /\ stack'[t] \in Seq(Frame)
  BY DEF Types, Alone
<1>2. PICK n \in Nat : n = Len(stack[t]) /\ n >= 1
  BY <1>1, SeqFacts
<1>3. Len(stack'[t]) = n /\ stack'[t][n] = f
  BY <1>2 DEF Replaces
<1>4. stack'[t] # <<>>
  BY <1>2, <1>3
<1> QED
  BY <1>3, <1>4 DEF Top

\* The innermost call after it called another.
LEMMA TopAfterPush ==
  ASSUME NEW t \in Threads, Types, stack[t] # <<>>, Alone(t), NEW f \in Frame, NEW g \in Frame,
         Pushes(stack[t], stack'[t], f, g)
  PROVE  stack'[t] # <<>> /\ Top(t)' = g
<1>1. stack[t] \in Seq(Frame) /\ stack'[t] \in Seq(Frame)
  BY DEF Types, Alone
<1>2. PICK n \in Nat : n = Len(stack[t]) /\ n >= 1
  BY <1>1, SeqFacts
<1>3. Len(stack'[t]) = n + 1 /\ stack'[t][n + 1] = g
  BY <1>2 DEF Pushes
<1>4. stack'[t] # <<>>
  BY <1>2, <1>3
<1> QED
  BY <1>3, <1>4 DEF Top

\* The calls that will wake sigsuspend() stay, or the event is set.
LEMMA WakesStays ==
  ASSUME NEW t \in Threads, Alone(t), Wakes, HasWake(stack[t]) => HasWake(stack'[t])
  PROVE  Wakes'
<1>1. PICK u \in Threads : HasWake(stack[u])
  BY DEF Wakes
<1>2. HasWake(stack'[u])
  BY <1>1 DEF Alone
<1> QED
  BY <1>2 DEF Wakes

\* A step of deliver_pending() from sigsuspend() that has not looked at SIGCHLD yet.
LEMMA LooksStays ==
  ASSUME Types, Shape, Looks(stack[Main]), NEW t \in Threads, Alone(t), stack[t] # <<>>,
         \/ \E f \in Frame : /\ Replaces(stack[t], stack'[t], f)
                             /\ f.todo = Top(t).todo /\ Top(t).pc # "clear"
         \/ \E f \in Frame, g \in Frame : Pushes(stack[t], stack'[t], f, g) /\ f.todo = Top(t).todo /\ Top(t).pc # "clear"
         \/ Pops(stack[t], stack'[t]) /\ (t = Main => Len(stack[t]) > 2)
  PROVE  Looks(stack'[Main])
<1>0. t # Main => stack'[Main] = stack[Main]
  BY ThreadsDiffer DEF Alone
<1> SUFFICES ASSUME t = Main PROVE Looks(stack'[Main])
  BY <1>0
<1> DEFINE s == stack[Main]
           z == stack'[Main]
<1>1. s \in Seq(Frame) /\ z \in Seq(Frame) /\ Top(t) = s[Len(s)]
  BY DEF Types, Alone, Top
<1>2. PICK n \in Nat : n = Len(s) /\ n >= 2 /\ (n = 2 \/ n > 2)
  BY <1>1, SeqFacts DEF Looks
<1>3. s[2].todo \in LookSet \/ (s[2].pc = "clear" /\ s[2].sig = "SIGCHLD")
  BY DEF Looks, LookSet
<1>4. n = 2 \/ n > 2
  BY <1>2
<1>5. CASE \E f \in Frame : Replaces(s, z, f) /\ f.todo = Top(t).todo /\ Top(t).pc # "clear"
  <2>1. PICK f \in Frame : Replaces(s, z, f) /\ f.todo = Top(t).todo /\ Top(t).pc # "clear"
    BY <1>5
  <2>2. Len(z) = n /\ z[n] = f /\ \A i \in 1 .. n - 1 : z[i] = s[i]
    BY <1>2, <2>1 DEF Replaces
  <2>3. CASE n = 2
    BY <1>1, <1>2, <1>3, <2>1, <2>2, <2>3 DEF Looks, LookSet
  <2>4. CASE n > 2
    <3>1. z[2] = s[2] /\ Len(z) >= 2
      BY <2>2, <2>4
    <3> QED
      BY <1>3, <3>1 DEF Looks, LookSet
  <2> QED
    BY <1>4, <2>3, <2>4
<1>6. CASE \E f \in Frame, g \in Frame : Pushes(s, z, f, g) /\ f.todo = Top(t).todo /\ Top(t).pc # "clear"
  <2>1. PICK f \in Frame, g \in Frame : Pushes(s, z, f, g) /\ f.todo = Top(t).todo /\ Top(t).pc # "clear"
    BY <1>6
  <2>2. Len(z) = n + 1 /\ z[n] = f /\ \A i \in 1 .. n - 1 : z[i] = s[i]
    BY <1>2, <2>1 DEF Pushes
  <2>3. CASE n = 2
    BY <1>1, <1>2, <1>3, <2>1, <2>2, <2>3 DEF Looks, LookSet
  <2>4. CASE n > 2
    <3>1. z[2] = s[2] /\ Len(z) >= 2
      BY <2>2, <2>4
    <3> QED
      BY <1>3, <3>1 DEF Looks, LookSet
  <2> QED
    BY <1>4, <2>3, <2>4
<1>7. CASE Pops(s, z) /\ Len(s) > 2
  <2>1. Len(z) = n - 1 /\ (\A i \in 1 .. n - 1 : z[i] = s[i]) /\ n > 2
    BY <1>2, <1>7 DEF Pops
  <2>2. z[2] = s[2] /\ Len(z) >= 2
    BY <2>1
  <2> QED
    BY <1>3, <2>2 DEF Looks, LookSet
<1> QED
  BY <1>5, <1>6, <1>7

\* A step of a handler keeps what follows from the mask, given what it does to whom.
LEMMA HandlerRest ==
  ASSUME Shape, Unspoilt, NEW t \in Threads, Alone(t), Base' = Base,
         HasReaping(stack'[t]) => HasReaping(stack[t]) \/ Base \notin ClosedPcs,
         Base = "sleep" /\ (hsigsusp \/ Wakes) => hsigsusp' \/ Wakes',
         Base = "sleep" /\ stack'[t] # <<>> /\ Top(t)'.pc = "keep" /\ Top(t)'.sig = "SIGCHLD"
           => hsigsusp' \/ Wakes',
         Base = "sleep" /\ "SIGCHLD" \in gPending' => hsigsusp' \/ Wakes' \/ Looks(stack'[Main]),
         Base \in {"suspend", "setmask"} => Unreaped' = Unreaped,
         Base = "sleep" => Unreaped' = Unreaped \/ hsigsusp' \/ Wakes'
  PROVE  NoneReaps' /\ KeepWakes' /\ PendingTold' /\ SomeLeft'
<1>1. NoneReaps'
  BY Zenon DEF Unspoilt, NoneReaps, Alone
<1>2. KeepWakes'
  <2> SUFFICES ASSUME Base = "sleep", NEW u \in Threads, stack'[u] # <<>>, Top(u)'.pc = "keep", Top(u)'.sig = "SIGCHLD"
               PROVE  hsigsusp' \/ Wakes'
    BY DEF KeepWakes
  <2>1. CASE u = t
    BY <2>1
  <2>2. CASE u # t
    <3>1. stack'[u] = stack[u] /\ Top(u)' = Top(u)
      BY <2>2 DEF Alone, Top
    <3>2. hsigsusp \/ Wakes
      BY <3>1 DEF Unspoilt, KeepWakes
    <3> QED
      BY <3>2
  <2> QED
    BY <2>1, <2>2
<1>3. PendingTold'
  BY DEF PendingTold
<1>4. SomeLeft'
  BY DEF Unspoilt, SomeLeft
<1> QED
  BY <1>1, <1>2, <1>3, <1>4

\* The steps of a handler that pop the call and do nothing else to the signals.
LEMMA PopRest ==
  ASSUME Types, Shape, Suspended, Unspoilt, NEW t \in Threads, Alone(t), Base' = Base,
         stack[t] # <<>>, Pops(stack[t], stack'[t]), Top(t).pc \notin {"deliver", "clear", "unblock"},
         gBlockMask' = gBlockMask,
         hsigsusp' = hsigsusp \/ (hsigsusp' = (hsigsusp \/ is_suspended)),
         Top(t).pc = "wake" => hsigsusp' = (hsigsusp \/ is_suspended),
         Base = "sleep" /\ "SIGCHLD" \in gPending' => hsigsusp \/ Wakes \/ "SIGCHLD" \in gPending,
         Unreaped' = Unreaped
  PROVE  Unspoilt'
<1> DEFINE s == stack[t]
           z == stack'[t]
<1>1. s \in Seq(Frame) /\ z \in Seq(Frame) /\ Top(t) = s[Len(s)]
  BY DEF Types, Alone, Top
<1>2. ~AllBlocked(t) /\ ~AllBlocked(t)'
  BY NotBlockedAfterPop DEF AllBlocked
<1>3. InHandler(t)' => InHandler(t)
  BY <1>1, PopHas, HandlersAct, HandlersActNext DEF Alone
<1>4. MaskOK'
  BY <1>2, <1>3, CalmMask DEF Unspoilt
<1>5. HasReaping(z) => HasReaping(s)
  BY <1>1, PopHas
<1>6. Base = "sleep" /\ (hsigsusp \/ Wakes) => hsigsusp' \/ Wakes'
  <2>1. CASE Top(t).pc = "wake"
    BY <2>1 DEF Suspended, Types
  <2>2. CASE Top(t).pc # "wake"
    <3>1. HasWake(s) => HasWake(z)
      BY <1>1, <2>2, PopHas
    <3>2. Wakes => Wakes'
      BY <3>1, WakesStays
    <3> QED
      BY <3>2 DEF Types
  <2> QED
    BY <2>1, <2>2
<1>7. stack'[t] # <<>> => Top(t)'.pc # "keep"
  BY NotBlockedAfterPop DEF CallerPcs
<1>8. Base = "sleep" /\ "SIGCHLD" \in gPending' => hsigsusp' \/ Wakes' \/ Looks(stack'[Main])
  <2> SUFFICES ASSUME Base = "sleep", "SIGCHLD" \in gPending', ~(hsigsusp' \/ Wakes') PROVE Looks(stack'[Main])
    OBVIOUS
  <2>1. Looks(stack[Main])
    BY <1>6 DEF Unspoilt, PendingTold
  <2>2. t = Main => Len(s) > 2
    <3> SUFFICES ASSUME t = Main PROVE Len(s) > 2
      OBVIOUS
    <3>1. PICK n \in Nat : n = Len(s) /\ n >= 2 /\ (n = 2 \/ n > 2)
      BY <1>1, <2>1, SeqFacts DEF Looks
    <3>2. s[2].pc \in {"deliver", "clear"}
      BY <3>1 DEF Shape, StackOK
    <3> QED
      BY <1>1, <3>1, <3>2
  <2> QED
    BY <2>1, <2>2, LooksStays
<1>9. NoneReaps' /\ KeepWakes' /\ PendingTold' /\ SomeLeft'
  BY <1>5, <1>6, <1>7, <1>8, HandlerRest
<1> QED
  BY <1>4, <1>9 DEF Unspoilt

\* deliver_pending() looks at a signal: one that is kept is not passed over.
LEMMA LookUnspoilt ==
  ASSUME Types, Shape, Suspended, Unspoilt, NEW t \in Threads, Look(t)
  PROVE  Unspoilt'
<1> DEFINE s == stack[t]
           z == stack'[t]
           d == Top(t).todo
<1>1. /\ At(t, "deliver") /\ Alone(t) /\ s # <<>> /\ Base' = Base
      /\ gBlockMask' = gBlockMask /\ gPending' = gPending /\ hsigsusp' = hsigsusp /\ Unreaped' = Unreaped
  BY LookDoes, HandlingShape, AtTop DEF Look, mask, mem, susp, Handling, Unreaped
<1>2. s \in Seq(Frame) /\ z \in Seq(Frame) /\ Top(t) = s[Len(s)] /\ Top(t).pc = "deliver" /\ d \in Todos
  BY <1>1, AtTop DEF Types, Alone, Frame
<1>3. ~AllBlocked(t)
  BY <1>2 DEF AllBlocked
<1>4. CASE \E f \in Frame :
             /\ Replaces(s, z, f) /\ f.pc \in {"clear", "deliver"}
             /\ d # <<>> /\ f.todo = Tail(d)
             /\ f.pc = "clear" => f.sig = Head(d)
             /\ f.pc = "deliver" => Head(d) \notin gPending
  <2>1. PICK f \in Frame :
             /\ Replaces(s, z, f) /\ f.pc \in {"clear", "deliver"}
             /\ d # <<>> /\ f.todo = Tail(d)
             /\ f.pc = "clear" => f.sig = Head(d)
             /\ f.pc = "deliver" => Head(d) \notin gPending
    BY <1>4
  <2>2. z # <<>> /\ Top(t)' = f
    BY <1>1, <2>1, TopAfterReplace
  <2>3. ~AllBlocked(t)' /\ Top(t)'.pc # "keep"
    BY <2>1, <2>2 DEF AllBlocked
  <2>4. ~Reaping(f) /\ ~Acting(f)
    BY <2>1 DEF Reaping, Acting, WorkPcs
  <2>5. InHandler(t)' => InHandler(t)
    BY <1>1, <1>2, <2>1, <2>4, ReplaceHas, HandlersAct, HandlersActNext DEF Alone
  <2>6. MaskOK'
    BY <1>1, <1>3, <2>3, <2>5, CalmMask DEF Unspoilt
  <2>7. HasReaping(z) => HasReaping(s)
    BY <1>1, <1>2, <2>1, <2>4, ReplaceHas
  <2>8. Wakes => Wakes'
    BY <1>1, <1>2, <2>1, ReplaceHas, WakesStays
  <2>9. Base = "sleep" /\ "SIGCHLD" \in gPending' => hsigsusp' \/ Wakes' \/ Looks(stack'[Main])
    <3> SUFFICES ASSUME Base = "sleep", "SIGCHLD" \in gPending, ~(hsigsusp \/ Wakes) PROVE Looks(stack'[Main])
      BY <1>1, <2>8
    <3>1. Looks(stack[Main])
      BY DEF Unspoilt, PendingTold
    <3>2. CASE t # Main
      BY <1>1, <3>1, <3>2, ThreadsDiffer DEF Alone
    <3>3. CASE t = Main
      <4>1. PICK n \in Nat : n = Len(s) /\ n >= 2 /\ (n = 2 \/ n > 2)
        BY <1>2, <3>1, <3>3, SeqFacts DEF Looks
      <4>2. Len(z) = n /\ z[n] = f /\ \A i \in 1 .. n - 1 : z[i] = s[i]
        BY <2>1, <4>1 DEF Replaces
      <4>3. CASE n > 2
        <5>1. z[2] = s[2] /\ Len(z) >= 2
          BY <4>2, <4>3
        <5> QED
          BY <3>1, <3>3, <5>1 DEF Looks
      <4>4. CASE n = 2
        <5>1. d \in LookSet
          BY <1>2, <3>1, <3>3, <4>1, <4>4 DEF Looks, LookSet
        <5>2. Tail(d) \in LookSet \/ Head(d) = "SIGCHLD"
          BY <1>2, <2>1, <5>1, TodoFacts
        <5>3. f.todo \in LookSet \/ (f.pc = "clear" /\ f.sig = "SIGCHLD")
          BY <2>1, <5>2
        <5> QED
          BY <3>3, <4>2, <4>4, <5>3 DEF Looks, LookSet
      <4> QED
        BY <4>1, <4>3, <4>4
    <3> QED
      BY <3>2, <3>3
  <2>10. NoneReaps' /\ KeepWakes' /\ PendingTold' /\ SomeLeft'
    BY <1>1, <2>3, <2>7, <2>8, <2>9, HandlerRest
  <2> QED
    BY <2>6, <2>10 DEF Unspoilt
<1>5. CASE /\ Pops(s, z)
           /\ d = <<>> \/ (~(Len(d) > 1) /\ Head(d) \notin gPending)
  <2>2. z # <<>> => Top(t)'.pc # "keep"
    BY <1>1, <1>5, NotBlockedAfterPop DEF CallerPcs
  <2>3. ~AllBlocked(t)'
    BY <1>1, <1>5, NotBlockedAfterPop
  <2>5. InHandler(t)' => InHandler(t)
    BY <1>1, <1>2, <1>5, PopHas, HandlersAct, HandlersActNext DEF Alone
  <2>6. MaskOK'
    BY <1>1, <1>3, <2>3, <2>5, CalmMask DEF Unspoilt
  <2>7. HasReaping(z) => HasReaping(s)
    BY <1>1, <1>2, <1>5, PopHas
  <2>8. Wakes => Wakes'
    BY <1>1, <1>2, <1>5, PopHas, WakesStays
  <2>9. Base = "sleep" /\ "SIGCHLD" \in gPending' => hsigsusp' \/ Wakes' \/ Looks(stack'[Main])
    <3> SUFFICES ASSUME Base = "sleep", "SIGCHLD" \in gPending, ~(hsigsusp \/ Wakes) PROVE Looks(stack'[Main])
      BY <1>1, <2>8
    <3>1. Looks(stack[Main])
      BY DEF Unspoilt, PendingTold
    <3>2. t = Main => Len(s) > 2
      <4> SUFFICES ASSUME t = Main PROVE Len(s) > 2
        OBVIOUS
      <4>1. PICK n \in Nat : n = Len(s) /\ n >= 2 /\ (n = 2 \/ n > 2)
        BY <1>2, <3>1, SeqFacts DEF Looks
      <4>2. ASSUME n = 2 PROVE FALSE
        <5>1. d \in LookSet
          BY <1>2, <3>1, <4>1, <4>2 DEF Looks, LookSet
        <5>0. <<"SIGCHLD">> # <<>> /\ <<"SIGINT", "SIGCHLD">> # <<>>
          OBVIOUS
        <5>2. d # <<>>
          BY <5>0, <5>1, Zenon DEF LookSet
        <5>3. ~(Len(d) > 1) /\ Head(d) \notin gPending
          BY <1>5, <5>2
        <5>4. Head(d) = "SIGCHLD"
          BY <1>2, <5>1, <5>2, <5>3, TodoFacts
        <5> QED
          BY <5>3, <5>4
      <4> QED
        BY <4>1, <4>2
    <3> QED
      BY <1>1, <1>5, <3>1, <3>2, LooksStays
  <2>10. NoneReaps' /\ KeepWakes' /\ PendingTold' /\ SomeLeft'
    BY <1>1, <2>2, <2>7, <2>8, <2>9, HandlerRest
  <2> QED
    BY <2>6, <2>10 DEF Unspoilt
<1> QED
  BY <1>4, <1>5, LookDoes

\* A signal is taken back on its way to generic_handler(), which will wake the sleeper.
LEMMA ClearUnspoilt ==
  ASSUME Types, Shape, Suspended, Unspoilt, NEW t \in Threads, Clear(t)
  PROVE  Unspoilt'
<1> DEFINE s == stack[t]
           z == stack'[t]
<1>1. /\ At(t, "clear") /\ Alone(t) /\ s # <<>> /\ Base' = Base
      /\ gBlockMask' = gBlockMask /\ gPending' = gPending \ {Top(t).sig} /\ hsigsusp' = hsigsusp /\ Unreaped' = Unreaped
  BY ClearDoes, HandlingShape, AtTop DEF Clear, mask, mem, susp, Handling, Unreaped
<1>2. s \in Seq(Frame) /\ z \in Seq(Frame) /\ Top(t) = s[Len(s)] /\ Top(t).pc = "clear"
  BY <1>1, AtTop DEF Types, Alone
<1>3. PICK f \in Frame, g \in Frame :
        /\ Pushes(s, z, f, g) /\ f.pc = "deliver" /\ f.todo = Top(t).todo /\ g.pc = "generic"
  BY ClearDoes
<1>4. Top(t)' = g
  BY <1>1, <1>3, TopAfterPush
<1>5. ~AllBlocked(t) /\ ~AllBlocked(t)' /\ Top(t)'.pc # "keep"
  BY <1>2, <1>3, <1>4 DEF AllBlocked
<1>6. ~Reaping(f) /\ ~Acting(f) /\ ~Reaping(g) /\ ~Acting(g)
  BY <1>3 DEF Reaping, Acting, WorkPcs
<1>7. InHandler(t)' => InHandler(t)
  BY <1>1, <1>2, <1>3, <1>6, PushHas, HandlersAct, HandlersActNext DEF Alone
<1>8. MaskOK'
  BY <1>1, <1>5, <1>7, CalmMask DEF Unspoilt
<1>9. HasReaping(z) => HasReaping(s)
  BY <1>1, <1>2, <1>3, <1>6, PushHas
<1>10. Wakes => Wakes'
  BY <1>1, <1>2, <1>3, PushHas, WakesStays
<1>11. Base = "sleep" /\ "SIGCHLD" \in gPending' => hsigsusp' \/ Wakes' \/ Looks(stack'[Main])
  <2> SUFFICES ASSUME Base = "sleep", "SIGCHLD" \in gPending, Top(t).sig # "SIGCHLD", ~(hsigsusp \/ Wakes)
               PROVE  Looks(stack'[Main])
    BY <1>1, <1>10
  <2>1. Looks(stack[Main])
    BY DEF Unspoilt, PendingTold
  <2>2. CASE t # Main
    BY <1>1, <2>1, <2>2, ThreadsDiffer DEF Alone
  <2>3. CASE t = Main
    <3>1. PICK n \in Nat : n = Len(s) /\ n >= 2 /\ (n = 2 \/ n > 2)
      BY <1>2, <2>1, <2>3, SeqFacts DEF Looks
    <3>2. Len(z) = n + 1 /\ z[n] = f /\ \A i \in 1 .. n - 1 : z[i] = s[i]
      BY <1>3, <3>1 DEF Pushes
    <3>3. CASE n > 2
      <4>1. z[2] = s[2] /\ Len(z) >= 2
        BY <3>2, <3>3
      <4> QED
        BY <2>1, <2>3, <4>1 DEF Looks
    <3>4. CASE n = 2
      BY <1>2, <1>3, <2>1, <2>3, <3>1, <3>2, <3>4 DEF Looks
    <3> QED
      BY <3>1, <3>3, <3>4
  <2> QED
    BY <2>2, <2>3
<1>12. NoneReaps' /\ KeepWakes' /\ PendingTold' /\ SomeLeft'
  BY <1>1, <1>5, <1>9, <1>10, <1>11, HandlerRest
<1> QED
  BY <1>8, <1>12 DEF Unspoilt

\* generic_handler() keeps an open SIGCHLD only under a handler, and calls the shell's
\* handler only where it is open.
LEMMA GenericUnspoilt ==
  ASSUME Types, Shape, Suspended, Unspoilt, NEW t \in Threads, Generic(t)
  PROVE  Unspoilt'
<1> DEFINE s == stack[t]
           z == stack'[t]
<1>1. /\ At(t, "generic") /\ Alone(t) /\ s # <<>> /\ Base' = Base
      /\ gBlockMask' = gBlockMask /\ gPending' = gPending /\ hsigsusp' = hsigsusp /\ Unreaped' = Unreaped
  BY GenericDoes, HandlingShape, AtTop DEF Generic, mask, mem, susp, Handling, Unreaped
<1>2. s \in Seq(Frame) /\ z \in Seq(Frame) /\ Top(t) = s[Len(s)] /\ Top(t).pc = "generic" /\ Top(t).sig \in AllSignals
  BY <1>1, AtTop DEF Types, Alone
<1>3. ~AllBlocked(t)
  BY <1>2 DEF AllBlocked
<1>4. ASSUME HasReaping(z) => HasReaping(s) \/ Base \notin ClosedPcs, Wakes => Wakes', MaskOK',
             Base = "sleep" /\ Top(t)'.pc = "keep" /\ Top(t)'.sig = "SIGCHLD" => Wakes',
             \/ \E f \in Frame : Replaces(s, z, f) /\ f.todo = Top(t).todo
             \/ \E f \in Frame, g \in Frame : Pushes(s, z, f, g) /\ f.todo = Top(t).todo
      PROVE  Unspoilt'
  <2>1. Looks(stack[Main]) => Looks(stack'[Main])
    BY <1>1, <1>2, <1>4, LooksStays
  <2>2. Base = "sleep" /\ "SIGCHLD" \in gPending' => hsigsusp' \/ Wakes' \/ Looks(stack'[Main])
    BY <1>1, <1>4, <2>1 DEF Unspoilt, PendingTold
  <2>3. NoneReaps' /\ KeepWakes' /\ PendingTold' /\ SomeLeft'
    BY <1>1, <1>4, <2>2, HandlerRest
  <2> QED
    BY <1>4, <2>3 DEF Unspoilt
<1>5. CASE /\ Top(t).sig \in gBlockMask
           /\ \E f \in Frame : /\ Replaces(s, z, f)
                               /\ f.pc = "keep" /\ f.sig = Top(t).sig /\ f.todo = Top(t).todo
  <2>1. PICK f \in Frame : Replaces(s, z, f) /\ f.pc = "keep" /\ f.sig = Top(t).sig /\ f.todo = Top(t).todo
    BY <1>5
  <2>2. Top(t)' = f
    BY <1>1, <2>1, TopAfterReplace
  <2>3. ~Reaping(f) /\ ~Acting(f)
    BY <2>1 DEF Reaping, Acting, WorkPcs
  <2>4. InHandler(t)' => InHandler(t)
    BY <1>1, <1>2, <2>1, <2>3, ReplaceHas, HandlersAct, HandlersActNext DEF Alone
  <2>5. ~AllBlocked(t)'
    BY <2>1, <2>2 DEF AllBlocked
  <2>6. MaskOK'
    BY <1>1, <1>3, <2>4, <2>5, CalmMask DEF Unspoilt
  <2>7. HasReaping(z) => HasReaping(s)
    BY <1>1, <1>2, <2>1, <2>3, ReplaceHas
  <2>8. Wakes => Wakes'
    BY <1>1, <1>2, <2>1, ReplaceHas, WakesStays
  <2>9. Base = "sleep" /\ Top(t)'.sig = "SIGCHLD" => Wakes'
    <3>1. "sleep" \notin ClosedPcs
      BY DEF ClosedPcs
    <3> QED
      BY <1>5, <2>1, <2>2, <2>8, <3>1, UnderHandler DEF Unspoilt
  <2> QED
    BY <1>4, <2>1, <2>6, <2>7, <2>8, <2>9
<1>6. CASE /\ Top(t).sig \notin gBlockMask
           /\ \E f \in Frame, g \in Frame :
                /\ Pushes(s, z, f, g)
                /\ f.pc = "wake" /\ f.sig = Top(t).sig /\ f.todo = Top(t).todo
                /\ g.pc = "handler" /\ g.sig = Top(t).sig
  <2>1. PICK f \in Frame, g \in Frame :
                /\ Pushes(s, z, f, g)
                /\ f.pc = "wake" /\ f.sig = Top(t).sig /\ f.todo = Top(t).todo
                /\ g.pc = "handler" /\ g.sig = Top(t).sig
    BY <1>6
  <2>2. Top(t)' = g
    BY <1>1, <2>1, TopAfterPush
  <2>3. ~AllBlocked(t)' /\ Top(t)'.pc # "keep"
    BY <2>1, <2>2 DEF AllBlocked
  <2>4. t # Main => ~AllBlocked(Main)
    <3>1. gBlockMask # AllSignals
      BY <1>2, <1>6
    <3> QED
      BY <3>1, ThreadsDiffer DEF Unspoilt, MaskOK
  <2>5. MaskOK'
    BY <1>1, <1>3, <2>3, <2>4, CalmMask, ThreadsDiffer DEF Unspoilt
  <2>6. HasReaping(z) => HasReaping(s) \/ Base \notin ClosedPcs
    <3>1. HasReaping(z) => HasReaping(s) \/ Reaping(f) \/ Reaping(g)
      BY <1>1, <1>2, <2>1, PushHas
    <3>2. Reaping(f) \/ Reaping(g) => Top(t).sig = "SIGCHLD"
      BY <2>1 DEF Reaping
    <3>3. Top(t).sig = "SIGCHLD" => Base \notin ClosedPcs
      BY <1>6, ClosedIsBlocked DEF Unspoilt
    <3> QED
      BY <3>1, <3>2, <3>3
  <2>7. Wakes => Wakes'
    BY <1>1, <1>2, <2>1, PushHas, WakesStays
  <2> QED
    BY <1>4, <2>1, <2>3, <2>5, <2>6, <2>7
<1> QED
  BY <1>5, <1>6, GenericDoes

\* Only one handler has all signals blocked.
LEMMA BlockAllUnspoilt ==
  ASSUME Types, Shape, Suspended, Unspoilt, NEW t \in Threads, BlockAll(t), ~crossed'
  PROVE  Unspoilt'
<1> DEFINE s == stack[t]
           z == stack'[t]
<1>1. /\ At(t, "handler") /\ Alone(t) /\ s # <<>> /\ Base' = Base
      /\ gBlockMask' = AllSignals /\ gPending' = gPending /\ hsigsusp' = hsigsusp /\ Unreaped' = Unreaped
  BY BlockAllDoes, HandlingShape, AtTop DEF BlockAll, SetMask, mem, susp, Handling, Unreaped
<1>2. s \in Seq(Frame) /\ z \in Seq(Frame) /\ Top(t) = s[Len(s)] /\ Top(t).pc = "handler" /\ StackOK(t, s)
  BY <1>1, AtTop DEF Types, Alone, Shape
<1>3. PICK f \in Frame : Replaces(s, z, f) /\ f.pc = "unblock" /\ f.sig = Top(t).sig /\ f.old = gBlockMask
  BY BlockAllDoes
<1>4. Top(t)' = f /\ z # <<>>
  BY <1>1, <1>3, TopAfterReplace
<1>5. InHandler(t)
  <2>1. Len(s) \in 1 .. Len(s) /\ "handler" \in WorkPcs
    BY <1>1, <1>2, SeqFacts DEF WorkPcs
  <2>2. Acts(s)
    BY <1>2, <2>1, WorkerWakes
  <2> QED
    BY <2>2, HandlersAct
<1>6. \A u \in Threads : ~AllBlocked(u)
  <2> SUFFICES ASSUME NEW u \in Threads, AllBlocked(u) PROVE FALSE
    OBVIOUS
  <2>1. u # t
    BY <1>2 DEF AllBlocked
  <2>2. InHandler(u)
    <3>1. stack[u] \in Seq(Frame) /\ stack[u] # <<>> /\ StackOK(u, stack[u]) /\ stack[u][Len(stack[u])].pc \in WorkPcs
      BY DEF Types, AllBlocked, Shape, Top, WorkPcs
    <3>2. Len(stack[u]) \in 1 .. Len(stack[u])
      BY <3>1, SeqFacts
    <3>3. Acts(stack[u])
      BY <3>1, <3>2, WorkerWakes
    <3> QED
      BY <3>3, HandlersAct
  <2>3. t # Console /\ u # Console
    BY <1>5, <2>1, <2>2 DEF BlockAll, SetMask
  <2>4. CASE t = Main
    <3>1. stack[u] = <<>>
      BY <1>1, <2>1, <2>3, <2>4, AtTop DEF Threads
    <3> QED
      BY <3>1 DEF AllBlocked
  <2>5. CASE t \in Children /\ u = Main
    BY <1>5, <2>5 DEF Unspoilt, MaskOK
  <2>6. CASE t \in Children /\ u \in Children
    BY <1>1, <2>1, <2>6 DEF Shape, AllBlocked
  <2> QED
    BY <2>1, <2>3, <2>4, <2>5, <2>6 DEF Threads
<1>7. Right(gBlockMask)
  BY <1>6 DEF Unspoilt, MaskOK
<1>8. \A u \in Threads \ {t} : ~AllBlocked(u)'
  BY <1>1, <1>6 DEF AllBlocked, Alone, Top
<1>9. AllBlocked(t)' /\ Right(Top(t).old)'
  BY <1>1, <1>3, <1>4, <1>7 DEF AllBlocked, Right
<1>10. \A c \in Children : InHandler(c)' => ~AllBlocked(Main)'
  <2>1. CASE t = Main
    <3>1. \A c \in Children : stack'[c] = <<>>
      BY <1>1, <2>1, AtTop, ThreadsDiffer DEF Alone
    <3> QED
      BY <3>1 DEF InHandler
  <2>2. CASE t # Main
    BY <1>8, <2>2, ThreadsDiffer
  <2> QED
    BY <2>1, <2>2
<1>11. MaskOK'
  BY <1>1, <1>8, <1>9, <1>10 DEF MaskOK
<1>12. HasReaping(z) => HasReaping(s)
  <2>1. Reaping(f) => HasReaping(s) \/ Base \notin ClosedPcs
    <3>1. Top(t).sig = "SIGCHLD" => Reaping(s[Len(s)])
      BY <1>2 DEF Reaping
    <3>2. Len(s) \in 1 .. Len(s)
      BY <1>1, <1>2, SeqFacts
    <3> QED
      BY <1>3, <3>1, <3>2 DEF Reaping, HasReaping
  <2>2. Reaping(f) => HasReaping(s)
    <3>1. Top(t).sig = "SIGCHLD" => Reaping(s[Len(s)])
      BY <1>2 DEF Reaping
    <3>2. Len(s) \in 1 .. Len(s)
      BY <1>1, <1>2, SeqFacts
    <3> QED
      BY <1>3, <3>1, <3>2 DEF Reaping, HasReaping
  <2> QED
    BY <1>1, <1>2, <1>3, <2>2, ReplaceHas
<1>13. Wakes => Wakes'
  BY <1>1, <1>2, <1>3, ReplaceHas, WakesStays
<1>14. Base = "sleep" => Wakes
  <2>1. Len(s) \in 1 .. Len(s) /\ "handler" \in WorkPcs
    BY <1>1, <1>2, SeqFacts DEF WorkPcs
  <2>2. HasWake(s)
    BY <1>2, <2>1, WorkerWakes
  <2> QED
    BY <2>2 DEF Wakes
<1>15. NoneReaps' /\ KeepWakes' /\ PendingTold' /\ SomeLeft'
  BY <1>1, <1>3, <1>4, <1>12, <1>13, <1>14, HandlerRest
<1> QED
  BY <1>11, <1>15 DEF Unspoilt

\* The handler puts back the right mask.
LEMMA UnblockUnspoilt ==
  ASSUME Types, Shape, Suspended, Unspoilt, NEW t \in Threads, Unblock(t)
  PROVE  Unspoilt'
<1> DEFINE s == stack[t]
           z == stack'[t]
<1>1. /\ At(t, "unblock") /\ Alone(t) /\ s # <<>> /\ Base' = Base
      /\ gBlockMask' = Top(t).old /\ gPending' = gPending /\ hsigsusp' = hsigsusp /\ Unreaped' = Unreaped
  BY UnblockDoes, HandlingShape, AtTop DEF Unblock, SetMask, mem, susp, Handling, Unreaped
<1>2. s \in Seq(Frame) /\ z \in Seq(Frame) /\ Top(t) = s[Len(s)] /\ Top(t).pc = "unblock" /\ StackOK(t, s)
  BY <1>1, AtTop DEF Types, Alone, Shape
<1>3. PICK f \in Frame, g \in Frame :
        /\ Pushes(s, z, f, g) /\ f.pc \in {"reap", "interrupt"} /\ f.sig = Top(t).sig
        /\ g.pc = "deliver"
  BY UnblockDoes
<1>4. Top(t)' = g
  BY <1>1, <1>3, TopAfterPush
<1>5. AllBlocked(t) /\ ~AllBlocked(t)' /\ Top(t)'.pc # "keep"
  BY <1>1, <1>2, <1>3, <1>4 DEF AllBlocked
<1>6. \A u \in Threads \ {t} : ~AllBlocked(u)
  BY <1>5 DEF Unspoilt, MaskOK
<1>7. \A u \in Threads : ~AllBlocked(u)'
  BY <1>1, <1>5, <1>6 DEF AllBlocked, Alone, Top
<1>8. Right(gBlockMask)'
  BY <1>1, <1>5 DEF Unspoilt, MaskOK, Right
<1>9. MaskOK'
  BY <1>7, <1>8, ThreadsDiffer DEF MaskOK
<1>10. HasReaping(z) => HasReaping(s)
  <2>1. Reaping(f) => Reaping(s[Len(s)])
    BY <1>2, <1>3 DEF Reaping
  <2>2. Len(s) \in 1 .. Len(s)
    BY <1>1, <1>2, SeqFacts
  <2>3. Reaping(f) => HasReaping(s)
    BY <2>1, <2>2 DEF HasReaping
  <2>4. ~Reaping(g)
    BY <1>3 DEF Reaping
  <2> QED
    BY <1>1, <1>2, <1>3, <2>3, <2>4, PushHas
<1>11. Wakes => Wakes'
  BY <1>1, <1>2, <1>3, PushHas, WakesStays
<1>12. Base = "sleep" => Wakes
  <2>1. Len(s) \in 1 .. Len(s) /\ "unblock" \in WorkPcs
    BY <1>1, <1>2, SeqFacts DEF WorkPcs
  <2>2. HasWake(s)
    BY <1>2, <2>1, WorkerWakes
  <2> QED
    BY <2>2 DEF Wakes
<1>13. NoneReaps' /\ KeepWakes' /\ PendingTold' /\ SomeLeft'
  BY <1>1, <1>5, <1>10, <1>11, <1>12, HandlerRest
<1> QED
  BY <1>9, <1>13 DEF Unspoilt

\* Children are waited for only where SIGCHLD is open, by one who will wake the sleeper.
LEMMA ReapUnspoilt ==
  ASSUME Types, Shape, Suspended, Unspoilt, NEW t \in Threads, Reap(t)
  PROVE  Unspoilt'
<1> DEFINE s == stack[t]
<1>1. /\ At(t, "reap") /\ s # <<>> /\ Base' = Base
      /\ gBlockMask' = gBlockMask /\ gPending' = gPending /\ hsigsusp' = hsigsusp
  BY HandlingShape, AtTop DEF Reap, mask, susp, Handling
<1>2. s \in Seq(Frame) /\ Top(t) = s[Len(s)] /\ Top(t).pc = "reap" /\ StackOK(t, s)
  BY <1>1, AtTop DEF Types, Shape
<1>3. CASE clist = <<>>
  <2>1. Alone(t) /\ Pops(s, stack'[t]) /\ Unreaped' = Unreaped
    BY <1>1, <1>3, ReturnStep DEF Reap, Unreaped
  <2> QED
    BY <1>1, <1>2, <2>1, PopRest
<1>4. CASE clist # <<>>
  <2>1. stack' = stack
    BY <1>4 DEF Reap
  <2>2. Len(s) \in 1 .. Len(s) /\ "reap" \in WorkPcs /\ FrameOK(s, Len(s))
    BY <1>1, <1>2, SeqFacts DEF WorkPcs, StackOK
  <2>3. Wakes
    BY <1>2, <2>2, WorkerWakes DEF Wakes
  <2>4. HasReaping(s)
    BY <1>2, <2>2 DEF HasReaping, Reaping, FrameOK
  <2>5. Base \notin ClosedPcs
    BY <2>4 DEF Unspoilt, NoneReaps
  <2>6. Base \notin {"suspend", "setmask"}
    BY <2>5 DEF ClosedPcs
  <2>7. Wakes'
    BY <2>1, <2>3 DEF Wakes
  <2>8. MaskOK' /\ NoneReaps' /\ KeepWakes' /\ PendingTold'
    BY <1>1, <2>1, <2>7 DEF Unspoilt, MaskOK, NoneReaps, KeepWakes, PendingTold, AllBlocked, Right, InHandler, Top
  <2>9. SomeLeft'
    BY <1>1, <2>6, <2>7 DEF SomeLeft
  <2> QED
    BY <2>8, <2>9 DEF Unspoilt
<1> QED
  BY <1>3, <1>4

\* No step of a handler spoils the mask, short of the console's and another at once.
LEMMA HandlingUnspoilt ==
  ASSUME Types, Shape, Suspended, Unspoilt, NEW t \in Threads, Handling(t), ~crossed'
  PROVE  Unspoilt'
<1>1. ASSUME Keep(t) PROVE Unspoilt'
  <2>1. /\ At(t, "keep") /\ stack[t] # <<>> /\ Base' = Base /\ Unreaped' = Unreaped
        /\ gBlockMask' = gBlockMask /\ gPending' = gPending \union {Top(t).sig} /\ hsigsusp' = hsigsusp
    BY <1>1, HandlingShape, AtTop DEF Keep, mask, susp, mem, Handling, Unreaped
  <2>2. Alone(t) /\ Pops(stack[t], stack'[t]) /\ Top(t).pc = "keep"
    BY <1>1, <2>1, ReturnStep, AtTop DEF Keep
  <2>3. Base = "sleep" /\ "SIGCHLD" \in gPending' => hsigsusp \/ Wakes \/ "SIGCHLD" \in gPending
    BY <2>1, <2>2 DEF Unspoilt, KeepWakes
  <2> QED
    BY <2>1, <2>2, <2>3, PopRest
<1>2. ASSUME Wake(t) PROVE Unspoilt'
  <2>1. /\ At(t, "wake") /\ stack[t] # <<>> /\ Base' = Base /\ Unreaped' = Unreaped
        /\ gBlockMask' = gBlockMask /\ gPending' = gPending /\ hsigsusp' = (hsigsusp \/ is_suspended)
    BY <1>2, HandlingShape, AtTop DEF Wake, mask, mem, Handling, Unreaped
  <2>2. Alone(t) /\ Pops(stack[t], stack'[t]) /\ Top(t).pc = "wake"
    BY <1>2, <2>1, ReturnStep, AtTop DEF Wake
  <2> QED
    BY <2>1, <2>2, PopRest
<1>3. ASSUME Interrupt(t) PROVE Unspoilt'
  <2>1. /\ At(t, "interrupt") /\ stack[t] # <<>> /\ Base' = Base /\ Unreaped' = Unreaped
        /\ gBlockMask' = gBlockMask /\ gPending' = gPending /\ hsigsusp' = hsigsusp
    BY <1>3, HandlingShape, AtTop DEF Interrupt, mask, mem, susp, Handling, Unreaped
  <2>2. Alone(t) /\ Pops(stack[t], stack'[t]) /\ Top(t).pc = "interrupt"
    BY <1>3, <2>1, ReturnStep, AtTop DEF Interrupt
  <2> QED
    BY <2>1, <2>2, PopRest
<1> QED
  BY <1>1, <1>2, <1>3, LookUnspoilt, ClearUnspoilt, GenericUnspoilt, BlockAllUnspoilt, UnblockUnspoilt, ReapUnspoilt
     DEF Handling

-----------------------------------------------------------------------------
(* The steps of the main thread in the shell.                               *)

\* The main thread in the shell, nobody's handler on top of it.
LEMMA ShellAt ==
  ASSUME Types, Shape, NEW p \in BasePcs, At(Main, p)
  PROVE  /\ Main \in Threads /\ stack[Main] # <<>> /\ Len(stack[Main]) = 1
         /\ Top(Main) = Bottom /\ Base = p /\ crit = "none"
         /\ ~AllBlocked(Main) /\ ~HasBound(stack[Main])
         /\ \A c \in Children : stack[c] = <<>>
<1>1. /\ Main \in Threads /\ stack[Main] # <<>> /\ Len(stack[Main]) = 1 /\ Base = p /\ crit = "none"
      /\ Top(Main) = stack[Main][1] /\ \A c \in Children : stack[c] = <<>>
  BY AtTop, ThreadsDiffer
<1>2. p \notin {"generic", "keep", "handler", "unblock", "reap"}
  BY DEF BasePcs
<1>3. ~HasBound(stack[Main])
  BY <1>1, <1>2 DEF HasBound, Bound, Base, Bottom
<1> QED
  BY <1>1, <1>2, <1>3 DEF AllBlocked, Bottom, Base

\* Where the main thread goes: on in the shell, or to deliver what m lets through.
Goes(q) == Stays(q) \/ (q \in CallerPcs /\ \E m \in SUBSET AllSignals : Delivers(q, m))

\* The main thread's step in the shell leaves it outside all handlers.
LEMMA GoesQuietly ==
  ASSUME NEW q \in BasePcs, Goes(q)
  PROVE  /\ Alone(Main) /\ stack'[Main][1].pc = q
         /\ ~AllBlocked(Main)' /\ ~HasReaping(stack'[Main]) /\ ~Acts(stack'[Main])
         /\ Top(Main)'.pc # "keep"
<1> DEFINE z == stack'[Main]
<1>1. Alone(Main) /\ z[1].pc = q /\ (Len(z) = 1 \/ (Len(z) = 2 /\ z[2].pc = "deliver"))
  BY DeliverTyped DEF Goes, Stays, Delivers
<1> HIDE DEF z
<1>2. \A i \in 1 .. Len(z) : z[i].pc = q \/ z[i].pc = "deliver"
  BY <1>1
<1>3. z[Len(z)].pc = q \/ z[Len(z)].pc = "deliver"
  BY <1>1
<1>4. /\ q \notin WorkPcs \union {"wake", "keep", "unblock", "reap", "handler"}
      /\ "deliver" \notin WorkPcs \union {"wake", "keep", "unblock", "reap", "handler"}
  BY DEF BasePcs, WorkPcs
<1>5. ~HasReaping(z)
  BY <1>2, <1>4 DEF HasReaping, Reaping
<1>6. ~Acts(z)
  BY <1>2, <1>4 DEF Acts, Acting
<1>7. z[Len(z)].pc \notin {"keep", "unblock"}
  BY <1>3, <1>4
<1> QED
  BY <1>1, <1>5, <1>6, <1>7 DEF AllBlocked, Top, z

\* What holds whatever becomes of the mask.
LEMMA ShellKeeps ==
  ASSUME Types, Shape, ListTold, NEW p \in BasePcs, At(Main, p), NEW q \in BasePcs, Goes(q),
         crit' = crit, frozen' = frozen, clist' = clist, gPending' = gPending
  PROVE  Shape' /\ ListTold' /\ Base' = q
<1>1. Shape' /\ Base' = q
  BY StaysKeeps, DeliversKeeps DEF Goes
<1>2. Main \in Threads /\ ~HasBound(stack[Main])
  BY ShellAt
<1>3. ListTold'
  BY <1>2, GoesQuietly, ListToldFrom DEF Alone
<1> QED
  BY <1>1, <1>3

\* A step that leaves the mask alone.
LEMMA CalmShell ==
  ASSUME Types, Shape, Unspoilt, NEW p \in BasePcs, At(Main, p), NEW q \in BasePcs, Goes(q),
         Base' = q, gBlockMask' = gBlockMask, (p \in ClosedPcs) <=> (q \in ClosedPcs),
         q # "sleep", q \in {"suspend", "setmask"} => Unreaped' # {}
  PROVE  Unspoilt'
<1>1. Main \in Threads /\ ~AllBlocked(Main) /\ Base = p
  BY ShellAt
<1>2. Alone(Main) /\ ~AllBlocked(Main)' /\ ~HasReaping(stack'[Main])
  BY GoesQuietly
<1>3. MaskOK'
  BY <1>1, <1>2, CalmMask, ThreadsDiffer DEF Unspoilt
<1>4. \A t \in Threads : HasReaping(stack'[t]) => HasReaping(stack[t])
  BY <1>2 DEF Alone
<1>5. NoneReaps'
  BY <1>1, <1>4 DEF Unspoilt, NoneReaps
<1>6. KeepWakes' /\ PendingTold' /\ SomeLeft'
  BY DEF KeepWakes, PendingTold, SomeLeft
<1> QED
  BY <1>3, <1>5, <1>6 DEF Unspoilt

\* When the mask is set and not spoilt by that, nobody is in a handler.
LEMMA NoneHandles ==
  ASSUME Types, Shape, NEW p \in BasePcs, At(Main, p), NEW m, SetMask(Main, m), ~crossed'
  PROVE  \A t \in Threads \ {Main} :
           ~AllBlocked(t) /\ ~HasReaping(stack[t]) /\ ~Acts(stack[t])
<1>1. \A c \in Children : stack[c] = <<>>
  BY ShellAt
<1>2. ~InHandler(Console)
  BY ThreadsDiffer DEF SetMask
<1>3. ~Acts(stack[Console])
  BY <1>2, HandlersAct, ThreadsDiffer
<1> SUFFICES ASSUME NEW t \in Threads \ {Main}
             PROVE  ~AllBlocked(t) /\ ~HasReaping(stack[t]) /\ ~Acts(stack[t])
  OBVIOUS
<1>4. CASE t \in Children
  BY <1>1, <1>4 DEF AllBlocked, HasReaping, Acts
<1>5. CASE t = Console
  <2> DEFINE s == stack[t]
  <2>1. s \in Seq(Frame)
    BY DEF Types
  <2>2. \A i \in 1 .. Len(s) : s[i].pc \notin {"handler", "unblock", "reap"}
    BY <1>3, <1>5 DEF Acts, Acting, WorkPcs
  <2>3. ~HasReaping(s)
    BY <2>2 DEF HasReaping, Reaping
  <2>4. s # <<>> => Len(s) \in 1 .. Len(s)
    BY <2>1, SeqFacts
  <2>5. ~AllBlocked(t)
    BY <2>2, <2>4 DEF AllBlocked, Top
  <2> QED
    BY <1>3, <1>5, <2>3, <2>5
<1> QED
  BY <1>4, <1>5 DEF Threads

\* A step that sets the mask.
LEMMA MaskShell ==
  ASSUME Types, Shape, NEW p \in BasePcs, At(Main, p), NEW q \in BasePcs, Goes(q), Base' = q,
         NEW m, SetMask(Main, m), ~crossed', ("SIGCHLD" \in m) <=> (q \in ClosedPcs)
  PROVE  MaskOK' /\ NoneReaps'
<1>1. Alone(Main) /\ ~AllBlocked(Main)' /\ ~HasReaping(stack'[Main])
  BY GoesQuietly
<1>2. \A t \in Threads \ {Main} : ~AllBlocked(t) /\ ~HasReaping(stack[t])
  BY NoneHandles
<1>3. \A t \in Threads \ {Main} : ~AllBlocked(t)' /\ ~HasReaping(stack'[t])
  BY <1>1, <1>2 DEF Alone, AllBlocked, Top
<1>4. \A t \in Threads : ~AllBlocked(t)' /\ ~HasReaping(stack'[t])
  BY <1>1, <1>3
<1>5. Right(gBlockMask)'
  BY DEF Right, SetMask
<1>6. MaskOK'
  BY <1>4, <1>5, ThreadsDiffer DEF MaskOK
<1>7. NoneReaps'
  BY <1>4 DEF NoneReaps
<1> QED
  BY <1>6, <1>7

\* ... anywhere but to sleep.
LEMMA AwakeShell ==
  ASSUME MaskOK', NoneReaps', NEW q, Base' = q, q \notin {"sleep", "suspend", "setmask"}
  PROVE  Unspoilt'
  BY DEF Unspoilt, KeepWakes, PendingTold, SomeLeft

\* child_block().
LEMMA BlockStep ==
  ASSUME IInv, child_block
  PROVE  IInv'
<1>1. Types /\ Shape /\ ListTold /\ At(Main, "idle") /\ "idle" \in BasePcs /\ "blocked" \in BasePcs
  BY DEF IInv, child_block, BasePcs
<1>2. Goes("blocked")
  BY <1>1, GotoStays DEF child_block, Goes
<1>3. Shape' /\ ListTold' /\ Base' = "blocked"
  BY <1>1, <1>2, ShellKeeps DEF child_block, mem
<1> DEFINE m == gBlockMask \union {"SIGCHLD"}
<1>4. Types'
  <2>1. m \in SUBSET AllSignals /\ SetMask(Main, m) /\ Main \in Threads
    BY <1>1, ThreadsDiffer DEF child_block, Types, AllSignals
  <2>2. gBlockMask' \in SUBSET AllSignals /\ crossed' \in BOOLEAN
    BY <1>1, <2>1, SetMaskTyped
  <2>3. stack' \in [Threads -> Seq(Frame)]
    BY <1>2, GoesQuietly, <1>1 DEF Alone
  <2> QED
    BY <1>1, <2>2, <2>3 DEF Types, child_block, mem, susp
<1>5. ASSUME ~crossed' PROVE Unspoilt' /\ OldKept'
  <2>1. ("SIGCHLD" \in m) <=> ("blocked" \in ClosedPcs)
    BY DEF ClosedPcs
  <2>2. SetMask(Main, m)
    BY DEF child_block
  <2> HIDE DEF m
  <2>3. MaskOK' /\ NoneReaps'
    BY <1>1, <1>2, <1>3, <1>5, <2>1, <2>2, MaskShell
  <2> QED
    BY <1>3, <2>3, AwakeShell DEF OldKept
<1>6. Suspended'
  BY <1>3 DEF Suspended
<1> QED
  BY <1>3, <1>4, <1>5, <1>6 DEF IInv

\* child_unblock().
LEMMA UnblockStep ==
  ASSUME IInv, child_unblock
  PROVE  IInv'
<1> DEFINE m == gBlockMask \ {"SIGCHLD"}
<1>0. PICK p \in {"blocked", "done"} : At(Main, p)
  BY DEF child_unblock
<1>1. Types /\ Shape /\ ListTold /\ p \in BasePcs /\ "idle" \in BasePcs \cap CallerPcs
  BY DEF IInv, BasePcs, CallerPcs
<1>a. m \in SUBSET AllSignals /\ SetMask(Main, m) /\ Main \in Threads
  BY <1>1, ThreadsDiffer DEF child_unblock, Types, AllSignals
<1>b. CallThen(Main, "idle", Deliver(m)) /\ "SIGCHLD" \notin m
  BY DEF child_unblock
<1> HIDE DEF m
<1>2. Goes("idle")
  BY <1>0, <1>1, <1>a, <1>b, CallDelivers DEF Goes
<1>3. Shape' /\ ListTold' /\ Base' = "idle"
  BY <1>0, <1>1, <1>2, ShellKeeps DEF child_unblock, mem
<1>4. Types'
  <2>2. gBlockMask' \in SUBSET AllSignals /\ crossed' \in BOOLEAN
    BY <1>1, <1>a, SetMaskTyped
  <2>3. stack' \in [Threads -> Seq(Frame)]
    BY <1>1, <1>2, GoesQuietly DEF Alone
  <2> QED
    BY <1>1, <2>2, <2>3 DEF Types, child_unblock, mem, susp
<1>5. ASSUME ~crossed' PROVE Unspoilt' /\ OldKept'
  <2>1. ("SIGCHLD" \in m) <=> ("idle" \in ClosedPcs)
    BY <1>b DEF ClosedPcs
  <2>3. MaskOK' /\ NoneReaps'
    BY <1>0, <1>1, <1>2, <1>3, <1>5, <1>a, <2>1, MaskShell
  <2> QED
    BY <1>3, <2>3, AwakeShell DEF OldKept
<1>6. Suspended'
  BY <1>3 DEF Suspended
<1> QED
  BY <1>3, <1>4, <1>5, <1>6 DEF IInv

\* child_block() after the wait.
LEMMA ReblockStep ==
  ASSUME IInv, Reblock
  PROVE  IInv'
<1> DEFINE m == gBlockMask \union {"SIGCHLD"}
<1>1. Types /\ Shape /\ ListTold /\ At(Main, "reblock") /\ "reblock" \in BasePcs /\ "wait" \in BasePcs
  BY DEF IInv, Reblock, BasePcs
<1>2. Goes("wait")
  BY <1>1, GotoStays DEF Reblock, Goes
<1>3. Shape' /\ ListTold' /\ Base' = "wait"
  BY <1>1, <1>2, ShellKeeps DEF Reblock, mem
<1>a. m \in SUBSET AllSignals /\ SetMask(Main, m) /\ Main \in Threads /\ "SIGCHLD" \in m
  BY <1>1, ThreadsDiffer DEF Reblock, Types, AllSignals
<1> HIDE DEF m
<1>4. Types'
  <2>2. gBlockMask' \in SUBSET AllSignals /\ crossed' \in BOOLEAN
    BY <1>1, <1>a, SetMaskTyped
  <2>3. stack' \in [Threads -> Seq(Frame)]
    BY <1>1, <1>2, GoesQuietly DEF Alone
  <2> QED
    BY <1>1, <2>2, <2>3 DEF Types, Reblock, mem, susp
<1>5. ASSUME ~crossed' PROVE Unspoilt' /\ OldKept'
  <2>1. ("SIGCHLD" \in m) <=> ("wait" \in ClosedPcs)
    BY <1>a DEF ClosedPcs
  <2>3. MaskOK' /\ NoneReaps'
    BY <1>1, <1>2, <1>3, <1>5, <1>a, <2>1, MaskShell
  <2> QED
    BY <1>3, <2>3, AwakeShell DEF OldKept
<1>6. Suspended'
  BY <1>3 DEF Suspended
<1> QED
  BY <1>3, <1>4, <1>5, <1>6 DEF IInv

\* The mask of waitjob() is put back.
LEMMA RestoreStep ==
  ASSUME IInv, RestoreMask
  PROVE  IInv'
<1> DEFINE m == Top(Main).old
<1>1. Types /\ Shape /\ ListTold /\ At(Main, "restore") /\ "restore" \in BasePcs /\ "reblock" \in BasePcs \cap CallerPcs
  BY DEF IInv, RestoreMask, BasePcs, CallerPcs
<1>a. m \in SUBSET AllSignals /\ Main \in Threads
  BY <1>1, AtTop, ThreadsDiffer DEF Frame
<1>b. SetMask(Main, m) /\ CallThen(Main, "reblock", Deliver(m))
  BY DEF RestoreMask
<1>c. ~crossed => "SIGCHLD" \in m
  BY <1>1, ShellAt DEF IInv, OldKept
<1> HIDE DEF m
<1>2. Goes("reblock")
  BY <1>1, <1>a, <1>b, CallDelivers DEF Goes
<1>3. Shape' /\ ListTold' /\ Base' = "reblock"
  BY <1>1, <1>2, ShellKeeps DEF RestoreMask, mem
<1>4. Types' /\ (~crossed' => ~crossed)
  <2>2. gBlockMask' \in SUBSET AllSignals /\ crossed' \in BOOLEAN /\ (~crossed' => ~crossed)
    BY <1>1, <1>a, <1>b, SetMaskTyped
  <2>3. stack' \in [Threads -> Seq(Frame)]
    BY <1>1, <1>2, GoesQuietly DEF Alone
  <2> QED
    BY <1>1, <2>2, <2>3 DEF Types, RestoreMask, mem, susp
<1>5. ASSUME ~crossed' PROVE Unspoilt' /\ OldKept'
  <2>1. ("SIGCHLD" \in m) <=> ("reblock" \in ClosedPcs)
    BY <1>c, <1>4, <1>5 DEF ClosedPcs
  <2>3. MaskOK' /\ NoneReaps'
    BY <1>1, <1>2, <1>3, <1>5, <1>b, <2>1, MaskShell
  <2> QED
    BY <1>3, <2>3, AwakeShell DEF OldKept
<1>6. Suspended'
  BY <1>3 DEF Suspended
<1> QED
  BY <1>3, <1>4, <1>5, <1>6 DEF IInv

\* sigsuspend() opens SIGCHLD, keeps the mask of waitjob(), and has yet to look at what
\* is kept.
LEMMA SuspendStep ==
  ASSUME IInv, SuspendMask
  PROVE  IInv'
<1>1. Types /\ Shape /\ ListTold /\ Suspended /\ At(Main, "setmask") /\ "setmask" \in BasePcs
      /\ "sleep" \in BasePcs \cap CallerPcs /\ "setmask" \in ClosedPcs /\ "sleep" \notin ClosedPcs
  BY DEF IInv, SuspendMask, BasePcs, CallerPcs, ClosedPcs
<1>0. PICK open \in {{"SIGCHLD"}, {"SIGCHLD", "SIGINT"}} :
        /\ SetMask(Main, AllSignals \ open)
        /\ stack' = [stack EXCEPT ![Main] = <<[Top(Main) EXCEPT !.pc = "sleep", !.old = gBlockMask],
                                              Deliver(AllSignals \ open)>>]
  BY DEF SuspendMask
<1> DEFINE m == AllSignals \ open
<1>a. m \in SUBSET AllSignals /\ Main \in Threads /\ "SIGCHLD" \notin m /\ SetMask(Main, m)
  BY <1>0, ThreadsDiffer
<1>b. Delivers("sleep", m) /\ stack'[Main][1].old = gBlockMask
  BY <1>0, <1>1, <1>a, SuspendDelivers
<1> HIDE DEF m
<1>2. Goes("sleep")
  BY <1>1, <1>a, <1>b DEF Goes
<1>3. Shape' /\ ListTold' /\ Base' = "sleep"
  BY <1>1, <1>2, ShellKeeps DEF SuspendMask, mem
<1>4. Types' /\ (~crossed' => ~crossed)
  <2>2. gBlockMask' \in SUBSET AllSignals /\ crossed' \in BOOLEAN /\ (~crossed' => ~crossed)
    BY <1>1, <1>a, SetMaskTyped
  <2>3. stack' \in [Threads -> Seq(Frame)]
    BY <1>1, <1>2, GoesQuietly DEF Alone
  <2> QED
    BY <1>1, <2>2, <2>3 DEF Types, SuspendMask, mem, susp
<1>5. ASSUME ~crossed' PROVE Unspoilt' /\ OldKept'
  <2>1. Unspoilt /\ Base = "setmask"
    BY <1>1, <1>4, <1>5, ShellAt DEF IInv
  <2>2. ("SIGCHLD" \in m) <=> ("sleep" \in ClosedPcs)
    BY <1>1, <1>a
  <2>3. MaskOK' /\ NoneReaps'
    BY <1>1, <1>2, <1>3, <1>5, <1>a, <2>2, MaskShell
  <2>4. KeepWakes'
    <3> SUFFICES ASSUME NEW t \in Threads, stack'[t] # <<>>, Top(t)'.pc = "keep", Top(t)'.sig = "SIGCHLD"
                 PROVE  FALSE
      BY DEF KeepWakes
    <3>1. t # Main
      BY <1>1, <1>2, GoesQuietly
    <3>2. stack'[t] = stack[t] /\ Top(t)' = Top(t)
      BY <1>1, <1>2, <3>1, GoesQuietly DEF Alone, Top
    <3>3. t = Console
      BY <1>1, <3>1, <3>2, ShellAt DEF Threads
    <3> DEFINE s == stack[Console]
    <3>4. s \in Seq(Frame) /\ s # <<>> /\ s[Len(s)].sig = "SIGCHLD" /\ StackOK(Console, s) /\ ~Acts(s)
      BY <1>1, <1>5, <1>a, <3>1, <3>2, <3>3, NoneHandles DEF Types, Top, Shape
    <3>5. PICK n \in Nat : n = Len(s) /\ n >= 1 /\ (n = 1 \/ n >= 2)
      BY <3>4, SeqFacts
    <3>6. n >= 2 => s[1].pc = "wake" /\ 1 \in 1 .. Len(s)
      BY <3>4, <3>5 DEF StackOK
    <3>7. n = 1 => s[1].sig = "SIGINT"
      BY <3>4, <3>5 DEF StackOK
    <3> QED
      BY <3>4, <3>5, <3>6, <3>7 DEF Acts, Acting
  <2>5. Looks(stack'[Main])
    <3>1. Deliver(m).todo \in {<<"SIGCHLD">>, <<"SIGINT", "SIGCHLD">>}
      BY <1>a, DeliverTyped
    <3>2. Len(stack'[Main]) = 2 /\ stack'[Main][2] = Deliver(m)
      BY <1>b DEF Delivers
    <3>3. stack'[Main][2].todo \in {<<"SIGCHLD">>, <<"SIGINT", "SIGCHLD">>} /\ Len(stack'[Main]) >= 2
      BY <3>1, <3>2
    <3> QED
      BY <3>3, Zenon DEF Looks
  <2>6. PendingTold'
    BY <2>5 DEF PendingTold
  <2>7. Unreaped' # {}
    <3>1. Unreaped' = Unreaped
      BY DEF SuspendMask, mem, Unreaped
    <3> QED
      BY <2>1, <3>1 DEF Unspoilt, SomeLeft
  <2>8. SomeLeft'
    BY <2>7 DEF SomeLeft
  <2>9. OldKept'
    BY <1>1, <1>b, <2>1, ClosedIsBlocked DEF OldKept, Bottom, Unspoilt
  <2> QED
    BY <2>3, <2>4, <2>6, <2>8, <2>9 DEF Unspoilt
<1>6. Suspended'
  <2>1. is_suspended' = is_suspended /\ Base = "setmask"
    BY <1>1, ShellAt DEF SuspendMask, susp
  <2> QED
    BY <1>1, <2>1 DEF Suspended
<1> QED
  BY <1>3, <1>4, <1>5, <1>6 DEF IInv

\* The steps that leave the mask alone: waitjob() and the rest of sigsuspend().
LEMMA CalmStep ==
  ASSUME IInv, NEW p \in BasePcs, At(Main, p), NEW q \in BasePcs \ {"sleep"}, Goto(Main, q),
         (p \in ClosedPcs) <=> (q \in ClosedPcs),
         q \in {"suspend", "setmask"} => Unreaped # {} \/ p \in {"suspend", "setmask"},
         q = "setmask" => is_suspended',
         q \in {"reset", "awake"} => p \in {"sleep", "reset"} /\ is_suspended' = is_suspended,
         q \in {"reset", "awake", "restore"} => p \in {"sleep", "reset", "awake"},
         is_suspended' \in BOOLEAN, hsigsusp' \in BOOLEAN,
         UNCHANGED <<mask, gPending, mem, errflag, keys>>
  PROVE  IInv'
<1>1. Types /\ Shape /\ ListTold /\ Suspended
  BY DEF IInv
<1>2. Goes(q) /\ stack'[Main][1].old = Bottom.old
  BY <1>1, GotoStays DEF Goes, Bottom
<1>3. Shape' /\ ListTold' /\ Base' = q /\ Base = p
  BY <1>1, <1>2, ShellKeeps, ShellAt DEF mem
<1>4. Types'
  BY <1>1, <1>2, GoesQuietly DEF Alone, Types, mem, mask
<1>5. ASSUME ~crossed' PROVE Unspoilt' /\ OldKept'
  <2>1. Unspoilt /\ OldKept
    BY <1>5 DEF IInv, mask
  <2>2. Unreaped' = Unreaped
    BY DEF Unreaped, mem
  <2>3. q \in {"suspend", "setmask"} => Unreaped' # {}
    BY <1>3, <2>1, <2>2 DEF Unspoilt, SomeLeft
  <2>4. Unspoilt'
    BY <1>1, <1>2, <1>3, <2>1, <2>3, CalmShell DEF mask
  <2>5. OldKept'
    BY <1>2, <1>3, <2>1 DEF OldKept, Bottom
  <2> QED
    BY <2>4, <2>5
<1>6. Suspended'
  BY <1>1, <1>3 DEF Suspended
<1> QED
  BY <1>3, <1>4, <1>5, <1>6 DEF IInv

\* waitjob() looks, sigsuspend() marks, wakes, resets its event and unmarks.
LEMMA WaitStep ==
  ASSUME IInv, WaitJob \/ Suspending \/ Woken \/ ResetEvent \/ Awake
  PROVE  IInv'
<1>1. /\ {"blocked", "wait", "suspend", "sleep", "reset", "awake"} \subseteq BasePcs
      /\ {"suspend", "done", "setmask", "reset", "awake", "restore"} \subseteq BasePcs \ {"sleep"}
      /\ {"blocked", "wait", "suspend", "done", "setmask"} \subseteq ClosedPcs
      /\ \A p \in {"sleep", "reset", "awake", "restore"} : p \notin ClosedPcs
  BY DEF BasePcs, ClosedPcs
<1>2. is_suspended \in BOOLEAN /\ hsigsusp \in BOOLEAN
  BY DEF IInv, Types
<1>3. CASE WaitJob
  <2>1. PICK p \in {"blocked", "wait"} : At(Main, p)
    BY <1>3 DEF WaitJob
  <2>2. PICK q \in {"suspend", "done"} : Goto(Main, q) /\ (q = "suspend" => Unreaped # {})
    BY <1>3 DEF WaitJob
  <2>3. UNCHANGED <<mask, gPending, mem, susp, errflag, keys>>
    BY <1>3 DEF WaitJob
  <2> QED
    BY <1>1, <1>2, <2>1, <2>2, <2>3, CalmStep DEF susp
<1>4. CASE Suspending
  <2>1. At(Main, "suspend") /\ Goto(Main, "setmask") /\ is_suspended' = TRUE /\ hsigsusp' = hsigsusp
        /\ UNCHANGED <<mask, gPending, mem, errflag, keys>>
    BY <1>4 DEF Suspending
  <2> QED
    BY <1>1, <1>2, <2>1, CalmStep
<1>5. CASE Woken
  <2>1. At(Main, "sleep") /\ Goto(Main, "reset") /\ is_suspended' = is_suspended /\ hsigsusp' = hsigsusp
        /\ UNCHANGED <<mask, gPending, mem, errflag, keys>>
    BY <1>5 DEF Woken, susp
  <2> QED
    BY <1>1, <1>2, <2>1, CalmStep
<1>6. CASE ResetEvent
  <2>1. At(Main, "reset") /\ Goto(Main, "awake") /\ is_suspended' = is_suspended /\ hsigsusp' = FALSE
        /\ UNCHANGED <<mask, gPending, mem, errflag, keys>>
    BY <1>6 DEF ResetEvent
  <2> QED
    BY <1>1, <1>2, <2>1, CalmStep
<1>7. CASE Awake
  <2>1. At(Main, "awake") /\ Goto(Main, "restore") /\ is_suspended' = FALSE /\ hsigsusp' = hsigsusp
        /\ UNCHANGED <<mask, gPending, mem, errflag, keys>>
    BY <1>7 DEF Awake
  <2> QED
    BY <1>1, <1>2, <2>1, CalmStep
<1> QED
  BY <1>3, <1>4, <1>5, <1>6, <1>7

\* fork() has a child more to wait for.
LEMMA StartStep ==
  ASSUME IInv, NEW c \in Children, Start(c)
  PROVE  IInv'
<1>1. Types /\ Shape /\ At(Main, "blocked") /\ "blocked" \in BasePcs /\ stack' = stack
  BY DEF IInv, Start, BasePcs
<1>2. Base = "blocked"
  BY <1>1, ShellAt
<1>3. Types'
  BY <1>1 DEF Types, Start, mask, susp
<1>4. Shape' /\ ListTold' /\ Suspended'
  BY <1>1 DEF IInv, Shape, ListTold, Suspended, Base, Bottom, Start, susp
<1>5. ASSUME ~crossed' PROVE Unspoilt' /\ OldKept'
  <2>1. Unspoilt /\ OldKept /\ gBlockMask' = gBlockMask
    BY <1>5 DEF IInv, Start, mask
  <2>2. MaskOK' /\ NoneReaps'
    BY <1>1, <2>1 DEF Unspoilt, MaskOK, NoneReaps, AllBlocked, Top, Right, Base, Bottom, InHandler
  <2>3. KeepWakes' /\ PendingTold' /\ SomeLeft' /\ OldKept'
    BY <1>1, <1>2 DEF KeepWakes, PendingTold, SomeLeft, OldKept, Base, Bottom
  <2> QED
    BY <2>2, <2>3 DEF Unspoilt
<1> QED
  BY <1>3, <1>4, <1>5 DEF IInv

-----------------------------------------------------------------------------
(* The news.                                                                *)

\* News from a child or the console do not touch the mask.
LEMMA NewsUnspoilt ==
  ASSUME Types, Shape, Unspoilt, NEW t \in Threads \ {Main}, Alone(t), Base' = Base,
         gBlockMask' = gBlockMask, gPending' = gPending, hsigsusp' = hsigsusp, Unreaped' = Unreaped,
         \A i \in 1 .. Len(stack[t]) : stack[t][i].pc = "resume",
         \A i \in 1 .. Len(stack'[t]) : stack'[t][i].pc \in {"resume", "generic"}
  PROVE  Unspoilt'
<1> DEFINE s == stack[t]
           z == stack'[t]
<1>1. s \in Seq(Frame) /\ z \in Seq(Frame)
  BY DEF Types, Alone
<1>2. ~HasWake(s) /\ ~HasReaping(z) /\ ~Acts(z)
  BY DEF HasWake, HasReaping, Reaping, Acts, Acting, WorkPcs
<1>3. ~AllBlocked(t)
  BY <1>1, SeqFacts DEF AllBlocked, Top
<1>4. stack'[t] # <<>> => Top(t)'.pc \in {"resume", "generic"}
  <2> SUFFICES ASSUME z # <<>> PROVE z[Len(z)].pc \in {"resume", "generic"}
    BY DEF Top
  <2>1. Len(z) \in 1 .. Len(z)
    BY <1>1, SeqFacts
  <2> QED
    BY <2>1
<1>5. ~AllBlocked(t)' /\ (stack'[t] # <<>> => Top(t)'.pc # "keep")
  BY <1>4 DEF AllBlocked
<1>6. ~InHandler(t)'
  BY <1>2, HandlersActNext DEF Alone
<1>7. MaskOK'
  BY <1>3, <1>5, <1>6, CalmMask DEF Unspoilt
<1>8. Wakes => Wakes'
  BY <1>2, WakesStays
<1>9. stack'[Main] = stack[Main]
  BY ThreadsDiffer DEF Alone
<1>10. Base = "sleep" /\ "SIGCHLD" \in gPending' => hsigsusp' \/ Wakes' \/ Looks(stack'[Main])
  BY <1>8, <1>9 DEF Unspoilt, PendingTold
<1>11. NoneReaps' /\ KeepWakes' /\ PendingTold' /\ SomeLeft'
  BY <1>2, <1>5, <1>8, <1>10, HandlerRest
<1> QED
  BY <1>7, <1>11 DEF Unspoilt

\* sig_child_callback() puts a child on the list and tells of it.
LEMMA CallbackStep ==
  ASSUME IInv, NEW c \in Children, sig_child_callback(c)
  PROVE  IInv'
<1>1. Types /\ Shape /\ ListTold /\ Suspended /\ c \in Threads \ {Main}
  BY ThreadsDiffer DEF IInv
<1>2. /\ Types' /\ Shape' /\ Base' = Base /\ Bottom' = Bottom /\ Alone(c)
      /\ Len(stack'[c]) = 2 /\ stack'[c][1].pc = "resume"
      /\ stack'[c][2].pc = "generic" /\ stack'[c][2].sig = "SIGCHLD"
      /\ stack[c] = <<>>
  BY <1>1, CallbackDoes
<1>3. HasBound(stack'[c])
  BY <1>2 DEF HasBound, Bound
<1>4. ListTold'
  BY <1>1, <1>3 DEF ListTold
<1>5. Suspended'
  BY <1>1, <1>2 DEF Suspended, sig_child_callback, susp
<1>6. ASSUME ~crossed' PROVE Unspoilt' /\ OldKept'
  <2>1. Unspoilt /\ OldKept /\ gBlockMask' = gBlockMask /\ gPending' = gPending /\ hsigsusp' = hsigsusp
    BY <1>6 DEF IInv, sig_child_callback, mask, susp
  <2>2. Unreaped' = Unreaped
    BY <1>1 DEF Unreaped, sig_child_callback, Types
  <2>3. \A i \in 1 .. Len(stack[c]) : stack[c][i].pc = "resume"
    BY <1>2
  <2>4. \A i \in 1 .. Len(stack'[c]) : stack'[c][i].pc \in {"resume", "generic"}
    BY <1>2
  <2> QED
    BY <1>1, <1>2, <2>1, <2>2, <2>3, <2>4, NewsUnspoilt DEF OldKept
<1> QED
  BY <1>2, <1>4, <1>5, <1>6 DEF IInv

\* The main thread goes on.
LEMMA ResumeStep ==
  ASSUME IInv, NEW c \in Children, Resume(c)
  PROVE  IInv'
<1>1. Types /\ Shape /\ ListTold /\ Suspended /\ c \in Threads \ {Main}
  BY ThreadsDiffer DEF IInv
<1>2. /\ Types' /\ Shape' /\ Base' = Base /\ Bottom' = Bottom /\ Alone(c)
      /\ Len(stack[c]) = 1 /\ stack[c][1].pc = "resume" /\ stack'[c] = <<>>
  BY <1>1, ResumeDoes
<1>3. ~HasBound(stack[c])
  BY <1>2 DEF HasBound, Bound
<1>4. ListTold'
  BY <1>1, <1>2, <1>3, ListToldFrom DEF Resume, Alone
<1>5. Suspended'
  BY <1>1, <1>2 DEF Suspended, Resume, susp
<1>6. ASSUME ~crossed' PROVE Unspoilt' /\ OldKept'
  <2>1. Unspoilt /\ OldKept /\ gBlockMask' = gBlockMask /\ gPending' = gPending /\ hsigsusp' = hsigsusp
    BY <1>6 DEF IInv, Resume, mask, susp
  <2>2. Unreaped' = Unreaped
    BY DEF Unreaped, Resume
  <2>3. \A i \in 1 .. Len(stack[c]) : stack[c][i].pc = "resume"
    BY <1>2
  <2>4. \A i \in 1 .. Len(stack'[c]) : stack'[c][i].pc \in {"resume", "generic"}
    BY <1>2
  <2> QED
    BY <1>1, <1>2, <2>1, <2>2, <2>3, <2>4, NewsUnspoilt DEF OldKept
<1> QED
  BY <1>2, <1>4, <1>5, <1>6 DEF IInv

\* Ctrl-C.
LEMMA PressStep ==
  ASSUME IInv, Press
  PROVE  IInv'
<1>1. Types /\ Shape /\ ListTold /\ Suspended /\ Console \in Threads \ {Main}
  BY ThreadsDiffer DEF IInv
<1>2. /\ Types' /\ Shape' /\ Base' = Base /\ Bottom' = Bottom /\ Alone(Console)
      /\ stack[Console] = <<>> /\ Len(stack'[Console]) = 1 /\ stack'[Console][1].pc = "generic"
  BY <1>1, PressDoes
<1>3. ~HasBound(stack[Console])
  BY <1>2 DEF HasBound
<1>4. ListTold'
  BY <1>1, <1>2, <1>3, ListToldFrom DEF Press, Alone, mem
<1>5. Suspended'
  BY <1>1, <1>2 DEF Suspended, Press, susp
<1>6. ASSUME ~crossed' PROVE Unspoilt' /\ OldKept'
  <2>1. Unspoilt /\ OldKept /\ gBlockMask' = gBlockMask /\ gPending' = gPending /\ hsigsusp' = hsigsusp
    BY <1>6 DEF IInv, Press, mask, susp
  <2>2. Unreaped' = Unreaped
    BY DEF Unreaped, Press, mem
  <2>3. \A i \in 1 .. Len(stack[Console]) : stack[Console][i].pc = "resume"
    BY <1>2
  <2>4. \A i \in 1 .. Len(stack'[Console]) : stack'[Console][i].pc \in {"resume", "generic"}
    BY <1>2
  <2> QED
    BY <1>1, <1>2, <2>1, <2>2, <2>3, <2>4, NewsUnspoilt DEF OldKept
<1> QED
  BY <1>2, <1>4, <1>5, <1>6 DEF IInv

\* A child ends.
LEMMA EndStep ==
  ASSUME IInv, NEW c \in Children, End(c)
  PROVE  IInv'
<1>1. Types /\ Shape /\ stack' = stack
  BY DEF IInv, End
<1>2. Unreaped' = Unreaped
  BY <1>1 DEF Unreaped, End, Types
<1>3. Types'
  BY <1>1 DEF Types, End, mask, susp
<1>4. Shape' /\ ListTold' /\ Suspended'
  BY <1>1 DEF IInv, Shape, ListTold, Suspended, Base, Bottom, End, susp
<1>5. ASSUME ~crossed' PROVE Unspoilt' /\ OldKept'
  <2>1. Unspoilt /\ OldKept /\ gBlockMask' = gBlockMask /\ gPending' = gPending /\ hsigsusp' = hsigsusp
    BY <1>5 DEF IInv, End, mask, susp
  <2>2. MaskOK' /\ NoneReaps'
    BY <1>1, <2>1 DEF Unspoilt, MaskOK, NoneReaps, AllBlocked, Top, Right, Base, Bottom, InHandler
  <2>3. KeepWakes' /\ PendingTold'
    BY <1>1, <2>1 DEF Unspoilt, KeepWakes, PendingTold, Base, Bottom, Top, Wakes
  <2>4. SomeLeft' /\ OldKept'
    BY <1>1, <1>2, <2>1 DEF Unspoilt, SomeLeft, OldKept, Base, Bottom, Wakes
  <2> QED
    BY <2>2, <2>3, <2>4 DEF Unspoilt
<1> QED
  BY <1>3, <1>4, <1>5 DEF IInv

\* A step of a handler.
LEMMA HandlingStep ==
  ASSUME IInv, NEW t \in Threads, Handling(t)
  PROVE  IInv'
<1>1. Types /\ Shape /\ ListTold /\ Suspended
  BY DEF IInv
<1>2. Types' /\ Shape' /\ Bottom' = Bottom /\ Base' = Base /\ ListTold'
  BY <1>1, HandlingShape, HandlingTells
<1>3. is_suspended' = is_suspended
  BY DEF Handling, Look, Clear, Generic, Keep, Wake, BlockAll, Unblock, Interrupt, Reap, susp
<1>4. ~crossed' => ~crossed
  BY <1>1 DEF Handling, Look, Clear, Generic, Keep, Wake, BlockAll, Unblock, Interrupt, Reap, mask, SetMask
<1>5. ~crossed' => Unspoilt' /\ OldKept'
  BY <1>1, <1>2, <1>4, HandlingUnspoilt DEF IInv, OldKept
<1>6. Suspended'
  BY <1>1, <1>2, <1>3 DEF Suspended
<1> QED
  BY <1>2, <1>5, <1>6 DEF IInv

-----------------------------------------------------------------------------
(* The theorems.                                                            *)

\* The invariant holds at first.
LEMMA Start_IInv ==
  Init => IInv
<1> SUFFICES ASSUME Init PROVE IInv
  OBVIOUS
<1> DEFINE f == Call("idle", "", {}, <<>>)
<1>0. "idle" \in Pcs /\ "idle" \in BasePcs /\ <<>> \in Todos
  BY DEF Pcs, BasePcs, Todos
<1>1. f \in Frame /\ f.pc = "idle"
  BY <1>0 DEF Call, Frame
<1>2. stack = [t \in Threads |-> IF t = Main THEN <<f>> ELSE <<>>]
  BY DEF Init
<1> HIDE DEF f
<1>3. <<f>> \in Seq(Frame) /\ <<>> \in Seq(Frame) /\ Len(<<f>>) = 1 /\ <<f>>[1] = f /\ <<f>> # <<>>
  BY <1>1
<1>4. stack[Main] = <<f>> /\ \A t \in Threads \ {Main} : stack[t] = <<>>
  BY <1>2, ThreadsDiffer
<1>5. stack \in [Threads -> Seq(Frame)]
  BY <1>2, <1>3
<1>6. Types
  <2>1. <<>> \in Seq(Entry)
    OBVIOUS
  <2>2. clist \in Seq(Entry)
    BY <2>1 DEF Init
  <2>3. /\ child \in [Children -> {"none", "running", "ended", "listed", "reaped"}]
        /\ status \in [Children -> Children \union {Garbage}]
    BY DEF Init
  <2> QED
    BY <1>5, <2>2, <2>3, Zenon DEF Init, Types
<1>7. Base = "idle" /\ "idle" \notin ClosedPcs /\ "idle" \notin WorkPcs \union {"reap", "clear", "generic", "keep"}
  BY <1>1, <1>3, <1>4 DEF Base, Bottom, ClosedPcs, WorkPcs
<1>8. StackOK(Main, <<f>>)
  <2>1. FrameOK(<<f>>, 1)
    BY <1>1, <1>3, <1>7 DEF FrameOK
  <2> QED
    BY <1>0, <1>1, <1>3, <2>1, ThreadsDiffer DEF StackOK
<1>9. \A t \in Threads \ {Main} : StackOK(t, <<>>)
  BY DEF StackOK
<1>10. Shape
  BY <1>3, <1>4, <1>8, <1>9, ThreadsDiffer DEF Shape, Init
<1>11. ListTold /\ Suspended /\ OldKept
  BY <1>7 DEF ListTold, Suspended, OldKept, Init
<1>12. \A t \in Threads : ~AllBlocked(t)
  BY <1>1, <1>3, <1>4 DEF AllBlocked, Top
<1>13. MaskOK
  BY <1>7, <1>12, ThreadsDiffer DEF MaskOK, Right, Init
<1>14. NoneReaps /\ KeepWakes /\ PendingTold /\ SomeLeft
  BY <1>7 DEF NoneReaps, KeepWakes, PendingTold, SomeLeft
<1> QED
  BY <1>6, <1>10, <1>11, <1>13, <1>14 DEF IInv, Unspoilt

\* The invariant is inductive.
LEMMA Step_IInv ==
  IInv /\ [Next]_vars => IInv'
<1> SUFFICES ASSUME IInv, [Next]_vars PROVE IInv'
  OBVIOUS
<1>1. CASE Shell
  BY <1>1, BlockStep, UnblockStep, StartStep, WaitStep, ReblockStep, SuspendStep, RestoreStep DEF Shell
<1>2. CASE \E t \in Threads : Handling(t)
  BY <1>2, HandlingStep
<1>3. CASE \E c \in Children : sig_child_callback(c) \/ Resume(c) \/ End(c)
  BY <1>3, CallbackStep, ResumeStep, EndStep
<1>4. CASE Press
  BY <1>4, PressStep
<1>5. CASE UNCHANGED vars
  BY <1>5 DEF vars, IInv, Types, Shape, ListTold, Suspended, Unspoilt, OldKept, MaskOK, NoneReaps, KeepWakes,
              PendingTold, SomeLeft, AllBlocked, Top, Right, Base, Bottom, InHandler, Wakes, Unreaped
<1> QED
  BY <1>1, <1>2, <1>3, <1>4, <1>5, ThreadsDiffer DEF Next, Watcher

\* In every state the shape of the stacks, who is told of an ended child, and, while the
\* mask is not spoilt, which mask is in force.
THEOREM Invariance ==
  Spec => []IInv
  BY Start_IInv, Step_IInv, PTL DEF Spec

\* signal.c's variables stay what they are declared to be, and the main thread is
\* suspended exactly while a child's thread is in the critical section.
THEOREM TypeCorrect ==
  Spec => []TypeOK
<1>1. IInv => TypeOK
  <2> SUFFICES ASSUME IInv PROVE TypeOK
    OBVIOUS
  <2>1. Types /\ Shape
    BY DEF IInv
  <2>2. \A i \in DOMAIN clist : clist[i] \in Entry
    BY <2>1 DEF Types
  <2> QED
    BY <2>1, <2>2 DEF Types, Shape, TypeOK, Entry
<1> QED
  BY <1>1, Invariance, PTL

\* sigsuspend() never sleeps with its event unset, and nobody about to set it, when there
\* is nothing left to wait for or an end has been kept or listed.
THEOREM NoneSleptThrough ==
  Spec => []NoEndIsSleptThrough
<1>1. IInv => NoEndIsSleptThrough
  <2> SUFFICES ASSUME IInv, At(Main, "sleep"), ~hsigsusp, Quiet, ~crossed
               PROVE  Unreaped # {} /\ "SIGCHLD" \notin gBlockMask \union gPending /\ clist = <<>>
    BY DEF NoEndIsSleptThrough
  <2>1. Types /\ Shape /\ ListTold /\ Unspoilt /\ "sleep" \in BasePcs /\ "sleep" \notin ClosedPcs
    BY DEF IInv, BasePcs, ClosedPcs
  <2>2. /\ Main \in Threads /\ stack[Main] # <<>> /\ Len(stack[Main]) = 1
        /\ Top(Main) = Bottom /\ Base = "sleep" /\ ~AllBlocked(Main) /\ ~HasBound(stack[Main])
        /\ \A c \in Children : stack[c] = <<>>
    BY <2>1, ShellAt
  <2>3. \A t \in Threads \ {Main} : stack[t] = <<>>
    BY <2>2 DEF Quiet, Threads
  <2>4. \A t \in Threads : ~AllBlocked(t) /\ ~HasBound(stack[t])
    BY <2>2, <2>3 DEF AllBlocked, HasBound
  <2>5. ~HasWake(stack[Main])
    BY <2>2 DEF HasWake, Base, Bottom
  <2>6. ~Wakes
    BY <2>3, <2>5 DEF Wakes, HasWake
  <2>7. ~Looks(stack[Main])
    BY <2>2 DEF Looks
  <2>8. "SIGCHLD" \notin gPending
    BY <2>1, <2>2, <2>6, <2>7 DEF Unspoilt, PendingTold
  <2>9. "SIGCHLD" \notin gBlockMask
    BY <2>1, <2>2, <2>4 DEF Unspoilt, MaskOK, Right
  <2>10. clist = <<>>
    BY <2>1, <2>4, <2>8 DEF ListTold
  <2>11. Unreaped # {}
    BY <2>1, <2>2, <2>6 DEF Unspoilt, SomeLeft
  <2> QED
    BY <2>8, <2>9, <2>10, <2>11
<1> QED
  BY <1>1, Invariance, PTL

\* From child_block() to the wait no child is taken off the list, unless the console's
\* thread has spoilt the mask.
THEOREM BlockedIsBlocked ==
  Spec => BlockedMeansBlocked
<1>1. IInv /\ [Next]_vars => [Critical /\ Vanishes => crossed]_vars
  <2> SUFFICES ASSUME IInv, Next, Critical, Vanishes, ~crossed PROVE FALSE
    BY DEF vars, Vanishes
  <2>1. Types /\ Shape /\ Unspoilt
    BY DEF IInv
  <2>2. Base \in ClosedPcs
    <3>1. stack[Main] # <<>> /\ Top(Main).pc \in {"blocked", "wait", "done", "suspend", "setmask"}
      BY DEF Critical
    <3> DEFINE s == stack[Main]
    <3>2. PICK n \in Nat : n = Len(s) /\ n >= 1 /\ (n = 1 \/ n >= 2)
      BY <2>1, <3>1, SeqFacts, ThreadsDiffer DEF Types
    <3>3. n >= 2 => s[n].pc \in HandlerPcs
      BY <2>1, <3>2, ThreadsDiffer DEF Shape, StackOK
    <3>4. {"blocked", "wait", "done", "suspend", "setmask"} \subseteq ClosedPcs
          /\ \A p \in HandlerPcs : p \notin ClosedPcs
      BY DEF ClosedPcs, HandlerPcs, WorkPcs
    <3>5. s[n].pc \in ClosedPcs
      BY <3>1, <3>2, <3>4 DEF Top
    <3>6. n = 1
      BY <3>2, <3>3, <3>4, <3>5
    <3> QED
      BY <3>5, <3>6 DEF Base, Bottom
  <2>3. \A t \in Threads : ~HasReaping(stack[t])
    BY <2>1, <2>2 DEF Unspoilt, NoneReaps
  <2>4. \A t \in Threads : ~Reap(t)
    <3> SUFFICES ASSUME NEW t \in Threads, Reap(t) PROVE FALSE
      OBVIOUS
    <3> DEFINE s == stack[t]
    <3>1. s \in Seq(Frame) /\ s # <<>> /\ s[Len(s)].pc = "reap" /\ StackOK(t, s)
      BY <2>1, AtTop DEF Reap, Shape
    <3>2. Len(s) \in 1 .. Len(s)
      BY <3>1, SeqFacts
    <3>3. FrameOK(s, Len(s))
      BY <3>1, <3>2 DEF StackOK
    <3> QED
      BY <2>3, <3>1, <3>2, <3>3 DEF FrameOK, HasReaping, Reaping
  <2>5. PICK c \in Children : child[c] # "reaped" /\ child'[c] = "reaped"
    BY DEF Vanishes
  <2>6. ~(\E t \in Threads : Handling(t))
    BY <2>4, <2>5 DEF Handling, Look, Clear, Generic, Keep, Wake, BlockAll, Unblock, Interrupt, mem
  <2>7. ~Shell
    BY <2>1, <2>5 DEF Shell, child_block, child_unblock, Start, WaitJob, Reblock, Suspending, SuspendMask,
                      Woken, ResetEvent, Awake, RestoreMask, mem, Types
  <2>8. \A d \in Children : ~sig_child_callback(d) /\ ~Resume(d) /\ ~End(d)
    BY <2>1, <2>5 DEF sig_child_callback, Resume, End, Types
  <2>9. ~Press
    BY <2>5 DEF Press, mem
  <2> QED
    BY <2>6, <2>7, <2>8, <2>9, ThreadsDiffer DEF Next, Watcher
<1> QED
  BY <1>1, Invariance, PTL DEF Spec, BlockedMeansBlocked

\* Whoever is on the list and was never there with another is alone there, with its code.
AloneOnList ==
  \A i \in 1 .. Len(clist) :
    clist[i].pid \notin crowded => Len(clist) = 1 /\ clist[1].exitcode = clist[1].pid

\* waitpid() gives a child that was alone on the list its own code.
LEMMA CodesKept ==
  ASSUME Types, AloneOnList, OwnCodeWhenAlone, [Next]_vars
  PROVE  AloneOnList' /\ OwnCodeWhenAlone'
<1>1. CASE \E c \in Children : sig_child_callback(c)
  <2>1. PICK c \in Children : sig_child_callback(c)
    BY <1>1
  <2>2. /\ clist' = add_to_child_list(c) /\ child' = [child EXCEPT ![c] = "listed"] /\ status' = status
        /\ crowded' = crowded \union (IF clist = <<>> THEN {} ELSE {c} \union {clist[i].pid : i \in DOMAIN clist})
    BY <2>1 DEF sig_child_callback
  <2>3. OwnCodeWhenAlone'
    BY <2>2 DEF OwnCodeWhenAlone, Types
  <2>4. CASE clist = <<>>
    <3>1. clist' = <<[pid |-> c, exitcode |-> c]>>
      BY <2>2, <2>4 DEF add_to_child_list
    <3>2. Len(clist') = 1 /\ clist'[1].exitcode = c /\ clist'[1].pid = c
      BY <3>1
    <3> QED
      BY <2>3, <3>2 DEF AloneOnList
  <2>5. CASE clist # <<>>
    <3> DEFINE a == Append(clist, [pid |-> c, exitcode |-> Garbage])
               z == [a EXCEPT ![1].exitcode = c]
    <3>1. clist' = z
      BY <2>2, <2>5 DEF add_to_child_list
    <3>2. PICK n \in Nat : n = Len(clist) /\ n >= 1
      BY <2>5 DEF Types
    <3>3. \A i \in 1 .. n : clist[i] \in Entry
      BY <3>2 DEF Types
    <3>4. Len(a) = n + 1 /\ a[n + 1].pid = c /\ \A i \in 1 .. n : a[i] = clist[i]
      BY <3>2 DEF Types
    <3>5. Len(z) = n + 1 /\ \A i \in 1 .. n + 1 : z[i].pid = a[i].pid
      <4>1. [pid |-> c, exitcode |-> Garbage] \in Entry
        BY DEF Entry
      <4>2. a \in Seq(Entry) /\ a[1] \in Entry
        BY <3>2, <3>3, <3>4, <4>1 DEF Types
      <4> DEFINE e == [a[1] EXCEPT !.exitcode = c]
      <4>3. e.pid = a[1].pid
        BY <4>2 DEF Entry
      <4>4. z = [a EXCEPT ![1] = e]
        OBVIOUS
      <4> HIDE DEF a, e, z
      <4> QED
        BY <3>2, <3>4, <4>2, <4>3, <4>4
    <3>6. \A i \in 1 .. n : clist[i].pid \in crowded'
      <4>1. DOMAIN clist = 1 .. n
        BY <3>2 DEF Types
      <4> QED
        BY <2>2, <2>5, <4>1
    <3>7. c \in crowded'
      BY <2>2, <2>5
    <3> HIDE DEF z, a
    <3>8. \A i \in 1 .. n + 1 : i = n + 1 \/ i \in 1 .. n
      BY <3>2
    <3>9. \A i \in 1 .. n + 1 : z[i].pid \in crowded'
      BY <3>4, <3>5, <3>6, <3>7, <3>8
    <3> QED
      BY <2>3, <3>1, <3>5, <3>9 DEF AloneOnList
  <2> QED
    BY <2>4, <2>5
<1>2. CASE \E t \in Threads : Reap(t) /\ clist # <<>>
  <2>1. /\ clist # <<>> /\ clist' = Tail(clist) /\ crowded' = crowded
        /\ child' = [child EXCEPT ![Head(clist).pid] = "reaped"]
        /\ status' = [status EXCEPT ![Head(clist).pid] = Head(clist).exitcode]
    BY <1>2 DEF Reap
  <2>2. PICK n \in Nat : n = Len(clist) /\ n >= 1
    BY <2>1 DEF Types
  <2>3. Head(clist) = clist[1] /\ Len(Tail(clist)) = n - 1 /\ \A i \in 1 .. n - 1 : Tail(clist)[i] = clist[i + 1]
    BY <2>1, <2>2 DEF Types
  <2>4. AloneOnList'
    <3> SUFFICES ASSUME NEW i \in 1 .. n - 1, clist[i + 1].pid \notin crowded PROVE FALSE
      BY <2>1, <2>3 DEF AloneOnList
    <3>1. i + 1 \in 1 .. n
      BY <2>2
    <3>2. n = 1
      BY <2>2, <3>1 DEF AloneOnList
    <3> QED
      BY <3>2
  <2>5. OwnCodeWhenAlone'
    <3>1. clist[1].pid \notin crowded => clist[1].exitcode = clist[1].pid
      BY <2>2 DEF AloneOnList
    <3>2. clist[1] \in Entry
      BY <2>2 DEF Types
    <3> QED
      BY <2>1, <2>3, <3>1, <3>2 DEF OwnCodeWhenAlone, Types, Entry
  <2> QED
    BY <2>4, <2>5
<1>3. ASSUME clist' = clist, crowded' = crowded, status' = status,
             \A c \in Children : child'[c] = "reaped" => child[c] = "reaped"
      PROVE  AloneOnList' /\ OwnCodeWhenAlone'
  BY <1>3 DEF AloneOnList, OwnCodeWhenAlone
<1>4. CASE \E c \in Children : Start(c) \/ End(c) \/ Resume(c)
  BY <1>3, <1>4 DEF Start, End, Resume, Types
<1>5. CASE UNCHANGED mem
  BY <1>3, <1>5 DEF mem
<1>6. CASE \E t \in Threads : Reap(t) /\ clist = <<>>
  BY <1>3, <1>6 DEF Reap
<1>7. CASE Shell
  BY <1>4, <1>5, <1>7 DEF Shell, child_block, child_unblock, WaitJob, Reblock, Suspending, SuspendMask,
                          Woken, ResetEvent, Awake, RestoreMask
<1>8. CASE \E t \in Threads : Handling(t)
  BY <1>2, <1>5, <1>6, <1>8 DEF Handling, Look, Clear, Generic, Keep, Wake, BlockAll, Unblock, Interrupt
<1>9. CASE Press
  BY <1>5, <1>9 DEF Press
<1>10. CASE UNCHANGED vars
  BY <1>5, <1>10 DEF vars, mem
<1> QED
  BY <1>1, <1>4, <1>7, <1>8, <1>9, <1>10, ThreadsDiffer DEF Next, Watcher

\* The exit code of a child that never shared the list with another is its own.
THEOREM CodeIsOwn ==
  Spec => []OwnCodeWhenAlone
<1>1. Init => AloneOnList /\ OwnCodeWhenAlone
  <2> SUFFICES ASSUME Init PROVE AloneOnList /\ OwnCodeWhenAlone
    OBVIOUS
  <2>1. clist = <<>> /\ child = [c \in Children |-> "none"]
    BY DEF Init
  <2> QED
    BY <2>1 DEF AloneOnList, OwnCodeWhenAlone
<1>2. IInv /\ AloneOnList /\ OwnCodeWhenAlone /\ [Next]_vars => (AloneOnList /\ OwnCodeWhenAlone)'
  BY CodesKept DEF IInv
<1> QED
  BY <1>1, <1>2, Invariance, PTL DEF Spec
=============================================================================
