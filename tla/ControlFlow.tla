---------------------------- MODULE ControlFlow ----------------------------
(***************************************************************************)
(* What the manual promises of the shell's control flow.  The constructs   *)
(* that are being executed form a stack; a command is executed in the      *)
(* innermost of them, and break, continue, return and an interrupt leave   *)
(* constructs at once, however deep they are nested.  Nothing is said here *)
(* of the flags by which the program brings this about: Exec, which has    *)
(* them, implements this module.                                           *)
(***************************************************************************)
EXTENDS Integers, Sequences, FiniteSets

VARIABLES
  frames,   \* what is being executed, the shell itself first
  cmd       \* the command executed last: its name and its argument

Kinds == {"loop", "block", "fun", "source", "trap"}

Ran == [op |-> "run", n |-> 0]

Before(f, i) == SubSeq(f, 1, i - 1)

\* break and continue see the loops of the script being read, not those
\* around the command that reads it.
LoopsOf(f) ==
  {i \in DOMAIN f : f[i] = "loop" /\ \A j \in i .. Len(f) : f[j] # "source"}

NthLoop(f, n) ==
  CHOOSE i \in LoopsOf(f) : Cardinality({j \in LoopsOf(f) : j >= i}) = n

Callers(f) == {i \in DOMAIN f : f[i] \in {"fun", "source"}}

Innermost(S) == CHOOSE i \in S : \A j \in S : j <= i

Capped(f, n) == IF n > Cardinality(LoopsOf(f)) THEN Cardinality(LoopsOf(f)) ELSE n

AfterBreak(f, n) ==
  IF Capped(f, n) = 0 THEN f ELSE Before(f, NthLoop(f, Capped(f, n)))

AfterContinue(f, n) ==
  IF Capped(f, n) = 0 THEN f ELSE SubSeq(f, 1, NthLoop(f, Capped(f, n)))

AfterReturn(f) ==
  IF Callers(f) = {} THEN SubSeq(f, 1, 1) ELSE Before(f, Innermost(Callers(f)))

AfterInterrupt(f) == AfterBreak(f, Cardinality(LoopsOf(f)))

----------------------------------------------------------------------------
Init == frames = <<"top">> /\ cmd = Ran

Run == frames' = frames /\ cmd' = Ran

\* A construct is entered by a command, or a trap by the shell itself.
Enter(k) ==
  /\ frames' = Append(frames, k)
  /\ cmd' \in {cmd, Ran}

\* A trap that is a function enters two.
EnterTrapFunction ==
  /\ frames' = frames \o <<"trap", "fun">>
  /\ UNCHANGED cmd

Leave ==
  /\ Len(frames) > 1
  /\ frames' = Before(frames, Len(frames))
  /\ UNCHANGED cmd

Break(n) ==
  /\ cmd' = [op |-> "break", n |-> n]
  /\ frames' = AfterBreak(frames, n)

Continue(n) ==
  /\ cmd' = [op |-> "continue", n |-> n]
  /\ frames' = AfterContinue(frames, n)

Return(v) ==
  /\ cmd' = [op |-> "return", n |-> v]
  /\ frames' = AfterReturn(frames)

Interrupt ==
  /\ cmd' = [op |-> "interrupt", n |-> 0]
  /\ frames' = AfterInterrupt(frames)

\* A trap that fails, or a trap function that returns a positive status,
\* interrupts what it was run in.
TrapInterrupts ==
  /\ frames # << >> /\ frames[Len(frames)] = "trap"
  /\ frames' = AfterInterrupt(Before(frames, Len(frames)))
  /\ UNCHANGED cmd

Halt ==
  /\ frames' = << >>
  /\ UNCHANGED cmd

\* exit and the ERR_EXIT option: the EXIT trap still runs where they strike.
Exit ==
  /\ cmd'.op \in {"exit", "errexit"}
  /\ frames' \in {frames, Append(frames, "trap"), << >>}

Next ==
  \/ Run \/ Leave \/ EnterTrapFunction \/ Interrupt \/ TrapInterrupts \/ Halt \/ Exit
  \/ \E k \in Kinds : Enter(k)
  \/ \E n \in 1 .. 9 : Break(n) \/ Continue(n)
  \/ \E v \in {0, 1} : Return(v)

Spec == Init /\ [][Next]_<<frames, cmd>>
=============================================================================
