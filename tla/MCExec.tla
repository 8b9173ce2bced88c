------------------------------- MODULE MCExec -------------------------------
(***************************************************************************)
(* Instances of Exec for TLC.  The variable shown always equals frames, so *)
(* that TLC computes the refinement mapping once for every state and not   *)
(* once for every occurrence in ControlFlow.                               *)
(***************************************************************************)
EXTENDS Exec

VARIABLE shown

MCInit == Init /\ shown = frames
MCNext ==
  /\ Next
  /\ shown' = FramesOf(stack', pc', breaks', contflag', retflag', errflag')
MCSpec == MCInit /\ [][MCNext]_<<vars, setup, shown>> /\ Fairness

Promise == INSTANCE ControlFlow WITH frames <- shown

\* What the flags bring about is what the manual says of the constructs:
\* break, continue, return and an interrupt leave at once what they are to
\* leave, and nothing that has been left executes anything again (loop.c,
\* execlist and doshfunc in exec.c, bin_break in builtin.c).
StructuredControl == Promise!Spec

\* Loops, and functions called for traps, nest three deep; everything else is one of the two outermost.
MCSetups ==
  LET nested == [k \in {"for"} |-> 3]
                @@ [k \in {"fun", "while", "until", "select", "if", "case", "eval", "source"} |-> 2]
      deep == [k \in {"for", "fun"} |-> 3] @@ [k \in {"while", "if", "source"} |-> 2]
  IN  {\* ERREXIT with a trap for failing commands, and pipelines that are negated
       [ERREXIT |-> TRUE, Negates |-> TRUE, ZERR |-> "list", DEBUG |-> "none", ExitTraps |-> {"function"}, Depth |-> nested],
       \* a trap before every command, which runs while a jump is pending
       [ERREXIT |-> FALSE, Negates |-> FALSE, ZERR |-> "none", DEBUG |-> "list", ExitTraps |-> {}, Depth |-> deep]}
=============================================================================
