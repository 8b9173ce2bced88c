----------------------------- MODULE SignalQueue -----------------------------
(***************************************************************************)
(* The shell's own signal queue (signals.h, signals.c:handler).            *)
(*                                                                         *)
(* A critical section of mem.c brackets itself with queue_signals() and    *)
(* unqueue_signals().  A signal caught inside is saved in a ring buffer    *)
(* with the mask it interrupted; leaving the outermost section replays     *)
(* what was saved.  The module follows the one thread of control of the    *)
(* shell through its stack of activations, so that a signal may interrupt  *)
(* any two steps of any of them: the program, a signal handler, or the     *)
(* replay loop itself.                                                     *)
(*                                                                         *)
(* The kernel (its pending set, and the mask it saves around a handler) is *)
(* external; it is modelled as sigaction with an empty sa_mask promises.   *)
(***************************************************************************)
EXTENDS Integers, Sequences, FiniteSets, SequencesExt

CONSTANTS
  Signals,         \* the signals the shell installed handler() for
  ChildSignal,     \* SIGCHLD, the one child_block() blocks
  MAX_QUEUE_SIZE,  \* slots of the ring (16 in signals.h)
  MaxRaised,       \* bound: how often one signal is raised
  MaxNesting,      \* bound: critical sections nested in one activation
  NoSignal         \* content of a ring slot never written

ASSUME QueueAssumption ==
  /\ MAX_QUEUE_SIZE \in Nat \ {0, 1}
  /\ MaxRaised \in Nat
  /\ MaxNesting \in Nat
  /\ ChildSignal \in Signals
  /\ NoSignal \notin Signals

VARIABLES
  queueing_enabled,
  queue_front,
  queue_rear,
  signal_queue,
  signal_mask_queue,
  procmask,        \* the process signal mask
  pending,         \* signals the kernel holds for the process
  frames,          \* the activation stack, the running one last
  raised,          \* per signal: times it was raised
  caught,          \* per signal: times the kernel entered handler() for it
  handled,         \* per signal: times the switch of handler() ran for it
  overrun          \* history: a replay loop stepped past queue_rear

ring   == <<queue_front, queue_rear, signal_queue, signal_mask_queue>>
kernel == <<pending, raised, caught>>
vars   == <<queueing_enabled, ring, procmask, frames, kernel, handled, overrun>>

Slots == 0 .. MAX_QUEUE_SIZE - 1

(***************************************************************************)
(* An activation.  "main" and a handler at "body" run program text: crit   *)
(* is the number of critical sections that text is in and want the mask it *)
(* set for itself.  saved is the mask put back when the activation ends:   *)
(* by the kernel for a handler it entered (async), by the replay loop for  *)
(* its own frame.                                                          *)
(***************************************************************************)
Frame == [kind  : {"main", "handler", "unqueue"},
          pc    : {"entry", "body", "test", "advance", "fetch", "call", "restore"},
          sig   : Signals \cup {NoSignal},
          async : BOOLEAN,
          saved : SUBSET Signals,
          want  : SUBSET Signals,
          crit  : 0 .. MaxNesting]

MainFrame == [kind |-> "main", pc |-> "body", sig |-> NoSignal, async |-> FALSE,
              saved |-> {}, want |-> {}, crit |-> 0]

UnqueueFrame == [kind |-> "unqueue", pc |-> "test", sig |-> NoSignal, async |-> FALSE,
                 saved |-> {}, want |-> {}, crit |-> 0]

HandlerFrame(s, async, saved) ==
  [kind |-> "handler", pc |-> "entry", sig |-> s, async |-> async,
   saved |-> saved, want |-> {}, crit |-> 0]

Top        == frames[Len(frames)]
Return     == frames' = SubSeq(frames, 1, Len(frames) - 1)
Call(f)    == frames' = Append(frames, f)
Become(f)  == frames' = [frames EXCEPT ![Len(frames)] = f]
Running(k, pc) == Top.kind = k /\ Top.pc = pc
IsProgram(f) == f.kind # "unqueue" /\ f.pc = "body"

\* The ring is empty; its indices are where earlier signals left them.
Init ==
  /\ queueing_enabled = 0
  /\ queue_front \in Slots
  /\ queue_rear = queue_front
  /\ signal_queue = [i \in Slots |-> NoSignal]
  /\ signal_mask_queue = [i \in Slots |-> {}]
  /\ procmask = {}
  /\ pending = {}
  /\ frames = <<MainFrame>>
  /\ raised = [s \in Signals |-> 0]
  /\ caught = [s \in Signals |-> 0]
  /\ handled = [s \in Signals |-> 0]
  /\ overrun = FALSE

-----------------------------------------------------------------------------
(* The kernel. *)

\* A signal becomes pending; one already pending is not counted twice.
Raise(s) ==
  /\ raised[s] < MaxRaised
  /\ raised' = [raised EXCEPT ![s] = @ + 1]
  /\ pending' = pending \cup {s}
  /\ UNCHANGED <<queueing_enabled, ring, procmask, frames, caught, handled, overrun>>

\* An unblocked pending signal interrupts whatever is running.  Its own signal
\* stays blocked until the handler returns (install_handler: sa_mask empty).
Deliver(s) ==
  /\ s \in pending \ procmask
  /\ pending' = pending \ {s}
  /\ Call(HandlerFrame(s, TRUE, procmask))
  /\ procmask' = procmask \cup {s}
  /\ caught' = [caught EXCEPT ![s] = @ + 1]
  /\ UNCHANGED <<queueing_enabled, ring, raised, handled, overrun>>

-----------------------------------------------------------------------------
(* handler(): signals.c.  signal_block(newmask) keeps every signal out     *)
(* from the first statement to the return or the signal_setmask(oldmask),  *)
(* so each outcome is one step; the step before it is interruptible.       *)

\* Queueing: save the signal and the mask it found, unless the ring is full.
\* The pre-increment of queue_rear is kept even when it is.
HandlerQueues ==
  /\ Running("handler", "entry")
  /\ queueing_enabled > 0
  /\ LET temp_rear == (queue_rear + 1) % MAX_QUEUE_SIZE IN
       IF temp_rear # queue_front
         THEN /\ queue_rear' = temp_rear
              /\ signal_queue' = [signal_queue EXCEPT ![temp_rear] = Top.sig]
              /\ signal_mask_queue' = [signal_mask_queue EXCEPT ![temp_rear] = procmask]
         ELSE /\ queue_rear' = queue_rear + 1
              /\ UNCHANGED <<signal_queue, signal_mask_queue>>
  /\ procmask' = IF Top.async THEN Top.saved ELSE Signals
  /\ Return
  /\ UNCHANGED <<queueing_enabled, queue_front, kernel, handled, overrun>>

\* Mutant: handler() without the test of queueing_enabled.
HandlerRuns_Untested ==
  /\ Running("handler", "entry")
  /\ Become([Top EXCEPT !.pc = "body", !.want = procmask])
  /\ handled' = [handled EXCEPT ![Top.sig] = @ + 1]
  /\ UNCHANGED <<queueing_enabled, ring, procmask, kernel, overrun>>

\* Not queueing: the mask goes back to oldmask and the switch runs.
HandlerRuns ==
  /\ Running("handler", "entry")
  /\ queueing_enabled = 0
  /\ Become([Top EXCEPT !.pc = "body", !.want = procmask])
  /\ handled' = [handled EXCEPT ![Top.sig] = @ + 1]
  /\ UNCHANGED <<queueing_enabled, ring, procmask, kernel, overrun>>

HandlerReturns ==
  /\ Running("handler", "body")
  /\ Top.crit = 0
  /\ procmask' = IF Top.async THEN Top.saved ELSE procmask
  /\ Return
  /\ UNCHANGED <<queueing_enabled, ring, kernel, handled, overrun>>

-----------------------------------------------------------------------------
(* Program text: the shell, or the trap and job code a handler runs. *)

queue_signals ==
  /\ IsProgram(Top)
  /\ Top.crit < MaxNesting
  /\ queueing_enabled' = queueing_enabled + 1
  /\ Become([Top EXCEPT !.crit = @ + 1])
  /\ UNCHANGED <<ring, procmask, kernel, handled, overrun>>

\* unqueue_signals(): only leaving the outermost section enters the loop.
unqueue_signals ==
  /\ IsProgram(Top)
  /\ Top.crit > 0
  /\ queueing_enabled' = queueing_enabled - 1
  /\ LET left == [Top EXCEPT !.crit = @ - 1] IN
       IF queueing_enabled = 1
         THEN frames' = Append([frames EXCEPT ![Len(frames)] = left], UnqueueFrame)
         ELSE Become(left)
  /\ UNCHANGED <<ring, procmask, kernel, handled, overrun>>

child_block ==
  /\ IsProgram(Top)
  /\ Top.crit = 0
  /\ procmask' = procmask \cup {ChildSignal}
  /\ Become([Top EXCEPT !.want = procmask'])
  /\ UNCHANGED <<queueing_enabled, ring, kernel, handled, overrun>>

child_unblock ==
  /\ IsProgram(Top)
  /\ Top.crit = 0
  /\ procmask' = procmask \ {ChildSignal}
  /\ Become([Top EXCEPT !.want = procmask'])
  /\ UNCHANGED <<queueing_enabled, ring, kernel, handled, overrun>>

-----------------------------------------------------------------------------
(* The replay loop of unqueue_signals(), one statement per step. *)

\* while (queue_front != queue_rear)
UnqueueEnds ==
  /\ Running("unqueue", "test")
  /\ queue_front = queue_rear
  /\ Return
  /\ UNCHANGED <<queueing_enabled, ring, procmask, kernel, handled, overrun>>

UnqueueGoesOn ==
  /\ Running("unqueue", "test")
  /\ queue_front # queue_rear
  /\ Become([Top EXCEPT !.pc = "advance"])
  /\ UNCHANGED <<queueing_enabled, ring, procmask, kernel, handled, overrun>>

\* Mutant: the increment is lost.
UnqueueAdvances_Stays ==
  /\ Running("unqueue", "advance")
  /\ queue_front' = queue_front % MAX_QUEUE_SIZE
  /\ overrun' = overrun
  /\ Become([Top EXCEPT !.pc = "fetch"])
  /\ UNCHANGED <<queueing_enabled, queue_rear, signal_queue, signal_mask_queue,
                 procmask, kernel, handled>>

\* queue_front = ++queue_front % MAX_QUEUE_SIZE: of the two stores the build's
\* compilers make the remainder the last one.  A handler that came after the test
\* may have replayed all there was: then the loop oversteps, and the ring counts
\* as full of what was replayed before.
UnqueueAdvances ==
  /\ Running("unqueue", "advance")
  /\ queue_front' = (queue_front + 1) % MAX_QUEUE_SIZE
  /\ overrun' = (overrun \/ queue_front = queue_rear)
  /\ Become([Top EXCEPT !.pc = "fetch"])
  /\ UNCHANGED <<queueing_enabled, queue_rear, signal_queue, signal_mask_queue,
                 procmask, kernel, handled>>

\* oset = signal_setmask(signal_mask_queue[queue_front])
UnqueueSetsMask ==
  /\ Running("unqueue", "fetch")
  /\ Become([Top EXCEPT !.pc = "call", !.saved = procmask])
  /\ procmask' = signal_mask_queue[queue_front]
  /\ UNCHANGED <<queueing_enabled, ring, kernel, handled, overrun>>

\* handler(signal_queue[queue_front])
UnqueueCalls ==
  /\ Running("unqueue", "call")
  /\ frames' = Append([frames EXCEPT ![Len(frames)].pc = "restore"],
                      HandlerFrame(signal_queue[queue_front], FALSE, {}))
  /\ UNCHANGED <<queueing_enabled, ring, procmask, kernel, handled, overrun>>

\* Mutants: the mask is not restored, or the loop is an `if'.
UnqueueRestoresMask_Forgets ==
  /\ Running("unqueue", "restore")
  /\ Become([Top EXCEPT !.pc = "test"])
  /\ UNCHANGED <<queueing_enabled, ring, procmask, kernel, handled, overrun>>

UnqueueRestoresMask_Once ==
  /\ Running("unqueue", "restore")
  /\ procmask' = Top.saved
  /\ Return
  /\ UNCHANGED <<queueing_enabled, ring, kernel, handled, overrun>>

\* signal_setmask(oset)
UnqueueRestoresMask ==
  /\ Running("unqueue", "restore")
  /\ procmask' = Top.saved
  /\ Become([Top EXCEPT !.pc = "test"])
  /\ UNCHANGED <<queueing_enabled, ring, kernel, handled, overrun>>

-----------------------------------------------------------------------------
Handler == HandlerQueues \/ HandlerRuns \/ HandlerReturns

Unqueue ==
  \/ UnqueueEnds \/ UnqueueGoesOn \/ UnqueueAdvances
  \/ UnqueueSetsMask \/ UnqueueCalls \/ UnqueueRestoresMask

Program == queue_signals \/ unqueue_signals \/ child_block \/ child_unblock

Next ==
  \/ \E s \in Signals : Raise(s) \/ Deliver(s)
  \/ Handler
  \/ Unqueue
  \/ Program

Spec == Init /\ [][Next]_vars

(***************************************************************************)
(* Fairness.  The process keeps running: the replay loop and the entry of  *)
(* a handler cannot be suspended for ever (WF).  A handler's program text  *)
(* ends, as the shell's own handlers do: it is not required to stop        *)
(* entering critical sections, hence SF on its return and on leaving them. *)
(***************************************************************************)
Fairness ==
  /\ WF_vars(Unqueue)
  /\ WF_vars(HandlerQueues \/ HandlerRuns)
  /\ SF_vars(HandlerReturns)
  /\ SF_vars(unqueue_signals)

FairSpec == Spec /\ Fairness

-----------------------------------------------------------------------------
(* Properties. *)

\* Types.  queue_rear is no slot number: handler() increments it before it takes the
\* remainder, keeps the increment when the ring is full, and does so again for each
\* signal that finds the ring full while the replay loop moves queue_front on.
TypeOK ==
  /\ queueing_enabled \in 0 .. MaxNesting
  /\ queue_front \in Slots
  /\ queue_rear \in Nat
  /\ signal_queue \in [Slots -> Signals \cup {NoSignal}]
  /\ signal_mask_queue \in [Slots -> SUBSET Signals]
  /\ procmask \in SUBSET Signals
  /\ pending \in SUBSET Signals
  /\ frames \in Seq(Frame) /\ frames # <<>>
  /\ raised \in [Signals -> 0 .. MaxRaised]
  /\ caught \in [Signals -> Nat]
  /\ handled \in [Signals -> Nat]
  /\ overrun \in BOOLEAN

\* No trap or job code ever runs on top of an activation that is inside a
\* critical section: what queue_signals() in mem.c is for.
CriticalSectionsUninterrupted ==
  \A i, j \in 1 .. Len(frames) :
    i < j /\ frames[j].kind = "handler" /\ frames[j].pc = "body" => frames[i].crit = 0

\* Whatever signals came and were queued, replayed or nested, program text
\* finds the process mask it set itself: child_block() stays in force, and no
\* signal stays blocked behind a handler's back.
ProgramKeepsItsMask == IsProgram(Top) => procmask = Top.want

\* The runs end where a replay loop has overstepped (the proofs do not).
NotOverrun == ~ overrun

Quiescent == Len(frames) = 1 /\ Top.crit = 0

Occurrences(f) == FoldFunctionOnSet(+, 0, f, Signals)

\* While the ring never overflows and no replay loop has overstepped, the handlers
\* that ran are as many as the signals caught once the shell is out of every
\* critical section, however the replays nest.
OneRunPerCatch == Quiescent /\ ~ overrun => Occurrences(handled) = Occurrences(caught)

\* Signals saved in the ring; queue_rear is taken modulo its size.
Queued == (queue_rear - queue_front) % MAX_QUEUE_SIZE

\* Outside critical sections what is saved is eventually replayed, and the
\* replay loop ends, unless it oversteps.
Drains ==
  (queueing_enabled = 0 /\ Top.kind = "unqueue")
    ~> (queueing_enabled > 0 \/ queue_front = queue_rear \/ overrun)

\* Only the replay loop takes saved signals out of the ring: the guard "Make
\* sure it's not full" drops the new signal, not the old ones.
OnlyReplayConsumes == [][Queued' < Queued => queue_front' # queue_front]_vars

\* Each signal is handled as often as it was caught: the ring "save[s] signals
\* caught during critical sections" and unqueue_signals "process[es] the queue".
EachCaughtIsHandled == Quiescent => handled = caught
=============================================================================
