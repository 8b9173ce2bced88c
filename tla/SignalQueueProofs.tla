-------------------------- MODULE SignalQueueProofs --------------------------
(***************************************************************************)
(* Proofs about the shell's signal queue: an inductive invariant of the    *)
(* activation stack; that critical sections are never interrupted and      *)
(* program text always finds its own mask, however many signals there are, *)
(* however large the ring, and whether or not it overflows; and that no    *)
(* signal is lost while the ring has room: every catch has been handled,   *)
(* is in the ring, or waits on the stack of activations, and somebody will *)
(* replay what is in the ring.  The counts of the last are sums over the   *)
(* signals, so its proof begins with what a fold adds up to.               *)
(***************************************************************************)
EXTENDS SignalQueue, SequenceTheorems, FiniteSetTheorems, NaturalsInduction,
        WellFoundedInduction, TLAPS

-----------------------------------------------------------------------------
(* The activation stack.                                                   *)

\* A sequence with one more element, one less, or another last one.
LEMMA Pushed ==
  ASSUME NEW S, NEW s \in Seq(S), NEW e \in S
  PROVE  /\ Append(s, e) \in Seq(S)
         /\ Len(s) \in Nat /\ Len(Append(s, e)) = Len(s) + 1
         /\ \A i \in 1 .. Len(s) : Append(s, e)[i] = s[i]
         /\ Append(s, e)[Len(s) + 1] = e
  BY AppendProperties, LenProperties

LEMMA Popped ==
  ASSUME NEW S, NEW s \in Seq(S), Len(s) > 1
  PROVE  /\ SubSeq(s, 1, Len(s) - 1) \in Seq(S)
         /\ Len(s) \in Nat /\ Len(SubSeq(s, 1, Len(s) - 1)) = Len(s) - 1
         /\ \A i \in 1 .. Len(s) - 1 : SubSeq(s, 1, Len(s) - 1)[i] = s[i]
<1> DEFINE n == Len(s) - 1
<1>1. Len(s) \in Nat /\ n \in 1 .. Len(s) /\ n \in Nat
  BY LenProperties
<1>2. \A i \in 1 .. n : s[i] \in S
  BY <1>1, ElementOfSeq
<1> HIDE DEF n
<1>3. /\ SubSeq(s, 1, n) \in Seq(S)
      /\ Len(SubSeq(s, 1, n)) = IF 1 <= n THEN n - 1 + 1 ELSE 0
      /\ \A i \in 1 .. n - 1 + 1 : SubSeq(s, 1, n)[i] = s[1 + i - 1]
  <2>1. 1 \in 1 .. Len(s) + 1 /\ n \in 0 .. Len(s)
    BY <1>1
  <2> QED BY <1>1, <1>2, <2>1, SubSeqProperties
<1>4. /\ Len(SubSeq(s, 1, n)) = n
      /\ \A i \in 1 .. n : SubSeq(s, 1, n)[i] = s[i]
  BY <1>1, <1>3
<1> QED BY <1>1, <1>3, <1>4 DEF n

LEMMA Replaced ==
  ASSUME NEW S, NEW s \in Seq(S), s # <<>>, NEW e \in S
  PROVE  /\ [s EXCEPT ![Len(s)] = e] \in Seq(S)
         /\ Len(s) \in Nat \ {0} /\ Len([s EXCEPT ![Len(s)] = e]) = Len(s)
         /\ \A i \in 1 .. Len(s) - 1 : [s EXCEPT ![Len(s)] = e][i] = s[i]
         /\ [s EXCEPT ![Len(s)] = e][Len(s)] = e
<1>1. Len(s) \in Nat \ {0}
  BY EmptySeq, LenProperties
<1>2. Len(s) \in 1 .. Len(s)
  BY <1>1
<1> QED BY <1>1, <1>2, ExceptSeq

-----------------------------------------------------------------------------
(* The inductive invariant.                                                *)

\* At most one activation is in a critical section, queueing_enabled is its depth
\* of nesting, and all that came after it are handlers that have not looked at
\* queueing_enabled yet.
OneSection ==
  \A i \in 1 .. Len(frames) : frames[i].crit > 0 =>
    /\ queueing_enabled = frames[i].crit
    /\ \A j \in i + 1 .. Len(frames) : frames[j].kind = "handler" /\ frames[j].pc = "entry"

\* queueing_enabled is never left behind by an activation that is gone.
QueueingForSection ==
  queueing_enabled > 0 => \E i \in 1 .. Len(frames) : frames[i].crit = queueing_enabled

\* Where an activation can be, and in which of them there are critical sections.
FrameShape(f) ==
  /\ f.kind = "main" => f.pc = "body" /\ ~ f.async
  /\ f.kind = "handler" => f.pc \in {"entry", "body"}
  /\ f.kind = "unqueue" => f.pc \in {"test", "advance", "fetch", "call", "restore"} /\ ~ f.async
  /\ f.crit > 0 => IsProgram(f)

\* f is what the kernel or the program may have started on top of g: a handler, by
\* the kernel or by the replay loop, or the replay loop.
CalledBy(g, f) ==
  \/ (f.kind = "handler" /\ f.async = TRUE)
  \/ (f.kind = "handler" /\ g.kind = "unqueue" /\ g.pc = "restore")
  \/ (f.kind = "unqueue" /\ IsProgram(g))

StackShape ==
  /\ \A i \in 1 .. Len(frames) : FrameShape(frames[i])
  /\ frames[1].kind = "main"
  /\ \A i \in 1 .. Len(frames) - 1 : CalledBy(frames[i], frames[i + 1])

\* The mask of the program text that the i-th activation is, or replays for; the
\* replay loop keeps it in oset while it changes the mask.
InForce(i) == IF frames[i].kind = "unqueue" THEN frames[i - 1].want ELSE frames[i].want
NeedsItsMask(f) ==
  IsProgram(f) \/ (f.kind = "unqueue" /\ f.pc \in {"test", "advance", "fetch"})
HoldsItsMask(f) == f.kind = "unqueue" /\ f.pc \in {"call", "restore"}

\* That mask is in force while the activation runs; and while it does not, it is
\* in oset or will be put back by the kernel.
MaskComesBack ==
  /\ NeedsItsMask(Top) => procmask = InForce(Len(frames))
  /\ \A i \in 1 .. Len(frames) :
       HoldsItsMask(frames[i]) => frames[i].saved = InForce(i)
  /\ \A i \in 1 .. Len(frames) - 1 :
       NeedsItsMask(frames[i]) /\ frames[i + 1].async = TRUE
         => frames[i + 1].saved = InForce(i)

IInv == TypeOK /\ StackShape /\ OneSection /\ QueueingForSection /\ MaskComesBack

\* The stack is never empty, and the first activation is the only "main".
LEMMA LastIndex == ASSUME NEW n \in Nat \ {0} PROVE n \in 1 .. n /\ (n > 1 \/ n = 1)
  OBVIOUS

LEMMA StackFacts ==
  ASSUME IInv
  PROVE  /\ frames \in Seq(Frame) /\ frames # <<>> /\ Len(frames) \in Nat \ {0}
         /\ \A i \in 1 .. Len(frames) : frames[i] \in Frame
         /\ Top \in Frame
         /\ Top.kind # "main" => Len(frames) > 1
<1>1. frames \in Seq(Frame) /\ frames # <<>> /\ Len(frames) \in Nat \ {0}
  BY EmptySeq, LenProperties DEF IInv, TypeOK
<1>2. \A i \in 1 .. Len(frames) : frames[i] \in Frame
  BY <1>1, ElementOfSeq
<1>3. Len(frames) \in 1 .. Len(frames) /\ (Len(frames) > 1 \/ Len(frames) = 1)
  BY <1>1, LastIndex
<1> QED BY <1>1, <1>2, <1>3 DEF IInv, StackShape, Top

\* The three ways in which the stack changes.
LEMMA BecomeStack ==
  ASSUME IInv, NEW f \in Frame, Become(f)
  PROVE  /\ frames' \in Seq(Frame) /\ frames' # <<>>
         /\ Len(frames') = Len(frames)
         /\ \A i \in 1 .. Len(frames) - 1 : frames'[i] = frames[i]
         /\ frames'[Len(frames)] = f
<1>1. /\ frames' \in Seq(Frame) /\ Len(frames') = Len(frames)
      /\ \A i \in 1 .. Len(frames) - 1 : frames'[i] = frames[i]
      /\ frames'[Len(frames)] = f
  BY StackFacts, Replaced DEF Become
<1> QED BY <1>1, StackFacts, EmptySeq

LEMMA CallStack ==
  ASSUME IInv, NEW f \in Frame, Call(f)
  PROVE  /\ frames' \in Seq(Frame) /\ frames' # <<>>
         /\ Len(frames') = Len(frames) + 1
         /\ \A i \in 1 .. Len(frames) : frames'[i] = frames[i]
         /\ frames'[Len(frames) + 1] = f
<1>1. /\ frames' \in Seq(Frame) /\ Len(frames') = Len(frames) + 1
      /\ \A i \in 1 .. Len(frames) : frames'[i] = frames[i]
      /\ frames'[Len(frames) + 1] = f
  BY StackFacts, Pushed DEF Call
<1> QED BY <1>1, StackFacts, EmptySeq

LEMMA ReplaceCallStack ==
  ASSUME IInv, NEW f \in Frame, NEW g \in Frame,
         frames' = Append([frames EXCEPT ![Len(frames)] = g], f)
  PROVE  /\ frames' \in Seq(Frame) /\ frames' # <<>>
         /\ Len(frames') = Len(frames) + 1
         /\ \A i \in 1 .. Len(frames) - 1 : frames'[i] = frames[i]
         /\ frames'[Len(frames)] = g
         /\ frames'[Len(frames) + 1] = f
<1> DEFINE s == [frames EXCEPT ![Len(frames)] = g]
<1>1. /\ s \in Seq(Frame) /\ Len(s) = Len(frames) /\ Len(frames) \in Nat \ {0}
      /\ \A i \in 1 .. Len(frames) - 1 : s[i] = frames[i]
      /\ s[Len(frames)] = g
  BY StackFacts, Replaced
<1> HIDE DEF s
<1>2. /\ Append(s, f) \in Seq(Frame) /\ Len(Append(s, f)) = Len(s) + 1
      /\ \A i \in 1 .. Len(s) : Append(s, f)[i] = s[i]
      /\ Append(s, f)[Len(s) + 1] = f
  BY <1>1, Pushed
<1>3. frames' = Append(s, f)
  BY DEF s
<1>4. \A i \in 1 .. Len(frames) - 1 : i \in 1 .. Len(frames)
  BY <1>1
<1>5. Len(frames) \in 1 .. Len(frames)
  BY <1>1, LastIndex
<1>6. /\ Len(frames') = Len(frames) + 1
      /\ \A i \in 1 .. Len(frames) : frames'[i] = s[i]
      /\ frames'[Len(frames) + 1] = f
  BY <1>1, <1>2, <1>3
<1>7. frames' \in Seq(Frame) /\ Len(frames') # 0
  <2>1. Len(frames) + 1 # 0
    BY <1>1
  <2> QED BY <1>2, <1>3, <1>6, <2>1
<1>8. frames' # <<>>
  BY <1>7, EmptySeq
<1> QED BY <1>1, <1>4, <1>5, <1>6, <1>7, <1>8

LEMMA ReturnStack ==
  ASSUME IInv, Top.kind # "main", Return
  PROVE  /\ frames' \in Seq(Frame) /\ frames' # <<>>
         /\ Len(frames) > 1 /\ Len(frames') = Len(frames) - 1
         /\ \A i \in 1 .. Len(frames) - 1 : frames'[i] = frames[i]
<1>1. /\ frames' \in Seq(Frame) /\ Len(frames) > 1 /\ Len(frames') = Len(frames) - 1
      /\ \A i \in 1 .. Len(frames) - 1 : frames'[i] = frames[i]
  BY StackFacts, Popped DEF Return
<1> QED BY <1>1, StackFacts, EmptySeq

\* The activations that are started.
LEMMA NewFrames ==
  ASSUME NEW s \in Signals \cup {NoSignal}, NEW async \in BOOLEAN, NEW saved \in SUBSET Signals
  PROVE  /\ HandlerFrame(s, async, saved) \in Frame
         /\ HandlerFrame(s, async, saved).kind = "handler"
         /\ HandlerFrame(s, async, saved).pc = "entry"
         /\ HandlerFrame(s, async, saved).async = async
         /\ HandlerFrame(s, async, saved).saved = saved
         /\ HandlerFrame(s, async, saved).crit = 0
         /\ UnqueueFrame \in Frame
         /\ UnqueueFrame.kind = "unqueue" /\ UnqueueFrame.pc = "test"
         /\ UnqueueFrame.async = FALSE /\ UnqueueFrame.crit = 0
<1>1. 0 \in 0 .. MaxNesting
  BY QueueAssumption
<1> QED BY <1>1 DEF Frame, HandlerFrame, UnqueueFrame

\* The kernel.
LEMMA InitInv == Init => IInv
<1> SUFFICES ASSUME Init PROVE IInv
  OBVIOUS
<1>1. MainFrame \in Frame
  BY QueueAssumption DEF MainFrame, Frame
<1>2. /\ frames \in Seq(Frame) /\ frames # <<>>
      /\ Len(frames) = 1 /\ frames[1] = MainFrame
  BY <1>1 DEF Init
<1>3. TypeOK
  <2>1. queueing_enabled \in 0 .. MaxNesting /\ queue_front \in Slots /\ queue_rear \in Nat
    <3>1. queueing_enabled = 0 /\ queue_front \in Slots /\ queue_rear = queue_front
      BY DEF Init
    <3> QED BY <3>1, QueueAssumption DEF Slots
  <2>2. /\ signal_queue \in [Slots -> Signals \cup {NoSignal}]
        /\ signal_mask_queue \in [Slots -> SUBSET Signals]
        /\ raised \in [Signals -> 0 .. MaxRaised]
        /\ caught \in [Signals -> Nat] /\ handled \in [Signals -> Nat]
    BY QueueAssumption DEF Init
  <2>3. overrun \in BOOLEAN /\ procmask \in SUBSET Signals /\ pending \in SUBSET Signals
    BY DEF Init
  <2> QED BY <1>2, <2>1, <2>2, <2>3 DEF TypeOK
<1>4. StackShape
  BY <1>2 DEF StackShape, FrameShape, MainFrame
<1>5. OneSection /\ QueueingForSection
  BY <1>2 DEF OneSection, QueueingForSection, Init, MainFrame
<1>6. MaskComesBack
  BY <1>2 DEF MaskComesBack, NeedsItsMask, HoldsItsMask, InForce, IsProgram, MainFrame, Init, Top
<1> QED BY <1>3, <1>4, <1>5, <1>6 DEF IInv

LEMMA RaiseInv ==
  ASSUME IInv, NEW s \in Signals, Raise(s)
  PROVE  IInv'
<1>1. UNCHANGED <<queueing_enabled, queue_front, queue_rear, signal_queue, signal_mask_queue,
                  procmask, frames, caught, handled, overrun>>
  BY DEF Raise, ring
<1>2. pending' \in SUBSET Signals /\ raised' \in [Signals -> 0 .. MaxRaised]
  <2>1. raised[s] + 1 \in 0 .. MaxRaised
    BY QueueAssumption DEF IInv, TypeOK, Raise
  <2> QED BY <2>1 DEF IInv, TypeOK, Raise
<1>3. TypeOK'
  BY <1>1, <1>2 DEF IInv, TypeOK, Slots
<1> QED
  BY <1>1, <1>3 DEF IInv, StackShape, OneSection, QueueingForSection, MaskComesBack, InForce, Top

LEMMA DeliverInv ==
  ASSUME IInv, NEW s \in Signals, Deliver(s)
  PROVE  IInv'
<1>0. PICK n \in Nat \ {0} : n = Len(frames)
  BY StackFacts
<1> DEFINE f == HandlerFrame(s, TRUE, procmask)
<1>1. /\ f \in Frame /\ f.kind = "handler" /\ f.pc = "entry" /\ f.async = TRUE
      /\ f.saved = procmask /\ f.crit = 0
  <2>1. procmask \in SUBSET Signals /\ TRUE \in BOOLEAN /\ s \in Signals \cup {NoSignal}
    BY DEF IInv, TypeOK
  <2>2. HandlerFrame(s, TRUE, procmask) \in Frame
    BY <2>1, NewFrames
  <2> QED BY <2>2 DEF HandlerFrame
<1>2. /\ n \in Nat \ {0} /\ n \in 1 .. n /\ Top = frames[n]
      /\ \A i \in 1 .. n : frames[i] \in Frame
  BY <1>0, StackFacts, LastIndex DEF Top
<1>3. /\ frames' \in Seq(Frame) /\ frames' # <<>>
      /\ Len(frames') = n + 1
      /\ \A i \in 1 .. n : frames'[i] = frames[i]
      /\ frames'[n + 1] = f
  BY <1>0, <1>1, CallStack DEF Deliver
<1>4. /\ procmask' = procmask \cup {s} /\ pending' = pending \ {s}
      /\ caught' = [caught EXCEPT ![s] = @ + 1]
      /\ UNCHANGED <<queueing_enabled, queue_front, queue_rear, signal_queue,
                     signal_mask_queue, raised, handled, overrun>>
  BY DEF Deliver, ring
<1> HIDE DEF f
<1>5. TypeOK'
  BY <1>3, <1>4 DEF IInv, TypeOK, Slots
<1>6. StackShape'
  <2>1. FrameShape(f) /\ \A g : CalledBy(g, f)
    BY <1>1 DEF FrameShape, CalledBy
  <2>2. \A i \in 1 .. n + 1 : FrameShape(frames'[i])
    BY <1>0, <1>1, <1>2, <1>3, <2>1 DEF IInv, StackShape
  <2>3. \A i \in 1 .. n : CalledBy(frames'[i], frames'[i + 1])
    BY <1>0, <1>1, <1>2, <1>3, <2>1 DEF IInv, StackShape
  <2>4. Len(frames') = n + 1 /\ Len(frames') - 1 = n /\ frames'[1].kind = "main"
    BY <1>0, <1>2, <1>3 DEF IInv, StackShape
  <2> QED BY <2>2, <2>3, <2>4 DEF StackShape
<1>7. OneSection' /\ QueueingForSection'
  BY <1>0, <1>1, <1>2, <1>3, <1>4 DEF IInv, OneSection, QueueingForSection
<1>8. MaskComesBack'
  <2> USE DEF IsProgram, NeedsItsMask, HoldsItsMask
  <2>1. \A i \in 1 .. n : InForce(i)' = InForce(i)
    BY <1>0, <1>2, <1>3 DEF IInv, StackShape, InForce
  <2>2. ~ NeedsItsMask(Top')
    BY <1>1, <1>2, <1>3 DEF Top
  <2>3. \A i \in 1 .. n + 1 : HoldsItsMask(frames'[i]) => frames'[i].saved = InForce(i)'
    BY <1>0, <1>1, <1>2, <1>3, <2>1 DEF IInv, MaskComesBack
  <2>4. \A i \in 1 .. n : NeedsItsMask(frames'[i]) /\ frames'[i + 1].async = TRUE
                            => frames'[i + 1].saved = InForce(i)'
    BY <1>0, <1>1, <1>2, <1>3, <2>1 DEF IInv, MaskComesBack
  <2>5. Len(frames') = n + 1 /\ Len(frames') - 1 = n
    BY <1>2, <1>3
  <2> HIDE DEF IsProgram, NeedsItsMask, HoldsItsMask
  <2> QED BY <2>2, <2>3, <2>4, <2>5 DEF MaskComesBack
<1> QED BY <1>5, <1>6, <1>7, <1>8 DEF IInv
-----------------------------------------------------------------------------
(* Steps that replace the running activation, or end it.                   *)

\* The mask that program text under an activation finds does not depend on what
\* runs on top.
LEMMA InForceBelow ==
  ASSUME IInv, NEW n \in Nat, n < Len(frames) \/ (n = Len(frames) /\ frames'[n].kind = frames[n].kind
                                                 /\ (frames[n].kind # "unqueue" => frames'[n].want = frames[n].want)),
         \A i \in 1 .. Len(frames) - 1 : frames'[i] = frames[i]
  PROVE  \A i \in 1 .. n : InForce(i)' = InForce(i)
<1>1. Len(frames) \in Nat \ {0} /\ frames[1].kind = "main"
  BY StackFacts DEF IInv, StackShape
<1>2. ASSUME NEW i \in 1 .. n PROVE InForce(i)' = InForce(i)
  <2>1. CASE i = 1
    BY <1>1, <1>2, <2>1 DEF InForce
  <2>2. CASE i # 1
    <3>1. frames'[i - 1] = frames[i - 1]
      BY <1>1, <1>2, <2>2
    <3>2. frames'[i] = frames[i] \/ (i = n /\ n = Len(frames))
      BY <1>1, <1>2
    <3> QED BY <3>1, <3>2 DEF InForce
  <2> QED BY <2>1, <2>2
<1> QED BY <1>2

\* Another place, with its mask in force or in oset.
LEMMA BecomeInv ==
  ASSUME IInv, NEW f \in Frame, Become(f),
         f.kind = Top.kind, f.async = Top.async, f.async = TRUE => f.saved = Top.saved,
         FrameShape(f),
         f.kind # "unqueue" /\ NeedsItsMask(f) => procmask' = f.want,
         f.kind = "unqueue" /\ NeedsItsMask(f) => procmask' = InForce(Len(frames)),
         HoldsItsMask(f) => f.saved = InForce(Len(frames))
  PROVE  StackShape' /\ MaskComesBack'
<1>0. PICK n \in Nat \ {0} : n = Len(frames)
  BY StackFacts
<1>1. /\ n \in Nat \ {0} /\ n \in 1 .. n /\ Top = frames[n]
      /\ \A i \in 1 .. n : frames[i] \in Frame
  BY <1>0, StackFacts, LastIndex DEF Top
<1>2. /\ frames' \in Seq(Frame) /\ frames' # <<>>
      /\ Len(frames') = n
      /\ \A i \in 1 .. n - 1 : frames'[i] = frames[i]
      /\ frames'[n] = f
  BY <1>0, BecomeStack
<1>3. \A i \in 1 .. n - 1 : InForce(i)' = InForce(i)
  <2>1. n - 1 \in Nat /\ n - 1 < Len(frames)
    BY <1>0, <1>1
  <2> QED BY <1>2, <2>1, InForceBelow, <1>0
<1>4. f.kind = "unqueue" => InForce(n)' = InForce(n)
  <2>1. n \in Nat
    BY <1>1
  <2> QED BY <1>1, <1>2, <2>1, InForceBelow, <1>0
<1>5. StackShape'
  <2>1. \A i \in 1 .. n : FrameShape(frames'[i])
    BY <1>0, <1>1, <1>2 DEF IInv, StackShape
  <2>2. frames'[1].kind = "main"
    BY <1>1, <1>2 DEF IInv, StackShape
  <2>3. \A i \in 1 .. n - 1 : CalledBy(frames'[i], frames'[i + 1])
    <3>1. ASSUME NEW i \in 1 .. n - 1 PROVE CalledBy(frames[i], frames[i + 1])
      BY <1>0 DEF IInv, StackShape
    <3>2. ASSUME NEW i \in 1 .. n - 1 PROVE CalledBy(frames'[i], frames'[i + 1])
      <4>1. frames'[i] = frames[i] /\ CalledBy(frames[i], frames[i + 1])
        BY <1>2, <3>1
      <4>2. i + 1 \in 1 .. n /\ (i + 1 = n \/ i + 1 \in 1 .. n - 1)
        BY <1>0
      <4>3. frames'[i + 1].kind = frames[i + 1].kind /\ frames'[i + 1].async = frames[i + 1].async
        BY <1>1, <1>2, <4>2
      <4> QED BY <4>1, <4>3 DEF CalledBy
    <3> QED BY <3>2
  <2> QED BY <1>2, <2>1, <2>2, <2>3 DEF StackShape
<1>6. MaskComesBack'
  <2>1. NeedsItsMask(Top') => procmask' = InForce(n)'
    BY <1>0, <1>1, <1>2, <1>4 DEF Top, InForce
  <2>2. \A i \in 1 .. n : HoldsItsMask(frames'[i]) => frames'[i].saved = InForce(i)'
    BY <1>0, <1>1, <1>2, <1>3, <1>4 DEF IInv, MaskComesBack, HoldsItsMask
  <2>3. ASSUME NEW i \in 1 .. n - 1, NeedsItsMask(frames'[i]), frames'[i + 1].async = TRUE
        PROVE  frames'[i + 1].saved = InForce(i)'
    <3>1. frames[i + 1].async = TRUE /\ frames'[i + 1].saved = frames[i + 1].saved
      BY <1>1, <1>2, <2>3
    <3>2. frames[i + 1].saved = InForce(i)
      BY <1>0, <1>2, <2>3, <3>1 DEF IInv, MaskComesBack
    <3> QED BY <1>3, <3>1, <3>2
  <2> QED BY <1>2, <2>1, <2>2, <2>3 DEF MaskComesBack
<1> QED BY <1>5, <1>6

\* Its critical sections are the same, and a handler only gets past its entry
\* while there are none.
LEMMA BecomeSections ==
  ASSUME IInv, NEW f \in Frame, Become(f), f.crit = Top.crit,
         f.kind = Top.kind,
         f.pc = Top.pc \/ (Top.kind = "handler" /\ Top.pc = "entry" => queueing_enabled = 0),
         UNCHANGED queueing_enabled
  PROVE  OneSection' /\ QueueingForSection'
<1>0. PICK n \in Nat \ {0} : n = Len(frames)
  BY StackFacts
<1>1. /\ n \in Nat \ {0} /\ n \in 1 .. n /\ Top = frames[n]
      /\ \A i \in 1 .. n : frames[i] \in Frame
  BY <1>0, StackFacts, LastIndex DEF Top
<1>2. /\ Len(frames') = n
      /\ \A i \in 1 .. n - 1 : frames'[i] = frames[i]
      /\ frames'[n] = f
  BY <1>0, BecomeStack
<1>3. \A i \in 1 .. n : frames'[i].crit = frames[i].crit
  BY <1>1, <1>2
<1>4. QueueingForSection'
  BY <1>0, <1>2, <1>3 DEF IInv, QueueingForSection
<1>5. ASSUME NEW i \in 1 .. n, frames'[i].crit > 0, NEW j \in i + 1 .. n
      PROVE  frames'[j].kind = "handler" /\ frames'[j].pc = "entry"
  <2>1. /\ frames[j].kind = "handler" /\ frames[j].pc = "entry"
        /\ queueing_enabled = frames[i].crit /\ frames[i].crit > 0
    BY <1>0, <1>3, <1>5 DEF IInv, OneSection
  <2>2. CASE j = n
    BY <1>1, <1>2, <2>1, <2>2
  <2>3. CASE j # n
    BY <1>1, <1>2, <2>1, <2>3
  <2> QED BY <2>2, <2>3
<1>6. \A i \in 1 .. n : frames'[i].crit > 0 => queueing_enabled' = frames'[i].crit
  BY <1>0, <1>3 DEF IInv, OneSection
<1> QED BY <1>2, <1>4, <1>5, <1>6 DEF OneSection

\* Its end: the activation under it finds its mask.
LEMMA ReturnInv ==
  ASSUME IInv, Return, Top.kind # "main", Top.crit = 0, UNCHANGED queueing_enabled,
         NeedsItsMask(frames[Len(frames) - 1]) => procmask' = InForce(Len(frames) - 1)
  PROVE  /\ StackShape' /\ MaskComesBack' /\ OneSection' /\ QueueingForSection'
         /\ frames' \in Seq(Frame) /\ frames' # <<>>
<1>0. PICK n \in Nat \ {0} : n = Len(frames)
  BY StackFacts
<1>1. /\ n \in Nat \ {0} /\ n \in 1 .. n /\ Top = frames[n]
      /\ \A i \in 1 .. n : frames[i] \in Frame
  BY <1>0, StackFacts, LastIndex DEF Top
<1>2. /\ frames' \in Seq(Frame) /\ frames' # <<>>
      /\ n > 1 /\ Len(frames') = n - 1
      /\ \A i \in 1 .. n - 1 : frames'[i] = frames[i]
  BY <1>0, ReturnStack
<1>3. \A i \in 1 .. n - 1 : InForce(i)' = InForce(i)
  <2>1. n - 1 \in Nat /\ n - 1 < Len(frames)
    BY <1>0, <1>1
  <2> QED BY <1>2, <2>1, InForceBelow, <1>0
<1>4. n - 1 \in 1 .. n - 1 /\ n - 1 \in 1 .. n
  BY <1>0, <1>1, <1>2
<1>5. StackShape'
  BY <1>0, <1>1, <1>2, <1>4 DEF IInv, StackShape
<1>6. OneSection'
  BY <1>0, <1>1, <1>2 DEF IInv, OneSection
<1>7. QueueingForSection'
  <2> SUFFICES ASSUME queueing_enabled > 0
               PROVE  \E i \in 1 .. n - 1 : frames[i].crit = queueing_enabled
    BY <1>2 DEF QueueingForSection
  <2>1. PICK i \in 1 .. n : frames[i].crit = queueing_enabled
    BY <1>0 DEF IInv, QueueingForSection
  <2>2. i # n
    BY <1>1, <2>1
  <2> QED BY <1>1, <2>1, <2>2
<1>8. MaskComesBack'
  <2>1. NeedsItsMask(Top') => procmask' = InForce(n - 1)'
    BY <1>0, <1>2, <1>3, <1>4 DEF Top
  <2>2. \A i \in 1 .. n - 1 : HoldsItsMask(frames'[i]) => frames'[i].saved = InForce(i)'
    BY <1>0, <1>1, <1>2, <1>3 DEF IInv, MaskComesBack
  <2>3. ASSUME NEW i \in 1 .. (n - 1) - 1, NeedsItsMask(frames'[i]), frames'[i + 1].async = TRUE
        PROVE  frames'[i + 1].saved = InForce(i)'
    <3>1. i \in 1 .. n - 1 /\ i + 1 \in 1 .. n - 1
      BY <1>1, <1>2
    <3>2. frames[i + 1].saved = InForce(i)
      BY <1>0, <1>2, <2>3, <3>1 DEF IInv, MaskComesBack
    <3> QED BY <1>2, <1>3, <3>1, <3>2
  <2> QED BY <1>2, <2>1, <2>2, <2>3 DEF MaskComesBack
<1> QED BY <1>2, <1>5, <1>6, <1>7, <1>8

-----------------------------------------------------------------------------
(* handler().                                                              *)

\* What the kernel puts back behind a handler is the mask of what it interrupted.
LEMMA HandlerPutsBack ==
  ASSUME IInv, Top.kind = "handler", NEW m, procmask' = IF Top.async THEN Top.saved ELSE m
  PROVE  NeedsItsMask(frames[Len(frames) - 1]) => procmask' = InForce(Len(frames) - 1)
<1>0. PICK n \in Nat \ {0} : n = Len(frames)
  BY StackFacts
<1>1. n > 1 /\ Top = frames[n] /\ Top \in Frame /\ Top.async \in BOOLEAN
  BY <1>0, StackFacts DEF Top, Frame
<1>2. n - 1 \in 1 .. n - 1 /\ n - 1 + 1 = n
  BY <1>1
<1>3. CalledBy(frames[n - 1], Top)
  BY <1>0, <1>1, <1>2 DEF IInv, StackShape
<1>4. CASE Top.async = TRUE
  <2>1. NeedsItsMask(frames[n - 1]) => Top.saved = InForce(n - 1)
    BY <1>0, <1>1, <1>2, <1>4 DEF IInv, MaskComesBack
  <2> QED BY <1>0, <1>4, <2>1
<1>5. CASE Top.async = FALSE
  <2>1. ~ NeedsItsMask(frames[n - 1])
    BY <1>3, <1>5 DEF CalledBy, NeedsItsMask, IsProgram
  <2> QED BY <1>0, <2>1
<1> QED BY <1>1, <1>4, <1>5

LEMMA HandlerQueuesInv ==
  ASSUME IInv, HandlerQueues
  PROVE  IInv'
<1>1. Top \in Frame /\ Top.kind = "handler" /\ Top.pc = "entry"
  BY StackFacts DEF HandlerQueues, Running
<1>2. Top.crit = 0
  <2>1. FrameShape(Top) /\ Top.crit \in Nat
    BY <1>1, StackFacts, LastIndex, QueueAssumption DEF IInv, StackShape, Top, Frame
  <2> QED BY <1>1, <2>1 DEF FrameShape, IsProgram
<1>3. NeedsItsMask(frames[Len(frames) - 1]) => procmask' = InForce(Len(frames) - 1)
  BY <1>1, HandlerPutsBack DEF HandlerQueues
<1>4. /\ StackShape' /\ MaskComesBack' /\ OneSection' /\ QueueingForSection'
      /\ frames' \in Seq(Frame) /\ frames' # <<>>
  BY <1>1, <1>2, <1>3, ReturnInv DEF HandlerQueues
<1>5. TypeOK'
  <2> DEFINE temp_rear == (queue_rear + 1) % MAX_QUEUE_SIZE
  <2>1. temp_rear \in Slots /\ queue_rear + 1 \in Nat /\ temp_rear \in Nat
    BY QueueAssumption DEF IInv, TypeOK, Slots
  <2> HIDE DEF temp_rear
  <2>2. Top.sig \in Signals \cup {NoSignal} /\ Top.saved \in SUBSET Signals /\ Top.async \in BOOLEAN
    BY <1>1 DEF Frame
  <2>3. \/ /\ queue_rear' = temp_rear
           /\ signal_queue' = [signal_queue EXCEPT ![temp_rear] = Top.sig]
           /\ signal_mask_queue' = [signal_mask_queue EXCEPT ![temp_rear] = procmask]
        \/ /\ queue_rear' = queue_rear + 1
           /\ UNCHANGED <<signal_queue, signal_mask_queue>>
    BY DEF HandlerQueues, temp_rear
  <2>4. /\ queue_rear' \in Nat
        /\ signal_queue' \in [Slots -> Signals \cup {NoSignal}]
        /\ signal_mask_queue' \in [Slots -> SUBSET Signals]
    BY <2>1, <2>2, <2>3 DEF IInv, TypeOK
  <2>5. procmask' \in SUBSET Signals
    BY <2>2 DEF HandlerQueues
  <2>6. UNCHANGED <<queueing_enabled, queue_front, pending, raised, caught, handled, overrun>>
    BY DEF HandlerQueues, kernel
  <2> QED BY <1>4, <2>4, <2>5, <2>6 DEF IInv, TypeOK, Slots
<1> QED BY <1>4, <1>5 DEF IInv

LEMMA HandlerRunsInv ==
  ASSUME IInv, HandlerRuns
  PROVE  IInv'
<1> DEFINE f == [Top EXCEPT !.pc = "body", !.want = procmask]
<1>1. Top \in Frame /\ Top.kind = "handler" /\ Top.pc = "entry"
  BY StackFacts DEF HandlerRuns, Running
<1>2. procmask \in SUBSET Signals /\ queueing_enabled = 0
  BY DEF IInv, TypeOK, HandlerRuns
<1>3. /\ f \in Frame /\ f.kind = "handler" /\ f.pc = "body" /\ f.async = Top.async
      /\ f.saved = Top.saved /\ f.want = procmask /\ f.crit = Top.crit
  BY <1>1, <1>2 DEF Frame
<1>4. Become(f) /\ UNCHANGED <<queueing_enabled, procmask>>
  BY DEF HandlerRuns
<1> HIDE DEF f
<1>5. StackShape' /\ MaskComesBack'
  <2>1. FrameShape(f) /\ ~ HoldsItsMask(f)
    BY <1>3 DEF FrameShape, IsProgram, HoldsItsMask
  <2> QED BY <1>1, <1>3, <1>4, <2>1, BecomeInv
<1>6. OneSection' /\ QueueingForSection'
  BY <1>1, <1>2, <1>3, <1>4, BecomeSections
<1>7. TypeOK'
  <2>1. frames' \in Seq(Frame) /\ frames' # <<>>
    BY <1>3, <1>4, BecomeStack
  <2>2. handled' \in [Signals -> Nat]
    <3> DEFINE c == handled[Top.sig] + 1
    <3>1. handled \in [Signals -> Nat] /\ handled' = [handled EXCEPT ![Top.sig] = c]
      BY DEF HandlerRuns, IInv, TypeOK
    <3>2. Top.sig \in Signals => c \in Nat
      BY <3>1
    <3> HIDE DEF c
    <3> QED BY <3>1, <3>2
  <2>3. UNCHANGED <<queue_front, queue_rear, signal_queue, signal_mask_queue, pending, raised, caught, overrun>>
    BY DEF HandlerRuns, ring, kernel
  <2> QED BY <1>4, <2>1, <2>2, <2>3 DEF IInv, TypeOK, Slots
<1> QED BY <1>5, <1>6, <1>7 DEF IInv

LEMMA HandlerReturnsInv ==
  ASSUME IInv, HandlerReturns
  PROVE  IInv'
<1>1. Top \in Frame /\ Top.kind = "handler" /\ Top.crit = 0
  BY StackFacts DEF HandlerReturns, Running
<1>2. NeedsItsMask(frames[Len(frames) - 1]) => procmask' = InForce(Len(frames) - 1)
  BY <1>1, HandlerPutsBack DEF HandlerReturns
<1>3. /\ StackShape' /\ MaskComesBack' /\ OneSection' /\ QueueingForSection'
      /\ frames' \in Seq(Frame) /\ frames' # <<>>
  BY <1>1, <1>2, ReturnInv DEF HandlerReturns
<1>4. procmask' \in SUBSET Signals
  BY <1>1 DEF HandlerReturns, IInv, TypeOK, Frame
<1>5. UNCHANGED <<queueing_enabled, queue_front, queue_rear, signal_queue, signal_mask_queue,
                  pending, raised, caught, handled, overrun>>
  BY DEF HandlerReturns, ring, kernel
<1>6. TypeOK'
  BY <1>3, <1>4, <1>5 DEF IInv, TypeOK, Slots
<1> QED BY <1>3, <1>6 DEF IInv

-----------------------------------------------------------------------------
(* Program text.                                                           *)

\* While program text runs, queueing_enabled counts its own critical sections.
LEMMA OwnSections ==
  ASSUME IInv, IsProgram(Top)
  PROVE  /\ Top \in Frame /\ Top.crit \in 0 .. MaxNesting
         /\ queueing_enabled = Top.crit
         /\ \A i \in 1 .. Len(frames) - 1 : frames[i].crit = 0
<1>0. PICK n \in Nat \ {0} : n = Len(frames)
  BY StackFacts
<1>1. /\ n \in 1 .. n /\ Top = frames[n] /\ Top \in Frame
      /\ \A i \in 1 .. n : frames[i].crit \in Nat
  BY <1>0, StackFacts, QueueAssumption DEF Top, Frame
<1>2. ASSUME NEW i \in 1 .. n - 1 PROVE frames[i].crit = 0
  <2>1. n \in i + 1 .. n /\ i \in 1 .. n
    BY <1>0
  <2>2. frames[i].crit > 0 => Top.kind = "handler" /\ Top.pc = "entry"
    BY <1>0, <1>1, <2>1 DEF IInv, OneSection
  <2> QED BY <1>1, <2>1, <2>2 DEF IsProgram
<1>3. queueing_enabled = Top.crit
  <2>1. CASE Top.crit > 0
    BY <1>0, <1>1, <2>1 DEF IInv, OneSection
  <2>2. CASE Top.crit = 0
    <3>1. \A i \in 1 .. n : frames[i].crit = 0
      BY <1>0, <1>1, <1>2, <2>2
    <3>2. ~ (queueing_enabled > 0)
      BY <1>0, <3>1 DEF IInv, QueueingForSection
    <3> QED BY <2>2, <3>2, QueueAssumption DEF IInv, TypeOK
  <2> QED BY <1>1, <2>1, <2>2
<1> QED BY <1>0, <1>1, <1>2, <1>3 DEF Frame

LEMMA queue_signalsInv ==
  ASSUME IInv, queue_signals
  PROVE  IInv'
<1> DEFINE f == [Top EXCEPT !.crit = @ + 1]
<1>0. PICK n \in Nat \ {0} : n = Len(frames)
  BY StackFacts
<1>1. /\ IsProgram(Top) /\ Top \in Frame /\ queueing_enabled = Top.crit
      /\ Top.crit + 1 \in 0 .. MaxNesting /\ Top.crit + 1 > 0
      /\ \A i \in 1 .. n - 1 : frames[i].crit = 0
  BY <1>0, OwnSections, QueueAssumption DEF queue_signals
<1>2. /\ f \in Frame /\ f.kind = Top.kind /\ f.pc = Top.pc /\ f.async = Top.async
      /\ f.saved = Top.saved /\ f.want = Top.want /\ f.crit = Top.crit + 1
  BY <1>1 DEF Frame
<1>3. Become(f) /\ UNCHANGED procmask /\ queueing_enabled' = f.crit
  BY <1>1, <1>2 DEF queue_signals
<1> HIDE DEF f
<1>4. StackShape' /\ MaskComesBack'
  <2>1. IsProgram(f) /\ FrameShape(Top)
    BY <1>1, <1>2, StackFacts, LastIndex DEF IInv, StackShape, Top, IsProgram
  <2>2. FrameShape(f)
    BY <1>2, <2>1 DEF FrameShape
  <2>3. f.kind # "unqueue" /\ ~ HoldsItsMask(f)
    BY <2>1 DEF IsProgram, HoldsItsMask
  <2>4. procmask' = f.want
    BY <1>0, <1>1, <1>2, <1>3 DEF IInv, MaskComesBack, NeedsItsMask, InForce, IsProgram, Top
  <2> QED BY <1>1, <1>2, <1>3, <2>2, <2>3, <2>4, BecomeInv
<1>5. /\ frames' \in Seq(Frame) /\ frames' # <<>> /\ Len(frames') = n
      /\ \A i \in 1 .. n - 1 : frames'[i].crit = 0
      /\ frames'[n].crit = queueing_enabled'
  BY <1>0, <1>1, <1>2, <1>3, BecomeStack
<1>6. n \in 1 .. n /\ \A i \in 1 .. n : i \in 1 .. n - 1 \/ i = n
  OBVIOUS
<1>7. OneSection' /\ QueueingForSection'
  BY <1>5, <1>6 DEF OneSection, QueueingForSection
<1>8. TypeOK'
  <2>1. queueing_enabled' \in 0 .. MaxNesting
    BY <1>1, <1>2, <1>3
  <2>2. UNCHANGED <<queue_front, queue_rear, signal_queue, signal_mask_queue, pending, raised, caught, handled, overrun>>
    BY DEF queue_signals, ring, kernel
  <2> QED BY <1>3, <1>5, <2>1, <2>2 DEF IInv, TypeOK, Slots
<1> QED BY <1>4, <1>7, <1>8 DEF IInv

LEMMA unqueue_signalsInv ==
  ASSUME IInv, unqueue_signals
  PROVE  IInv'
<1> DEFINE f == [Top EXCEPT !.crit = @ - 1]
<1>0. PICK n \in Nat \ {0} : n = Len(frames)
  BY StackFacts
<1>1. /\ IsProgram(Top) /\ Top \in Frame /\ queueing_enabled = Top.crit
      /\ Top.crit - 1 \in 0 .. MaxNesting
      /\ \A i \in 1 .. n - 1 : frames[i].crit = 0
  BY <1>0, OwnSections, QueueAssumption DEF unqueue_signals
<1>2. /\ f \in Frame /\ f.kind = Top.kind /\ f.pc = Top.pc /\ f.async = Top.async
      /\ f.saved = Top.saved /\ f.want = Top.want /\ f.crit = Top.crit - 1
  BY <1>1 DEF Frame
<1>3. /\ UNCHANGED procmask /\ queueing_enabled' = f.crit
      /\ \/ queueing_enabled = 1 /\ frames' = Append([frames EXCEPT ![Len(frames)] = f], UnqueueFrame)
         \/ Become(f)
  BY <1>1, <1>2 DEF unqueue_signals
<1> HIDE DEF f
<1>4. /\ IsProgram(f) /\ FrameShape(f) /\ f.kind # "unqueue" /\ ~ HoldsItsMask(f)
      /\ procmask = f.want
  <2>1. FrameShape(Top)
    BY StackFacts, LastIndex DEF IInv, StackShape, Top
  <2>2. procmask = f.want
    BY <1>0, <1>1, <1>2 DEF IInv, MaskComesBack, NeedsItsMask, InForce, IsProgram, Top
  <2> QED BY <1>1, <1>2, <2>1, <2>2 DEF IsProgram, HoldsItsMask, FrameShape
<1>5. UNCHANGED <<queue_front, queue_rear, signal_queue, signal_mask_queue, pending, raised, caught, handled, overrun>>
  BY DEF unqueue_signals, ring, kernel
<1>6. queueing_enabled' \in 0 .. MaxNesting
  BY <1>1, <1>2, <1>3
<1>7. n \in 1 .. n /\ \A i \in 1 .. n : i \in 1 .. n - 1 \/ i = n
  OBVIOUS
<1>8. CASE Become(f)
  <2>1. StackShape' /\ MaskComesBack'
    BY <1>1, <1>2, <1>3, <1>4, <1>8, BecomeInv
  <2>2. /\ frames' \in Seq(Frame) /\ frames' # <<>> /\ Len(frames') = n
        /\ \A i \in 1 .. n - 1 : frames'[i].crit = 0
        /\ frames'[n].crit = queueing_enabled'
    BY <1>0, <1>1, <1>2, <1>3, <1>8, BecomeStack
  <2>3. OneSection' /\ QueueingForSection'
    BY <1>7, <2>2 DEF OneSection, QueueingForSection
  <2>4. TypeOK'
    BY <1>3, <1>5, <1>6, <2>2 DEF IInv, TypeOK, Slots
  <2> QED BY <2>1, <2>3, <2>4 DEF IInv
<1>9. CASE queueing_enabled = 1 /\ frames' = Append([frames EXCEPT ![Len(frames)] = f], UnqueueFrame)
  <2>1. /\ UnqueueFrame \in Frame /\ UnqueueFrame.kind = "unqueue" /\ UnqueueFrame.pc = "test"
        /\ UnqueueFrame.async = FALSE /\ UnqueueFrame.crit = 0
    BY QueueAssumption, NewFrames DEF UnqueueFrame
  <2>2. /\ frames' \in Seq(Frame) /\ frames' # <<>> /\ Len(frames') = n + 1
        /\ \A i \in 1 .. n - 1 : frames'[i] = frames[i]
        /\ frames'[n] = f /\ frames'[n + 1] = UnqueueFrame
    BY <1>0, <1>2, <1>9, <2>1, ReplaceCallStack
  <2>3. queueing_enabled' = 0 /\ \A i \in 1 .. n + 1 : frames'[i].crit = 0
    <3>1. queueing_enabled' = 0 /\ f.crit = 0
      BY <1>1, <1>2, <1>3, <1>9
    <3>2. \A i \in 1 .. n + 1 : i \in 1 .. n - 1 \/ i = n \/ i = n + 1
      OBVIOUS
    <3> QED BY <1>1, <2>1, <2>2, <3>1, <3>2
  <2>4. OneSection' /\ QueueingForSection'
    BY <2>2, <2>3 DEF OneSection, QueueingForSection
  <2>5. TypeOK'
    BY <1>3, <1>5, <1>6, <2>2 DEF IInv, TypeOK, Slots
  <2>6. \A i \in 1 .. n : InForce(i)' = InForce(i)
    BY <1>0, <1>2, <2>2, InForceBelow DEF Top
  <2>7. StackShape'
    <3>1. \A i \in 1 .. n + 1 : FrameShape(frames'[i])
      <4>1. FrameShape(UnqueueFrame)
        BY <2>1 DEF FrameShape
      <4>2. \A i \in 1 .. n + 1 : i \in 1 .. n - 1 \/ i = n \/ i = n + 1
        OBVIOUS
      <4> QED BY <1>0, <1>4, <2>2, <4>1, <4>2 DEF IInv, StackShape
    <3>2. frames'[1].kind = "main"
      BY <1>0, <1>2, <2>2 DEF IInv, StackShape, Top
    <3>3. ASSUME NEW i \in 1 .. n PROVE CalledBy(frames'[i], frames'[i + 1])
      <4>1. CASE i = n
        BY <1>4, <2>1, <2>2, <4>1 DEF CalledBy
      <4>2. CASE i # n
        <5>1. i \in 1 .. n - 1 /\ CalledBy(frames[i], frames[i + 1]) /\ frames'[i] = frames[i]
          BY <1>0, <2>2, <4>2 DEF IInv, StackShape
        <5>2. i + 1 = n \/ i + 1 \in 1 .. n - 1
          BY <4>2
        <5>3. frames'[i + 1].kind = frames[i + 1].kind /\ frames'[i + 1].async = frames[i + 1].async
          BY <1>0, <1>2, <2>2, <5>2 DEF Top
        <5> QED BY <5>1, <5>3 DEF CalledBy
      <4> QED BY <4>1, <4>2
    <3>4. Len(frames') = n + 1 /\ Len(frames') - 1 = n
      BY <2>2
    <3> QED BY <3>1, <3>2, <3>3, <3>4 DEF StackShape
  <2>8. MaskComesBack'
    <3>1. procmask' = InForce(n + 1)'
      BY <1>3, <1>4, <2>1, <2>2 DEF InForce
    <3>2. \A i \in 1 .. n + 1 : HoldsItsMask(frames'[i]) => frames'[i].saved = InForce(i)'
      <4>1. ASSUME NEW i \in 1 .. n - 1, HoldsItsMask(frames'[i]) PROVE frames'[i].saved = InForce(i)'
        BY <1>0, <2>2, <2>6, <4>1 DEF IInv, MaskComesBack
      <4>2. ~ HoldsItsMask(frames'[n]) /\ ~ HoldsItsMask(frames'[n + 1])
        BY <1>4, <2>1, <2>2 DEF HoldsItsMask
      <4>3. \A i \in 1 .. n + 1 : i \in 1 .. n - 1 \/ i = n \/ i = n + 1
        OBVIOUS
      <4> QED BY <4>1, <4>2, <4>3
    <3>3. ASSUME NEW i \in 1 .. n, NeedsItsMask(frames'[i]), frames'[i + 1].async = TRUE
          PROVE  frames'[i + 1].saved = InForce(i)'
      <4>1. i # n /\ i \in 1 .. n - 1
        BY <2>1, <2>2, <3>3
      <4>2. i + 1 = n \/ i + 1 \in 1 .. n - 1
        BY <4>1
      <4>3. frames'[i + 1].saved = frames[i + 1].saved /\ frames'[i + 1].async = frames[i + 1].async
        BY <1>0, <1>2, <2>2, <4>2 DEF Top
      <4> QED BY <1>0, <2>2, <2>6, <3>3, <4>1, <4>3 DEF IInv, MaskComesBack
    <3>4. Len(frames') = n + 1 /\ Len(frames') - 1 = n
      BY <2>2
    <3> QED BY <3>1, <3>2, <3>3, <3>4 DEF MaskComesBack
  <2> QED BY <2>4, <2>5, <2>7, <2>8 DEF IInv
<1> QED BY <1>3, <1>8, <1>9

\* child_block() and child_unblock(): program text outside critical sections sets
\* the mask, and means it.
LEMMA SetsMaskInv ==
  ASSUME IInv, NEW m \in SUBSET Signals, IsProgram(Top),
         procmask' = m, Become([Top EXCEPT !.want = m]),
         UNCHANGED <<queueing_enabled, ring, kernel, handled, overrun>>
  PROVE  IInv'
<1> DEFINE f == [Top EXCEPT !.want = m]
<1>1. Top \in Frame /\ FrameShape(Top)
  BY StackFacts, LastIndex DEF IInv, StackShape, Top
<1>2. /\ f \in Frame /\ f.kind = Top.kind /\ f.pc = Top.pc /\ f.async = Top.async
      /\ f.saved = Top.saved /\ f.want = m /\ f.crit = Top.crit
  BY <1>1 DEF Frame
<1> HIDE DEF f
<1>3. Become(f)
  BY DEF f
<1>4. FrameShape(f) /\ f.kind # "unqueue" /\ ~ HoldsItsMask(f)
  BY <1>1, <1>2 DEF FrameShape, IsProgram, HoldsItsMask
<1>5. StackShape' /\ MaskComesBack'
  BY <1>2, <1>3, <1>4, BecomeInv
<1>6. OneSection' /\ QueueingForSection'
  BY <1>2, <1>3, BecomeSections
<1>7. frames' \in Seq(Frame) /\ frames' # <<>>
  BY <1>2, <1>3, BecomeStack
<1>8. UNCHANGED <<queueing_enabled, queue_front, queue_rear, signal_queue, signal_mask_queue,
                  pending, raised, caught, handled, overrun>>
  BY DEF ring, kernel
<1>9. TypeOK'
  BY <1>7, <1>8 DEF IInv, TypeOK, Slots
<1> QED BY <1>5, <1>6, <1>9 DEF IInv

LEMMA child_blockInv ==
  ASSUME IInv, child_block \/ child_unblock
  PROVE  IInv'
<1>1. PICK m \in SUBSET Signals :
        procmask' = m /\ Become([Top EXCEPT !.want = m])
  BY QueueAssumption DEF child_block, child_unblock, IInv, TypeOK
<1> QED BY <1>1, SetsMaskInv DEF child_block, child_unblock

-----------------------------------------------------------------------------
(* The replay loop.                                                        *)

LEMMA UnqueueEndsInv ==
  ASSUME IInv, UnqueueEnds
  PROVE  IInv'
<1>0. PICK n \in Nat \ {0} : n = Len(frames)
  BY StackFacts
<1>1. /\ Top \in Frame /\ Top.kind = "unqueue" /\ Top.pc = "test"
      /\ Top = frames[n] /\ n > 1 /\ n \in 1 .. n
  BY <1>0, StackFacts, LastIndex DEF UnqueueEnds, Running, Top
<1>2. Top.crit = 0
  BY <1>0, <1>1, QueueAssumption DEF IInv, StackShape, FrameShape, IsProgram, Frame
<1>3. IsProgram(frames[n - 1])
  <2>1. n - 1 \in 1 .. n - 1 /\ n - 1 + 1 = n
    BY <1>1
  <2>2. CalledBy(frames[n - 1], Top)
    BY <1>0, <1>1, <2>1 DEF IInv, StackShape
  <2> QED BY <1>1, <2>2 DEF CalledBy
<1>4. procmask = InForce(n) /\ InForce(n) = InForce(n - 1)
  BY <1>0, <1>1, <1>3 DEF IInv, MaskComesBack, NeedsItsMask, InForce, IsProgram, Top
<1>5. /\ StackShape' /\ MaskComesBack' /\ OneSection' /\ QueueingForSection'
      /\ frames' \in Seq(Frame) /\ frames' # <<>>
  BY <1>0, <1>1, <1>2, <1>4, ReturnInv DEF UnqueueEnds
<1>6. UNCHANGED <<queueing_enabled, queue_front, queue_rear, signal_queue, signal_mask_queue,
                  procmask, pending, raised, caught, handled, overrun>>
  BY DEF UnqueueEnds, ring, kernel
<1>7. TypeOK'
  BY <1>5, <1>6 DEF IInv, TypeOK, Slots
<1> QED BY <1>5, <1>7 DEF IInv

\* A step of the loop from one place to the next, with the mask in the process or
\* in oset.
LEMMA UnqueueStepInv ==
  ASSUME IInv, Top.kind = "unqueue", NEW pc \in {"test", "advance", "fetch", "call"},
         NEW saved \in SUBSET Signals,
         Become([Top EXCEPT !.pc = pc, !.saved = saved]),
         (IF pc = "call" THEN saved ELSE procmask') = InForce(Len(frames)),
         procmask' \in SUBSET Signals, queue_front' \in Slots,
         UNCHANGED <<queueing_enabled, queue_rear, signal_queue, signal_mask_queue, kernel, handled>>,
         overrun' \in BOOLEAN
  PROVE  IInv'
<1> DEFINE f == [Top EXCEPT !.pc = pc, !.saved = saved]
<1>1. Top \in Frame /\ FrameShape(Top) /\ Top.crit = 0
  BY StackFacts, LastIndex, QueueAssumption DEF IInv, StackShape, Top, FrameShape, IsProgram, Frame
<1>2. /\ f \in Frame /\ f.kind = Top.kind /\ f.pc = pc /\ f.async = Top.async
      /\ f.saved = saved /\ f.crit = Top.crit
  BY <1>1 DEF Frame
<1> HIDE DEF f
<1>3. Become(f)
  BY DEF f
<1>4. FrameShape(f) /\ f.async # TRUE
  BY <1>1, <1>2 DEF FrameShape, IsProgram
<1>5. /\ NeedsItsMask(f) => procmask' = InForce(Len(frames))
      /\ HoldsItsMask(f) => f.saved = InForce(Len(frames))
  BY <1>2 DEF NeedsItsMask, HoldsItsMask, IsProgram
<1>6. StackShape' /\ MaskComesBack'
  BY <1>2, <1>3, <1>4, <1>5, BecomeInv
<1>7. OneSection' /\ QueueingForSection'
  BY <1>2, <1>3, BecomeSections
<1>8. frames' \in Seq(Frame) /\ frames' # <<>>
  BY <1>2, <1>3, BecomeStack
<1>9. TypeOK'
  BY <1>8 DEF IInv, TypeOK, Slots, kernel
<1> QED BY <1>6, <1>7, <1>9 DEF IInv

LEMMA UnqueueGoesOnInv ==
  ASSUME IInv, UnqueueGoesOn
  PROVE  IInv'
<1>1. Top \in Frame /\ Top.kind = "unqueue" /\ Top.pc = "test"
  BY StackFacts DEF UnqueueGoesOn, Running
<1>2. procmask = InForce(Len(frames)) /\ procmask \in SUBSET Signals /\ Top.saved \in SUBSET Signals
  BY <1>1 DEF IInv, MaskComesBack, NeedsItsMask, TypeOK, Frame
<1>3. queue_front' \in Slots /\ overrun' \in BOOLEAN
  BY DEF UnqueueGoesOn, IInv, TypeOK, ring
<1>4. [Top EXCEPT !.pc = "advance"] = [Top EXCEPT !.pc = "advance", !.saved = Top.saved]
  BY <1>1 DEF Frame
<1>5. UNCHANGED <<queueing_enabled, queue_rear, signal_queue, signal_mask_queue, procmask, kernel, handled>>
  BY DEF UnqueueGoesOn, ring
<1> QED BY <1>1, <1>2, <1>3, <1>4, <1>5, UnqueueStepInv DEF UnqueueGoesOn

LEMMA UnqueueAdvancesInv ==
  ASSUME IInv, UnqueueAdvances
  PROVE  IInv'
<1>1. Top \in Frame /\ Top.kind = "unqueue" /\ Top.pc = "advance"
  BY StackFacts DEF UnqueueAdvances, Running
<1>2. procmask = InForce(Len(frames)) /\ procmask \in SUBSET Signals /\ Top.saved \in SUBSET Signals
  BY <1>1 DEF IInv, MaskComesBack, NeedsItsMask, TypeOK, Frame
<1>3. queue_front' \in Slots
  BY QueueAssumption DEF UnqueueAdvances, IInv, TypeOK, Slots
<1>4. [Top EXCEPT !.pc = "fetch"] = [Top EXCEPT !.pc = "fetch", !.saved = Top.saved]
  BY <1>1 DEF Frame
<1>5. overrun' \in BOOLEAN
  BY DEF UnqueueAdvances, IInv, TypeOK
<1> QED BY <1>1, <1>2, <1>3, <1>4, <1>5, UnqueueStepInv DEF UnqueueAdvances

LEMMA UnqueueSetsMaskInv ==
  ASSUME IInv, UnqueueSetsMask
  PROVE  IInv'
<1>1. Top \in Frame /\ Top.kind = "unqueue" /\ Top.pc = "fetch"
  BY StackFacts DEF UnqueueSetsMask, Running
<1>2. procmask = InForce(Len(frames)) /\ procmask \in SUBSET Signals
  BY <1>1 DEF IInv, MaskComesBack, NeedsItsMask, TypeOK
<1>3. procmask' \in SUBSET Signals /\ queue_front' \in Slots /\ overrun' \in BOOLEAN
  BY DEF UnqueueSetsMask, IInv, TypeOK, ring
<1>4. UNCHANGED <<queueing_enabled, queue_rear, signal_queue, signal_mask_queue, kernel, handled, overrun>>
  BY DEF UnqueueSetsMask, ring
<1>5. Become([Top EXCEPT !.pc = "call", !.saved = procmask])
  BY DEF UnqueueSetsMask
<1> QED BY <1>1, <1>2, <1>3, <1>4, <1>5, UnqueueStepInv

LEMMA UnqueueRestoresMaskInv ==
  ASSUME IInv, UnqueueRestoresMask
  PROVE  IInv'
<1>1. Top \in Frame /\ Top.kind = "unqueue" /\ Top.pc = "restore"
  BY StackFacts DEF UnqueueRestoresMask, Running
<1>2. Top.saved = InForce(Len(frames)) /\ Top.saved \in SUBSET Signals
  BY <1>1, StackFacts, LastIndex DEF IInv, MaskComesBack, HoldsItsMask, Top, Frame
<1>3. procmask' = Top.saved /\ queue_front' \in Slots /\ overrun' \in BOOLEAN
  BY DEF UnqueueRestoresMask, IInv, TypeOK, ring
<1>4. [Top EXCEPT !.pc = "test"] = [Top EXCEPT !.pc = "test", !.saved = Top.saved]
  BY <1>1 DEF Frame
<1>5. /\ UNCHANGED <<queueing_enabled, queue_rear, signal_queue, signal_mask_queue, kernel, handled, overrun>>
      /\ Become([Top EXCEPT !.pc = "test"])
  BY DEF UnqueueRestoresMask, ring
<1> QED BY <1>1, <1>2, <1>3, <1>4, <1>5, UnqueueStepInv

LEMMA UnqueueCallsInv ==
  ASSUME IInv, UnqueueCalls
  PROVE  IInv'
<1> DEFINE f == [Top EXCEPT !.pc = "restore"]
           h == HandlerFrame(signal_queue[queue_front], FALSE, {})
<1>0. PICK n \in Nat \ {0} : n = Len(frames)
  BY StackFacts
<1>1. /\ Top \in Frame /\ Top = frames[n] /\ n \in 1 .. n /\ n > 1
      /\ Top.kind = "unqueue" /\ Top.pc = "call" /\ FrameShape(Top)
  BY <1>0, StackFacts, LastIndex DEF UnqueueCalls, Running, Top, IInv, StackShape
<1>2. /\ f \in Frame /\ f.kind = "unqueue" /\ f.pc = "restore" /\ f.async = Top.async
      /\ f.saved = Top.saved /\ f.crit = Top.crit
  BY <1>1 DEF Frame
<1>3. h \in Frame /\ h.kind = "handler" /\ h.pc = "entry" /\ h.async = FALSE /\ h.crit = 0
  <2>1. signal_queue[queue_front] \in Signals \cup {NoSignal}
    BY DEF IInv, TypeOK
  <2>2. h \in Frame
    BY <2>1, NewFrames
  <2> QED BY <2>2 DEF HandlerFrame
<1>4. [frames EXCEPT ![Len(frames)].pc = "restore"] = [frames EXCEPT ![Len(frames)] = f]
  BY DEF Top
<1>5. frames' = Append([frames EXCEPT ![Len(frames)] = f], h)
  BY <1>4 DEF UnqueueCalls
<1> HIDE DEF f, h
<1>6. /\ frames' \in Seq(Frame) /\ frames' # <<>> /\ Len(frames') = n + 1
      /\ \A i \in 1 .. n - 1 : frames'[i] = frames[i]
      /\ frames'[n] = f /\ frames'[n + 1] = h
  BY <1>0, <1>2, <1>3, <1>5, ReplaceCallStack
<1>7. UNCHANGED <<queueing_enabled, queue_front, queue_rear, signal_queue, signal_mask_queue,
                  procmask, pending, raised, caught, handled, overrun>>
  BY DEF UnqueueCalls, ring, kernel
<1>8. TypeOK'
  BY <1>6, <1>7 DEF IInv, TypeOK, Slots
<1>9. \A i \in 1 .. n + 1 : i \in 1 .. n - 1 \/ i = n \/ i = n + 1
  OBVIOUS
<1>10. Len(frames') = n + 1 /\ Len(frames') - 1 = n
  BY <1>6
<1>11. Top.crit = 0
  BY <1>1, QueueAssumption DEF FrameShape, IsProgram, Frame
<1>12. OneSection' /\ QueueingForSection'
  <2>1. \A i \in 1 .. n : frames'[i].crit = frames[i].crit
    BY <1>0, <1>1, <1>2, <1>6, <1>9
  <2>2. QueueingForSection'
    BY <1>0, <1>7, <1>10, <2>1 DEF IInv, QueueingForSection
  <2>3. \A i \in 1 .. n + 1 : ~ (frames'[i].crit > 0)
    <3>1. \A i \in 1 .. n : ~ (frames[i].crit > 0)
      <4>1. ASSUME NEW i \in 1 .. n - 1, frames[i].crit > 0 PROVE FALSE
        <5>1. n \in i + 1 .. n
          BY <1>0
        <5> QED BY <1>0, <1>1, <4>1, <5>1 DEF IInv, OneSection
      <4> QED BY <1>1, <1>9, <1>11, <4>1
    <3> QED BY <1>3, <1>6, <1>9, <2>1, <3>1
  <2> QED BY <1>10, <2>2, <2>3 DEF OneSection
<1>13. StackShape'
  <2>1. FrameShape(f) /\ FrameShape(h)
    BY <1>1, <1>2, <1>3, <1>11 DEF FrameShape
  <2>2. \A i \in 1 .. n + 1 : FrameShape(frames'[i])
    BY <1>0, <1>6, <1>9, <2>1 DEF IInv, StackShape
  <2>3. frames'[1].kind = "main"
    BY <1>0, <1>1, <1>6 DEF IInv, StackShape
  <2>4. ASSUME NEW i \in 1 .. n PROVE CalledBy(frames'[i], frames'[i + 1])
    <3>1. CASE i = n
      BY <1>2, <1>3, <1>6, <3>1 DEF CalledBy
    <3>2. CASE i # n
      <4>1. i \in 1 .. n - 1 /\ CalledBy(frames[i], frames[i + 1]) /\ frames'[i] = frames[i]
        BY <1>0, <1>6, <3>2 DEF IInv, StackShape
      <4>2. i + 1 = n \/ i + 1 \in 1 .. n - 1
        BY <3>2
      <4>3. frames'[i + 1].kind = frames[i + 1].kind /\ frames'[i + 1].async = frames[i + 1].async
        BY <1>1, <1>2, <1>6, <4>2
      <4> QED BY <4>1, <4>3 DEF CalledBy
    <3> QED BY <3>1, <3>2
  <2> QED BY <1>10, <2>2, <2>3, <2>4 DEF StackShape
<1>14. MaskComesBack'
  <2>1. \A i \in 1 .. n : InForce(i)' = InForce(i)
    BY <1>0, <1>1, <1>2, <1>6, InForceBelow
  <2>2. ~ NeedsItsMask(frames'[n + 1]) /\ ~ HoldsItsMask(frames'[n + 1])
    BY <1>3, <1>6 DEF NeedsItsMask, HoldsItsMask, IsProgram
  <2>3. ~ NeedsItsMask(Top')
    BY <1>10, <2>2 DEF Top
  <2>4. frames'[n].saved = InForce(n)'
    BY <1>0, <1>1, <1>2, <1>6, <2>1 DEF IInv, MaskComesBack, HoldsItsMask
  <2>5. \A i \in 1 .. n - 1 : HoldsItsMask(frames'[i]) => frames'[i].saved = InForce(i)'
    BY <1>0, <1>6, <2>1 DEF IInv, MaskComesBack
  <2>6. \A i \in 1 .. n + 1 : HoldsItsMask(frames'[i]) => frames'[i].saved = InForce(i)'
    BY <1>9, <2>2, <2>4, <2>5
  <2>7. ASSUME NEW i \in 1 .. n, NeedsItsMask(frames'[i]), frames'[i + 1].async = TRUE
        PROVE  frames'[i + 1].saved = InForce(i)'
    <3>1. i # n /\ i \in 1 .. n - 1
      BY <1>3, <1>6, <2>7
    <3>2. i + 1 = n \/ i + 1 \in 1 .. n - 1
      BY <3>1
    <3>3. frames'[i + 1].saved = frames[i + 1].saved /\ frames'[i + 1].async = frames[i + 1].async
      BY <1>1, <1>2, <1>6, <3>2
    <3> QED BY <1>0, <1>6, <2>1, <2>7, <3>1, <3>3 DEF IInv, MaskComesBack
  <2> QED BY <1>10, <2>3, <2>6, <2>7 DEF MaskComesBack
<1> QED BY <1>8, <1>12, <1>13, <1>14 DEF IInv

-----------------------------------------------------------------------------
(* The theorems.                                                           *)

LEMMA StepInv == IInv /\ [Next]_vars => IInv'
<1> SUFFICES ASSUME IInv, [Next]_vars PROVE IInv'
  OBVIOUS
<1>1. ASSUME NEW s \in Signals, Raise(s) \/ Deliver(s) PROVE IInv'
  BY <1>1, RaiseInv, DeliverInv
<1>2. CASE Handler
  BY <1>2, HandlerQueuesInv, HandlerRunsInv, HandlerReturnsInv DEF Handler
<1>3. CASE Unqueue
  BY <1>3, UnqueueEndsInv, UnqueueGoesOnInv, UnqueueAdvancesInv, UnqueueSetsMaskInv, UnqueueCallsInv,
     UnqueueRestoresMaskInv
  DEF Unqueue
<1>4. CASE Program
  BY <1>4, queue_signalsInv, unqueue_signalsInv, child_blockInv DEF Program
<1>5. CASE UNCHANGED vars
  BY <1>5
  DEF vars, ring, kernel, IInv, TypeOK, StackShape, OneSection, QueueingForSection,
      MaskComesBack, InForce, Top
<1> QED BY <1>1, <1>2, <1>3, <1>4, <1>5 DEF Next

\* The inductive invariant holds of the signal queue.
THEOREM Invariance == Spec => []IInv
<1>1. Init => IInv
  BY InitInv
<1>2. IInv /\ [Next]_vars => IInv'
  BY StepInv
<1> QED BY <1>1, <1>2, PTL DEF Spec

\* Every variable keeps its type; queue_rear is bounded by no constant.
THEOREM TypeCorrect == Spec => []TypeOK
<1>1. IInv => TypeOK
  BY DEF IInv
<1> QED BY <1>1, Invariance, PTL

\* queue_signals(): for every number of signals, of slots, of raises and of nested
\* sections, no trap or job code runs on top of a critical section.
THEOREM SectionsUninterrupted == Spec => []CriticalSectionsUninterrupted
<1>1. IInv => CriticalSectionsUninterrupted
  <2> SUFFICES ASSUME IInv, NEW i \in 1 .. Len(frames), NEW j \in 1 .. Len(frames), i < j,
                      frames[j].kind = "handler", frames[j].pc = "body"
               PROVE  frames[i].crit = 0
    BY DEF CriticalSectionsUninterrupted
  <2>0. PICK n \in Nat \ {0} : n = Len(frames)
    BY StackFacts
  <2>1. frames[i].crit \in Nat
    BY StackFacts, QueueAssumption DEF Frame
  <2>2. j \in i + 1 .. n
    BY <2>0
  <2>3. ~ (frames[i].crit > 0)
    BY <2>0, <2>2 DEF IInv, OneSection
  <2> QED BY <2>1, <2>3
<1> QED BY <1>1, Invariance, PTL

\* Program text always finds the mask it set, whatever was queued and replayed.
THEOREM MaskKept == Spec => []ProgramKeepsItsMask
<1>1. IInv => ProgramKeepsItsMask
  BY StackFacts DEF IInv, MaskComesBack, ProgramKeepsItsMask, NeedsItsMask, InForce, IsProgram, Top
<1> QED BY <1>1, Invariance, PTL

-----------------------------------------------------------------------------
(* No signal is lost: induction, and sums.                                 *)

\* Induction on the natural numbers, for a property given as a set.
LEMMA SetInduction ==
  ASSUME NEW S, 0 \in S, \A n \in Nat : n \in S => n + 1 \in S
  PROVE  Nat \subseteq S
  <1> DEFINE T == Nat \ S
             R == OpToRel(<, Nat)
  <1>1. SUFFICES ASSUME T # {} PROVE FALSE
    OBVIOUS
  <1>2. IsWellFoundedOn(R, Nat)
    BY NatLessThanWellFounded
  <1>3. \A x, y \in Nat : <<y, x>> \in R <=> y < x
    BY DEF OpToRel
  <1> HIDE DEF R
  <1>4. PICK x \in T : \A y \in T : ~(<<y, x>> \in R)
    BY <1>1, <1>2, WFMin
  <1>5. x \in Nat /\ x # 0
    OBVIOUS
  <1>6. x - 1 \in Nat /\ x - 1 < x
    BY <1>5
  <1>7. <<x - 1, x>> \in R
    BY <1>3, <1>5, <1>6
  <1>8. x - 1 \in S
    BY <1>4, <1>6, <1>7
  <1>9. x - 1 + 1 \in S
    BY <1>6, <1>8
  <1> QED BY <1>5, <1>9

-----------------------------------------------------------------------------
(* Sums.                                                                   *)

\* The member that a fold over T takes first.
First(T) == CHOOSE x \in T : TRUE

\* g is the fold of f over the sets of D.
Sums(f, g, D) ==
  g = [T \in D |-> IF T = {} THEN 0 ELSE f[First(T)] + g[T \ {First(T)}]]

LEMMA FoldIsSum ==
  ASSUME NEW f, \E g : Sums(f, g, SUBSET Signals)
  PROVE  \E g : Sums(f, g, SUBSET Signals) /\ Occurrences(f) = g[Signals]
  <1> DEFINE g == CHOOSE g : Sums(f, g, SUBSET Signals)
  <1>1. Sums(f, g, SUBSET Signals)
    OBVIOUS
  <1>2. Occurrences(f) = g[Signals]
    BY DEF Occurrences, FoldFunctionOnSet, MapThenFoldSet, Sums, First
  <1> QED BY <1>1, <1>2

\* The members of subsets, as far as a fold takes them.
LEMMA FirstOf ==
  ASSUME NEW S, IsFiniteSet(S), NEW T \in SUBSET S, T # {}
  PROVE  /\ First(T) \in T /\ T \ {First(T)} \in SUBSET S
         /\ IsFiniteSet(T) /\ Cardinality(T) \in Nat \ {0}
         /\ Cardinality(T \ {First(T)}) = Cardinality(T) - 1
  <1>1. First(T) \in T
    BY DEF First
  <1>2. IsFiniteSet(T) /\ Cardinality(T) \in Nat
    BY FS_Subset, FS_CardinalityType
  <1>3. Cardinality(T) # 0
    BY <1>2, FS_EmptySet
  <1>4. Cardinality(T \ {First(T)}) = Cardinality(T) - 1
    BY <1>1, <1>2, FS_RemoveElement
  <1> QED BY <1>1, <1>2, <1>3, <1>4

\* What holds of the empty set, and of a set if it holds of the set without the
\* member taken first, holds of all subsets of a finite set.
LEMMA SubsetInduction ==
  ASSUME NEW S, IsFiniteSet(S), NEW P, {} \in P,
         \A T \in SUBSET S : T # {} /\ T \ {First(T)} \in P => T \in P
  PROVE  SUBSET S \subseteq P
  <1> DEFINE A == {n \in Nat : \A T \in SUBSET S : Cardinality(T) = n => T \in P}
  <1>1. \A T \in SUBSET S : IsFiniteSet(T) /\ Cardinality(T) \in Nat
    BY FS_Subset, FS_CardinalityType
  <1>2. 0 \in A
    BY <1>1, FS_EmptySet
  <1>3. ASSUME NEW n \in Nat, n \in A PROVE n + 1 \in A
    <2> SUFFICES ASSUME NEW T \in SUBSET S, Cardinality(T) = n + 1 PROVE T \in P
      OBVIOUS
    <2>0. Cardinality({}) = 0
      BY FS_EmptySet
    <2>1. T # {}
      BY <2>0
    <2>2. T \ {First(T)} \in SUBSET S /\ Cardinality(T \ {First(T)}) = n
      BY <2>1, FirstOf
    <2>3. T \ {First(T)} \in P
      BY <1>3, <2>2
    <2> QED BY <2>1, <2>3
  <1>4. Nat \subseteq A
    <2> HIDE DEF A
    <2> QED BY <1>2, <1>3, SetInduction
  <1>5. ASSUME NEW T \in SUBSET S PROVE T \in P
    BY <1>1, <1>4
  <1> QED BY <1>5

\* There is a fold.
LEMMA SumsExist ==
  ASSUME NEW S, IsFiniteSet(S), NEW f
  PROVE  \E g : Sums(f, g, SUBSET S)
  <1> DEFINE D(n) == {T \in SUBSET S : Cardinality(T) <= n}
             A == {n \in Nat : \E g : Sums(f, g, D(n))}
  <1>1. \A T \in SUBSET S : IsFiniteSet(T) /\ Cardinality(T) \in Nat
    BY FS_Subset, FS_CardinalityType
  <1>2. 0 \in A
    <2>1. \A T \in D(0) : T = {}
      BY <1>1, FS_EmptySet
    <2>2. Sums(f, [T \in D(0) |-> 0], D(0))
      BY <2>1 DEF Sums
    <2> QED BY <2>2
  <1>3. ASSUME NEW n \in Nat, n \in A PROVE n + 1 \in A
    <2>1. PICK g : Sums(f, g, D(n))
      BY <1>3
    <2> DEFINE h == [T \in D(n + 1) |-> IF T = {} THEN 0 ELSE f[First(T)] + g[T \ {First(T)}]]
    <2>2. \A T \in D(n) : T \in D(n + 1) /\ h[T] = g[T]
      <3>1. \A T \in D(n) : T \in D(n + 1)
        BY <1>1
      <3> QED BY <2>1, <3>1 DEF Sums
    <2>3. \A T \in D(n + 1) : T # {} => T \ {First(T)} \in D(n)
      BY FirstOf
    <2>4. Sums(f, h, D(n + 1))
      <3>1. \A T \in D(n + 1) : T # {} => h[T \ {First(T)}] = g[T \ {First(T)}]
        BY <2>2, <2>3
      <3>2. h = [T \in D(n + 1) |-> IF T = {} THEN 0 ELSE f[First(T)] + h[T \ {First(T)}]]
        BY <3>1
      <3> QED BY <3>2 DEF Sums
    <2> HIDE DEF h, D
    <2>5. n + 1 \in Nat /\ \E k : Sums(f, k, D(n + 1))
      BY <2>4
    <2> QED BY <2>5
  <1>4. Nat \subseteq A
    <2> HIDE DEF A
    <2> QED BY <1>2, <1>3, SetInduction
  <1>5. Cardinality(S) \in A
    BY <1>4, FS_CardinalityType
  <1>6. D(Cardinality(S)) = SUBSET S
    BY <1>1, FS_Subset
  <1> HIDE DEF D
  <1>7. \E g : Sums(f, g, D(Cardinality(S)))
    BY <1>5
  <1> QED BY <1>6, <1>7

\* A fold, set by set.
LEMMA SumOf ==
  ASSUME NEW S, IsFiniteSet(S), NEW f, NEW g, Sums(f, g, SUBSET S), NEW T \in SUBSET S
  PROVE  g[T] = IF T = {} THEN 0 ELSE f[First(T)] + g[T \ {First(T)}]
  BY DEF Sums

\* Sums of natural numbers that are at most m.
LEMMA SumBound ==
  ASSUME NEW S, IsFiniteSet(S), NEW f \in [S -> Nat], NEW g, Sums(f, g, SUBSET S),
         NEW m \in Nat, \A x \in S : f[x] <= m
  PROVE  \A T \in SUBSET S : g[T] \in Nat /\ g[T] <= Cardinality(T) * m
  <1> DEFINE P == {T \in SUBSET S : g[T] \in Nat /\ g[T] <= Cardinality(T) * m}
  <1>1. {} \in P
    BY SumOf, FS_EmptySet
  <1>2. ASSUME NEW T \in SUBSET S, T # {}, T \ {First(T)} \in P PROVE T \in P
    <2>1. /\ First(T) \in S /\ Cardinality(T) \in Nat \ {0}
          /\ Cardinality(T \ {First(T)}) = Cardinality(T) - 1
      BY <1>2, FirstOf
    <2>2. g[T] = f[First(T)] + g[T \ {First(T)}]
      BY <1>2, SumOf
    <2>3. f[First(T)] \in Nat /\ f[First(T)] <= m
      BY <2>1
    <2>4. (Cardinality(T) - 1) * m + m = Cardinality(T) * m
      BY <2>1
    <2>5. g[T \ {First(T)}] \in Nat /\ g[T \ {First(T)}] <= (Cardinality(T) - 1) * m
      BY <1>2, <2>1
    <2>6. Cardinality(T) * m \in Nat /\ (Cardinality(T) - 1) * m \in Nat
      BY <2>1
    <2> QED BY <2>2, <2>3, <2>4, <2>5, <2>6
  <1> HIDE DEF P
  <1>3. SUBSET S \subseteq P
    BY <1>1, <1>2, SubsetInduction
  <1> QED BY <1>3 DEF P

\* Sums of natural numbers.
LEMMA SumTyped ==
  ASSUME NEW S, IsFiniteSet(S), NEW f \in [S -> Nat], NEW g, Sums(f, g, SUBSET S)
  PROVE  \A T \in SUBSET S : g[T] \in Nat
  <1> DEFINE P == {T \in SUBSET S : g[T] \in Nat}
  <1>1. {} \in P
    BY SumOf
  <1>2. ASSUME NEW T \in SUBSET S, T # {}, T \ {First(T)} \in P PROVE T \in P
    <2>1. First(T) \in S
      BY <1>2, FirstOf
    <2>2. g[T] = f[First(T)] + g[T \ {First(T)}]
      BY <1>2, SumOf
    <2> QED BY <1>2, <2>1, <2>2
  <1> HIDE DEF P
  <1>3. SUBSET S \subseteq P
    BY <1>1, <1>2, SubsetInduction
  <1> QED BY <1>3 DEF P

\* One more of x.
LEMMA SumOneMore ==
  ASSUME NEW S, IsFiniteSet(S), NEW f \in [S -> Nat], NEW g, Sums(f, g, SUBSET S),
         NEW x \in S, NEW h, NEW e, Sums(e, h, SUBSET S),
         \A y \in S : e[y] = IF y = x THEN f[y] + 1 ELSE f[y]
  PROVE  \A T \in SUBSET S : h[T] = g[T] + (IF x \in T THEN 1 ELSE 0)
  <1> DEFINE P == {T \in SUBSET S : g[T] \in Nat /\ h[T] = g[T] + (IF x \in T THEN 1 ELSE 0)}
  <1>0. \A T \in SUBSET S : h[T] = IF T = {} THEN 0 ELSE e[First(T)] + h[T \ {First(T)}]
    BY DEF Sums
  <1>1. {} \in P
    <2>1. g[{}] = 0
      BY SumOf
    <2>2. h[{}] = 0
      BY <1>0
    <2> QED BY <2>1, <2>2
  <1>2. ASSUME NEW T \in SUBSET S, T # {}, T \ {First(T)} \in P PROVE T \in P
    <2>1. First(T) \in S /\ First(T) \in T
      BY <1>2, FirstOf
    <2>2. g[T] = f[First(T)] + g[T \ {First(T)}]
      BY <1>2, SumOf
    <2>3. h[T] = e[First(T)] + h[T \ {First(T)}]
      BY <1>0, <1>2
    <2>4. f[First(T)] \in Nat /\ e[First(T)] = IF First(T) = x THEN f[x] + 1 ELSE f[First(T)]
      BY <2>1
    <2>5. g[T \ {First(T)}] \in Nat /\ h[T \ {First(T)}] = g[T \ {First(T)}] + (IF x \in T \ {First(T)} THEN 1 ELSE 0)
      BY <1>2
    <2>6. CASE First(T) = x
      BY <2>1, <2>2, <2>3, <2>4, <2>5, <2>6
    <2>7. CASE First(T) # x
      BY <2>1, <2>2, <2>3, <2>4, <2>5, <2>7
    <2> QED BY <2>6, <2>7
  <1> HIDE DEF P
  <1>3. SUBSET S \subseteq P
    BY <1>1, <1>2, SubsetInduction
  <1> QED BY <1>3 DEF P

\* The sum over the signals.
LEMMA Occurring ==
  ASSUME IsFiniteSet(Signals), NEW f \in [Signals -> Nat], NEW m \in Nat, \A s \in Signals : f[s] <= m
  PROVE  Occurrences(f) \in Nat /\ Occurrences(f) <= Cardinality(Signals) * m
  <1>1. PICK g : Sums(f, g, SUBSET Signals) /\ Occurrences(f) = g[Signals]
    BY SumsExist, FoldIsSum
  <1>2. \A T \in SUBSET Signals : g[T] \in Nat /\ g[T] <= Cardinality(T) * m
    BY <1>1, SumBound
  <1> QED BY <1>1, <1>2

LEMMA OccursTyped ==
  ASSUME IsFiniteSet(Signals), NEW f \in [Signals -> Nat]
  PROVE  Occurrences(f) \in Nat
  <1>1. PICK g : Sums(f, g, SUBSET Signals) /\ Occurrences(f) = g[Signals]
    BY SumsExist, FoldIsSum
  <1>2. \A T \in SUBSET Signals : g[T] \in Nat
    BY <1>1, SumTyped
  <1> QED BY <1>1, <1>2

LEMMA OccursOnceMore ==
  ASSUME IsFiniteSet(Signals), NEW f \in [Signals -> Nat], NEW s \in Signals
  PROVE  Occurrences([f EXCEPT ![s] = @ + 1]) = Occurrences(f) + 1
  <1> DEFINE e == [f EXCEPT ![s] = @ + 1]
  <1>1. PICK g : Sums(f, g, SUBSET Signals) /\ Occurrences(f) = g[Signals]
    BY SumsExist, FoldIsSum
  <1>2. PICK h : Sums(e, h, SUBSET Signals) /\ Occurrences(e) = h[Signals]
    BY SumsExist, FoldIsSum
  <1> HIDE DEF e
  <1>3. \A T \in SUBSET Signals : h[T] = g[T] + (IF s \in T THEN 1 ELSE 0)
    <2>1. \A y \in Signals : e[y] = IF y = s THEN f[y] + 1 ELSE f[y]
      BY DEF e
    <2> QED BY <1>1, <1>2, <2>1, SumOneMore
  <1>4. Occurrences(e) = Occurrences(f) + 1
    BY <1>1, <1>2, <1>3
  <1> QED BY <1>4 DEF e

-----------------------------------------------------------------------------
(* The ring.                                                               *)

\* The ring cannot fill: it has room for every signal that is raised.
Roomy == IsFiniteSet(Signals) /\ Cardinality(Signals) * MaxRaised < MAX_QUEUE_SIZE

\* The slots that hold signals which are still to be replayed.
InRing(k) ==
  IF queue_front <= queue_rear THEN queue_front < k /\ k <= queue_rear
  ELSE queue_front < k \/ k <= queue_rear

\* A signal was caught, or taken out of the ring, that handler() has not looked
\* at: the activation is at the beginning of handler(), or about to call it.
Waiting(f) ==
  \/ f.kind = "handler" /\ f.pc = "entry"
  \/ f.kind = "unqueue" /\ f.pc \in {"fetch", "call"}

One(f) == IF Waiting(f) THEN 1 ELSE 0

\* How many of the first n activations wait.
Count(s, n) == Cardinality({i \in 1 .. n : Waiting(s[i])})

\* What an activation handles, or would take from slot x of the ring, is a signal.
Known(f, x) ==
  /\ f.kind = "handler" => f.sig \in Signals
  /\ f.kind = "unqueue" /\ f.pc \in {"fetch", "call"} => x \in Signals

Stored ==
  /\ queue_rear \in Slots
  /\ \A k \in Slots : InRing(k) => signal_queue[k] \in Signals
  /\ \A i \in 1 .. Len(frames) : Known(frames[i], signal_queue[queue_front])

Bounded ==
  \A s \in Signals : caught[s] + (IF s \in pending THEN 1 ELSE 0) <= raised[s]

\* Every catch has been handled, is in the ring, or waits on the stack.
Conserved == Occurrences(caught) = Occurrences(handled) + Queued + Count(frames, Len(frames))

\* Somebody will replay what is in the ring.
Due ==
  Queued # 0 => queueing_enabled > 0 \/ \E i \in 1 .. Len(frames) : frames[i].kind = "unqueue"

RingInv == Stored /\ Bounded /\ Conserved /\ Due

LEMMA Wraps ==
  ASSUME NEW a \in Slots, NEW b \in Slots
  PROVE  /\ (a + 1) % MAX_QUEUE_SIZE = IF a = MAX_QUEUE_SIZE - 1 THEN 0 ELSE a + 1
         /\ (a - b) % MAX_QUEUE_SIZE = IF b <= a THEN a - b ELSE a - b + MAX_QUEUE_SIZE
  BY QueueAssumption DEF Slots

LEMMA QueuedIs ==
  ASSUME IInv, Stored
  PROVE  Queued = IF queue_front <= queue_rear THEN queue_rear - queue_front
                  ELSE queue_rear - queue_front + MAX_QUEUE_SIZE
  BY Wraps DEF IInv, TypeOK, Stored, Queued

LEMMA CountNext ==
  ASSUME NEW s, NEW n \in Nat
  PROVE  /\ Count(s, n) \in Nat
         /\ Count(s, n + 1) = Count(s, n) + One(s[n + 1])
  <1> DEFINE A == {i \in 1 .. n : Waiting(s[i])}
             B == {i \in 1 .. n + 1 : Waiting(s[i])}
  <1>1. IsFiniteSet(1 .. n)
    BY FS_Interval
  <1>2. IsFiniteSet(A) /\ Cardinality(A) \in Nat
    BY <1>1, FS_Subset, FS_CardinalityType
  <1>3. n + 1 \notin A
    OBVIOUS
  <1>4. CASE Waiting(s[n + 1])
    <2>1. B = A \cup {n + 1}
      BY <1>4
    <2> HIDE DEF A, B
    <2>2. Cardinality(B) = Cardinality(A) + 1
      BY <1>2, <1>3, <2>1, FS_AddElement
    <2> QED BY <1>2, <1>4, <2>2 DEF Count, One, A, B
  <1>5. CASE ~ Waiting(s[n + 1])
    <2>1. B = A
      BY <1>5
    <2> QED BY <1>2, <1>5, <2>1 DEF Count, One
  <1> QED BY <1>4, <1>5

LEMMA CountSame ==
  ASSUME NEW s, NEW t, NEW n \in Nat, \A i \in 1 .. n : s[i] = t[i]
  PROVE  Count(s, n) = Count(t, n)
  <1>1. {i \in 1 .. n : Waiting(s[i])} = {i \in 1 .. n : Waiting(t[i])}
    OBVIOUS
  <1> QED BY <1>1 DEF Count

\* What each way of changing the stack makes of the count.
LEMMA StackCount ==
  ASSUME IInv
  PROVE  /\ Count(frames, Len(frames) - 1) \in Nat
         /\ Count(frames, Len(frames)) = Count(frames, Len(frames) - 1) + One(Top)
  <1>1. PICK n \in Nat \ {0} : n = Len(frames)
    BY StackFacts
  <1>2. n - 1 \in Nat /\ n - 1 + 1 = n
    BY <1>1
  <1>3. Count(frames, n - 1) \in Nat /\ Count(frames, n) = Count(frames, n - 1) + One(frames[n])
    BY <1>2, CountNext
  <1> QED BY <1>1, <1>3 DEF Top

LEMMA BecomeCount ==
  ASSUME IInv, NEW f \in Frame, Become(f)
  PROVE  /\ Count(frames, Len(frames))' = Count(frames, Len(frames) - 1) + One(f)
         /\ \A i \in 1 .. Len(frames') : frames'[i] = f \/ \E j \in 1 .. Len(frames) : frames'[i] = frames[j]
         /\ \A i \in 1 .. Len(frames) : i \in 1 .. Len(frames') /\ (i = Len(frames) \/ frames'[i] = frames[i])
         /\ frames'[Len(frames)] = f
  <1>1. PICK n \in Nat \ {0} : n = Len(frames)
    BY StackFacts
  <1>2. /\ Len(frames') = n /\ frames'[n] = f
        /\ \A i \in 1 .. n - 1 : frames'[i] = frames[i]
    BY <1>1, BecomeStack
  <1>3. n - 1 \in Nat /\ n - 1 + 1 = n /\ \A i \in 1 .. n : i \in 1 .. n - 1 \/ i = n
    BY <1>1
  <1>4. Count(frames', n) = Count(frames', n - 1) + One(frames'[n])
    BY <1>3, CountNext
  <1>5. Count(frames', n - 1) = Count(frames, n - 1)
    BY <1>2, <1>3, CountSame
  <1>6. Count(frames, Len(frames))' = Count(frames', Len(frames'))
    BY DEF Count
  <1> QED BY <1>1, <1>2, <1>3, <1>4, <1>5, <1>6

LEMMA CallCount ==
  ASSUME IInv, NEW f \in Frame, Call(f)
  PROVE  /\ Count(frames, Len(frames))' = Count(frames, Len(frames)) + One(f)
         /\ \A i \in 1 .. Len(frames') : frames'[i] = f \/ \E j \in 1 .. Len(frames) : frames'[i] = frames[j]
         /\ \A i \in 1 .. Len(frames) : i \in 1 .. Len(frames') /\ frames'[i] = frames[i]
  <1>1. PICK n \in Nat \ {0} : n = Len(frames)
    BY StackFacts
  <1>2. /\ Len(frames') = n + 1 /\ frames'[n + 1] = f
        /\ \A i \in 1 .. n : frames'[i] = frames[i]
    BY <1>1, CallStack
  <1>3. \A i \in 1 .. n + 1 : i \in 1 .. n \/ i = n + 1
    BY <1>1
  <1>4. Count(frames', n + 1) = Count(frames', n) + One(frames'[n + 1])
    BY <1>1, CountNext
  <1>5. Count(frames', n) = Count(frames, n)
    BY <1>1, <1>2, CountSame
  <1>6. Count(frames, Len(frames))' = Count(frames', Len(frames'))
    BY DEF Count
  <1> QED BY <1>1, <1>2, <1>3, <1>4, <1>5, <1>6

LEMMA ReplaceCallCount ==
  ASSUME IInv, NEW f \in Frame, NEW g \in Frame,
         frames' = Append([frames EXCEPT ![Len(frames)] = g], f)
  PROVE  /\ Count(frames, Len(frames))' = Count(frames, Len(frames) - 1) + One(g) + One(f)
         /\ \A i \in 1 .. Len(frames') : frames'[i] = f \/ frames'[i] = g \/ \E j \in 1 .. Len(frames) : frames'[i] = frames[j]
         /\ \A i \in 1 .. Len(frames) : i \in 1 .. Len(frames') /\ (i = Len(frames) \/ frames'[i] = frames[i])
         /\ frames'[Len(frames)] = g /\ frames'[Len(frames) + 1] = f /\ Len(frames) + 1 \in 1 .. Len(frames')
  <1>1. PICK n \in Nat \ {0} : n = Len(frames)
    BY StackFacts
  <1>2. /\ Len(frames') = n + 1 /\ frames'[n + 1] = f /\ frames'[n] = g
        /\ \A i \in 1 .. n - 1 : frames'[i] = frames[i]
    BY <1>1, ReplaceCallStack
  <1>3. n - 1 \in Nat /\ n - 1 + 1 = n /\ \A i \in 1 .. n + 1 : i \in 1 .. n - 1 \/ i = n \/ i = n + 1
    BY <1>1
  <1>4. Count(frames', n + 1) = Count(frames', n) + One(f) /\ Count(frames', n) = Count(frames', n - 1) + One(g)
    <2>1. Count(frames', n + 1) = Count(frames', n) + One(frames'[n + 1])
      BY <1>1, CountNext
    <2>2. Count(frames', n - 1 + 1) = Count(frames', n - 1) + One(frames'[n - 1 + 1])
      BY <1>3, CountNext
    <2> QED BY <1>2, <1>3, <2>1, <2>2
  <1>5. Count(frames', n - 1) = Count(frames, n - 1)
    BY <1>2, <1>3, CountSame
  <1>6. Count(frames, Len(frames))' = Count(frames', Len(frames'))
    BY DEF Count
  <1> QED BY <1>1, <1>2, <1>3, <1>4, <1>5, <1>6

LEMMA ReturnCount ==
  ASSUME IInv, Top.kind # "main", Return
  PROVE  /\ Count(frames, Len(frames))' = Count(frames, Len(frames) - 1)
         /\ \A i \in 1 .. Len(frames') : frames'[i] = frames[i] /\ i \in 1 .. Len(frames)
         /\ \A i \in 1 .. Len(frames) : i = Len(frames) \/ (i \in 1 .. Len(frames') /\ frames'[i] = frames[i])
  <1>1. PICK n \in Nat \ {0} : n = Len(frames)
    BY StackFacts
  <1>2. n > 1 /\ Len(frames') = n - 1 /\ \A i \in 1 .. n - 1 : frames'[i] = frames[i]
    BY <1>1, ReturnStack
  <1>3. n - 1 \in Nat
    BY <1>1
  <1>4. Count(frames', n - 1) = Count(frames, n - 1)
    BY <1>2, <1>3, CountSame
  <1>5. Count(frames, Len(frames))' = Count(frames', Len(frames'))
    BY DEF Count
  <1> QED BY <1>1, <1>2, <1>4, <1>5

-----------------------------------------------------------------------------
(* Steps that leave the ring and the counts alone.                         *)

LEMMA Primes ==
  /\ Count(frames, Len(frames))' = Count(frames', Len(frames'))
  /\ Occurrences(caught)' = Occurrences(caught')
  /\ Occurrences(handled)' = Occurrences(handled')
  <1>1. Count(frames, Len(frames))' = Count(frames', Len(frames'))
    BY DEF Count
  <1>2. Occurrences(caught)' = Occurrences(caught')
    BY DEF Occurrences, FoldFunctionOnSet, MapThenFoldSet
  <1>3. Occurrences(handled)' = Occurrences(handled')
    BY DEF Occurrences, FoldFunctionOnSet, MapThenFoldSet
  <1> QED BY <1>1, <1>2, <1>3

\* The activation on top, and those below.
LEMMA TopFacts ==
  ASSUME IInv, Stored
  PROVE  /\ Top \in Frame /\ FrameShape(Top) /\ Known(Top, signal_queue[queue_front])
         /\ Len(frames) \in 1 .. Len(frames) /\ Top = frames[Len(frames)]
         /\ queueing_enabled \in Nat
  <1>1. Top \in Frame /\ Len(frames) \in 1 .. Len(frames)
    BY StackFacts, LastIndex
  <1>2. queueing_enabled \in Nat
    BY QueueAssumption DEF IInv, TypeOK
  <1> QED BY <1>1, <1>2 DEF IInv, StackShape, Stored, Top

\* Whatever happens to the stack, as long as what is on it handles signals, as many
\* activations wait, and somebody will replay what is in the ring.
LEMMA RingKept ==
  ASSUME RingInv, UNCHANGED <<ring, kernel, handled>>,
         Count(frames, Len(frames))' = Count(frames, Len(frames)),
         \A i \in 1 .. Len(frames') : Known(frames'[i], signal_queue[queue_front]),
         Due'
  PROVE  RingInv'
  <1>1. UNCHANGED <<queue_front, queue_rear, signal_queue, pending, raised, caught, handled>>
    BY DEF ring, kernel
  <1>2. Stored'
    BY <1>1 DEF RingInv, Stored, Slots, InRing
  <1>3. Bounded'
    BY <1>1 DEF RingInv, Bounded
  <1>4. Queued' = Queued
    BY <1>1 DEF Queued
  <1>5. Conserved'
    BY <1>1, <1>4, Primes DEF RingInv, Conserved
  <1> QED BY <1>2, <1>3, <1>5 DEF RingInv

\* The activation on top goes on.
LEMMA BecomeRing ==
  ASSUME IInv, RingInv, NEW f \in Frame, Become(f), f.kind = Top.kind, One(f) = One(Top),
         Known(f, signal_queue[queue_front]),
         queueing_enabled' > 0 \/ queueing_enabled' = queueing_enabled,
         UNCHANGED <<ring, kernel, handled>>
  PROVE  RingInv'
  <1>1. Count(frames, Len(frames))' = Count(frames, Len(frames))
    BY BecomeCount, StackCount
  <1>2. \A i \in 1 .. Len(frames') : Known(frames'[i], signal_queue[queue_front])
    BY BecomeCount DEF RingInv, Stored
  <1>3. Due'
    <2> SUFFICES ASSUME Queued' # 0, ~(queueing_enabled' > 0)
                 PROVE  \E i \in 1 .. Len(frames') : frames'[i].kind = "unqueue"
      BY DEF Due
    <2>1. Queued' = Queued
      BY DEF Queued, ring
    <2>2. PICK i \in 1 .. Len(frames) : frames[i].kind = "unqueue"
      BY <2>1 DEF RingInv, Due
    <2>3. i \in 1 .. Len(frames') /\ (i = Len(frames) \/ frames'[i] = frames[i])
      BY BecomeCount
    <2>4. CASE i = Len(frames)
      BY <2>2, <2>3, <2>4, BecomeCount DEF Top
    <2> QED BY <2>2, <2>3, <2>4
  <1> QED BY <1>1, <1>2, <1>3, RingKept

\* An activation that does not wait ends, and is no replay loop, or the ring is empty.
LEMMA ReturnRing ==
  ASSUME IInv, RingInv, Return, Top.kind # "main", ~ Waiting(Top),
         Top.kind # "unqueue" \/ Queued = 0,
         UNCHANGED <<queueing_enabled, ring, kernel, handled>>
  PROVE  RingInv'
  <1>1. Count(frames, Len(frames))' = Count(frames, Len(frames))
    BY ReturnCount, StackCount DEF One
  <1>2. \A i \in 1 .. Len(frames') : Known(frames'[i], signal_queue[queue_front])
    BY ReturnCount DEF RingInv, Stored
  <1>3. Due'
    <2> SUFFICES ASSUME Queued' # 0, ~(queueing_enabled' > 0)
                 PROVE  \E i \in 1 .. Len(frames') : frames'[i].kind = "unqueue"
      BY DEF Due
    <2>1. Queued' = Queued
      BY DEF Queued, ring
    <2>2. PICK i \in 1 .. Len(frames) : frames[i].kind = "unqueue"
      BY <2>1 DEF RingInv, Due
    <2>3. i # Len(frames)
      BY <2>1, <2>2 DEF Top
    <2> QED BY <2>2, <2>3, ReturnCount
  <1> QED BY <1>1, <1>2, <1>3, RingKept

LEMMA HandlerReturnsRing ==
  ASSUME IInv, RingInv, HandlerReturns
  PROVE  RingInv'
  <1>1. Top.kind = "handler" /\ Top.pc = "body"
    BY DEF HandlerReturns, Running
  <1>2. ~ Waiting(Top)
    BY <1>1 DEF Waiting
  <1> QED BY <1>1, <1>2, ReturnRing DEF HandlerReturns

LEMMA UnqueueEndsRing ==
  ASSUME IInv, RingInv, UnqueueEnds
  PROVE  RingInv'
  <1>1. Top.kind = "unqueue" /\ Top.pc = "test" /\ queue_front = queue_rear
    BY DEF UnqueueEnds, Running
  <1>2. ~ Waiting(Top)
    BY <1>1 DEF Waiting
  <1>3. Queued = 0
    BY <1>1, QueuedIs DEF RingInv, IInv, TypeOK, Slots
  <1> QED BY <1>1, <1>2, <1>3, ReturnRing DEF UnqueueEnds

\* What program text becomes does not wait, and handles what it did.
LEMMA ProgramRing ==
  ASSUME IInv, RingInv, IsProgram(Top), NEW f, f.kind = Top.kind, f.pc = Top.pc, f.sig = Top.sig
  PROVE  One(f) = One(Top) /\ Known(f, signal_queue[queue_front]) /\ ~ Waiting(f)
  BY TopFacts DEF IsProgram, Waiting, Known, One, RingInv

LEMMA queue_signalsRing ==
  ASSUME IInv, RingInv, queue_signals
  PROVE  RingInv'
  <1> DEFINE f == [Top EXCEPT !.crit = @ + 1]
  <1>1. Top \in Frame /\ IsProgram(Top) /\ Top.crit + 1 \in 0 .. MaxNesting /\ queueing_enabled \in Nat
    BY TopFacts, OwnSections, QueueAssumption DEF RingInv, queue_signals
  <1>2. f \in Frame /\ f.kind = Top.kind /\ f.pc = Top.pc /\ f.sig = Top.sig
    BY <1>1 DEF Frame
  <1>3. Become(f) /\ queueing_enabled' > 0 /\ UNCHANGED <<ring, kernel, handled>>
    BY <1>1 DEF queue_signals
  <1> HIDE DEF f
  <1> QED BY <1>1, <1>2, <1>3, ProgramRing, BecomeRing

LEMMA unqueue_signalsRing ==
  ASSUME IInv, RingInv, unqueue_signals
  PROVE  RingInv'
  <1> DEFINE f == [Top EXCEPT !.crit = @ - 1]
  <1>1. Top \in Frame /\ IsProgram(Top) /\ Top.crit - 1 \in 0 .. MaxNesting
        /\ queueing_enabled \in Nat /\ queueing_enabled > 0
    BY TopFacts, OwnSections, QueueAssumption DEF RingInv, unqueue_signals
  <1>2. f \in Frame /\ f.kind = Top.kind /\ f.pc = Top.pc /\ f.sig = Top.sig
    BY <1>1 DEF Frame
  <1>3. One(f) = One(Top) /\ Known(f, signal_queue[queue_front]) /\ ~ Waiting(f)
    BY <1>1, <1>2, ProgramRing
  <1>4. UNCHANGED <<ring, kernel, handled>> /\ queueing_enabled' = queueing_enabled - 1
    BY DEF unqueue_signals
  <1>5. CASE queueing_enabled = 1
    <2>1. frames' = Append([frames EXCEPT ![Len(frames)] = f], UnqueueFrame)
      BY <1>5 DEF unqueue_signals
    <2> HIDE DEF f
    <2>2. UnqueueFrame \in Frame /\ One(UnqueueFrame) = 0 /\ Known(UnqueueFrame, signal_queue[queue_front])
          /\ UnqueueFrame.kind = "unqueue"
      BY QueueAssumption DEF UnqueueFrame, Frame, One, Waiting, Known
    <2>3. Count(frames, Len(frames))' = Count(frames, Len(frames))
      <3>1. Count(frames, Len(frames))' = Count(frames, Len(frames) - 1) + One(f) + One(UnqueueFrame)
        BY <1>2, <2>1, <2>2, ReplaceCallCount
      <3>2. One(f) = One(Top) /\ One(f) \in Nat
        BY <1>3 DEF One
      <3> QED BY <2>2, <3>1, <3>2, StackCount
    <2>4. \A i \in 1 .. Len(frames') : Known(frames'[i], signal_queue[queue_front])
      BY <1>2, <1>3, <2>1, <2>2, ReplaceCallCount DEF RingInv, Stored
    <2>5. Due'
      BY <1>2, <2>1, <2>2, ReplaceCallCount DEF Due
    <2> QED BY <1>4, <2>3, <2>4, <2>5, RingKept
  <1>6. CASE queueing_enabled # 1
    <2>1. Become(f) /\ queueing_enabled' > 0
      BY <1>1, <1>4, <1>6 DEF unqueue_signals
    <2> HIDE DEF f
    <2> QED BY <1>2, <1>3, <1>4, <2>1, BecomeRing
  <1> QED BY <1>5, <1>6

LEMMA child_blockRing ==
  ASSUME IInv, RingInv, child_block \/ child_unblock
  PROVE  RingInv'
  <1>1. PICK m \in SUBSET Signals : Become([Top EXCEPT !.want = m])
    BY QueueAssumption DEF child_block, child_unblock, IInv, TypeOK
  <1> DEFINE f == [Top EXCEPT !.want = m]
  <1>2. Top \in Frame /\ IsProgram(Top)
    BY TopFacts DEF RingInv, child_block, child_unblock
  <1>3. f \in Frame /\ f.kind = Top.kind /\ f.pc = Top.pc /\ f.sig = Top.sig
    BY <1>2 DEF Frame
  <1>4. Become(f) /\ UNCHANGED <<ring, kernel, handled>> /\ queueing_enabled' = queueing_enabled
    BY <1>1 DEF child_block, child_unblock
  <1> HIDE DEF f
  <1> QED BY <1>2, <1>3, <1>4, ProgramRing, BecomeRing

LEMMA UnqueueSetsMaskRing ==
  ASSUME IInv, RingInv, UnqueueSetsMask \/ UnqueueRestoresMask
  PROVE  RingInv'
  <1>1. PICK m \in SUBSET Signals, pc \in {"call", "test"} :
          /\ Become([Top EXCEPT !.pc = pc, !.saved = m])
          /\ Top.kind = "unqueue" /\ Top.pc = IF pc = "call" THEN "fetch" ELSE "restore"
    <2>1. Top \in Frame
      BY TopFacts DEF RingInv
    <2>2. CASE UnqueueSetsMask
      BY <2>2 DEF UnqueueSetsMask, IInv, TypeOK, Running
    <2>3. CASE UnqueueRestoresMask
      <3>1. [Top EXCEPT !.pc = "test"] = [Top EXCEPT !.pc = "test", !.saved = Top.saved] /\ Top.saved \in SUBSET Signals
        BY <2>1 DEF Frame
      <3>2. Become([Top EXCEPT !.pc = "test", !.saved = Top.saved]) /\ Top.kind = "unqueue" /\ Top.pc = "restore"
        BY <2>3, <3>1 DEF UnqueueRestoresMask, Running
      <3> QED BY <3>1, <3>2
    <2> QED BY <2>2, <2>3
  <1> DEFINE f == [Top EXCEPT !.pc = pc, !.saved = m]
  <1>2. Top \in Frame /\ Known(Top, signal_queue[queue_front])
    BY TopFacts DEF RingInv
  <1>3. f \in Frame /\ f.kind = Top.kind /\ f.pc = pc /\ f.sig = Top.sig
    BY <1>2 DEF Frame
  <1>4. Become(f) /\ UNCHANGED <<ring, kernel, handled>> /\ queueing_enabled' = queueing_enabled
    BY <1>1 DEF UnqueueSetsMask, UnqueueRestoresMask
  <1> HIDE DEF f
  <1>5. One(f) = One(Top) /\ Known(f, signal_queue[queue_front])
    BY <1>1, <1>2, <1>3 DEF One, Waiting, Known
  <1> QED BY <1>3, <1>4, <1>5, BecomeRing

LEMMA UnqueueCallsRing ==
  ASSUME IInv, RingInv, UnqueueCalls
  PROVE  RingInv'
  <1> DEFINE f == [Top EXCEPT !.pc = "restore"]
             h == HandlerFrame(signal_queue[queue_front], FALSE, {})
  <1>1. /\ Top \in Frame /\ Known(Top, signal_queue[queue_front])
        /\ Top.kind = "unqueue" /\ Top.pc = "call"
    BY TopFacts DEF RingInv, UnqueueCalls, Running
  <1>2. signal_queue[queue_front] \in Signals
    BY <1>1 DEF Known
  <1>3. f \in Frame /\ f.kind = "unqueue" /\ f.pc = "restore"
    BY <1>1 DEF Frame
  <1>4. h \in Frame /\ h.kind = "handler" /\ h.pc = "entry" /\ h.sig = signal_queue[queue_front]
    <2>1. h \in Frame
      BY <1>2, NewFrames
    <2> QED BY <2>1 DEF HandlerFrame
  <1>5. [frames EXCEPT ![Len(frames)].pc = "restore"] = [frames EXCEPT ![Len(frames)] = f]
    BY DEF Top
  <1>6. frames' = Append([frames EXCEPT ![Len(frames)] = f], h) /\ UNCHANGED <<ring, kernel, handled>>
    BY <1>5 DEF UnqueueCalls
  <1> HIDE DEF f, h
  <1>7. One(Top) = 1 /\ One(f) = 0 /\ One(h) = 1
        /\ Known(f, signal_queue[queue_front]) /\ Known(h, signal_queue[queue_front])
    BY <1>1, <1>2, <1>3, <1>4 DEF One, Waiting, Known
  <1>8. Count(frames, Len(frames))' = Count(frames, Len(frames))
    <2>1. Count(frames, Len(frames))' = Count(frames, Len(frames) - 1) + One(f) + One(h)
      BY <1>3, <1>4, <1>6, ReplaceCallCount
    <2> QED BY <1>7, <2>1, StackCount
  <1>9. \A i \in 1 .. Len(frames') : Known(frames'[i], signal_queue[queue_front])
    BY <1>3, <1>4, <1>6, <1>7, ReplaceCallCount DEF RingInv, Stored
  <1>10. Due'
    BY <1>3, <1>4, <1>6, TopFacts, ReplaceCallCount DEF Due, RingInv
  <1> QED BY <1>6, <1>8, <1>9, <1>10, RingKept

-----------------------------------------------------------------------------
(* Signals are raised, caught, saved, taken out and handled.               *)

LEMMA RaiseRing ==
  ASSUME IInv, RingInv, NEW s \in Signals, Raise(s)
  PROVE  RingInv'
  <1>1. /\ UNCHANGED <<queueing_enabled, queue_front, queue_rear, signal_queue, frames, caught, handled>>
        /\ raised' = [raised EXCEPT ![s] = @ + 1] /\ pending' = pending \cup {s}
    BY DEF Raise, ring
  <1>2. Stored'
    BY <1>1 DEF RingInv, Stored, Slots, InRing, Known
  <1>3. Bounded'
    <2> SUFFICES ASSUME NEW t \in Signals
                 PROVE  caught[t] + (IF t \in pending' THEN 1 ELSE 0) <= raised'[t]
      BY <1>1 DEF Bounded
    <2>1. caught[t] \in Nat /\ raised[t] \in Nat /\ raised'[t] = IF t = s THEN raised[t] + 1 ELSE raised[t]
      BY <1>1, QueueAssumption DEF IInv, TypeOK
    <2>2. caught[t] + (IF t \in pending THEN 1 ELSE 0) <= raised[t]
      BY DEF RingInv, Bounded
    <2> QED BY <1>1, <2>1, <2>2
  <1>4. Queued' = Queued
    BY <1>1 DEF Queued
  <1>5. Conserved' /\ Due'
    BY <1>1, <1>4, Primes DEF RingInv, Conserved, Due
  <1> QED BY <1>2, <1>3, <1>5 DEF RingInv

\* The sums that are compared.
LEMMA CountsTyped ==
  ASSUME IsFiniteSet(Signals), IInv, RingInv
  PROVE  /\ Occurrences(caught) \in Nat /\ Occurrences(handled) \in Nat
         /\ Occurrences(caught) <= Cardinality(Signals) * MaxRaised
         /\ Queued \in Nat /\ Count(frames, Len(frames)) \in Nat
  <1>1. caught \in [Signals -> Nat] /\ handled \in [Signals -> Nat] /\ MaxRaised \in Nat
    BY QueueAssumption DEF IInv, TypeOK
  <1>2. \A s \in Signals : caught[s] <= MaxRaised
    <2> SUFFICES ASSUME NEW s \in Signals PROVE caught[s] <= MaxRaised
      OBVIOUS
    <2>1. raised[s] \in Nat /\ raised[s] <= MaxRaised /\ caught[s] \in Nat
      BY QueueAssumption DEF IInv, TypeOK
    <2>2. caught[s] + (IF s \in pending THEN 1 ELSE 0) <= raised[s]
      BY DEF RingInv, Bounded
    <2> QED BY <1>1, <2>1, <2>2
  <1>3. Occurrences(caught) \in Nat /\ Occurrences(caught) <= Cardinality(Signals) * MaxRaised
    BY <1>1, <1>2, Occurring
  <1>4. Occurrences(handled) \in Nat
    BY <1>1, OccursTyped
  <1>5. Queued \in Nat
    BY QueuedIs, QueueAssumption DEF RingInv, Stored, IInv, TypeOK, Slots
  <1>6. Count(frames, Len(frames)) \in Nat
    <2>1. PICK n \in Nat : n = Len(frames)
      BY StackFacts
    <2> QED BY <2>1, CountNext
  <1> QED BY <1>3, <1>4, <1>5, <1>6

LEMMA DeliverRing ==
  ASSUME IsFiniteSet(Signals), IInv, RingInv, NEW s \in Signals, Deliver(s)
  PROVE  RingInv'
  <1> DEFINE f == HandlerFrame(s, TRUE, procmask)
  <1>1. f \in Frame /\ f.kind = "handler" /\ f.pc = "entry" /\ f.sig = s
    <2>1. f \in Frame
      BY NewFrames DEF IInv, TypeOK
    <2> QED BY <2>1 DEF HandlerFrame
  <1>2. /\ Call(f) /\ UNCHANGED <<queueing_enabled, queue_front, queue_rear, signal_queue, raised, handled>>
        /\ caught' = [caught EXCEPT ![s] = @ + 1] /\ pending' = pending \ {s} /\ s \in pending
    BY DEF Deliver, ring
  <1> HIDE DEF f
  <1>3. Stored'
    <2>1. \A i \in 1 .. Len(frames') : Known(frames'[i], signal_queue[queue_front])
      BY <1>1, <1>2, CallCount DEF RingInv, Stored, Known
    <2> QED BY <1>2, <2>1 DEF RingInv, Stored, Slots, InRing
  <1>4. Bounded'
    <2> SUFFICES ASSUME NEW t \in Signals
                 PROVE  caught'[t] + (IF t \in pending' THEN 1 ELSE 0) <= raised[t]
      BY <1>2 DEF Bounded
    <2>1. caught[t] \in Nat /\ raised[t] \in Nat /\ caught'[t] = IF t = s THEN caught[t] + 1 ELSE caught[t]
      BY <1>2, QueueAssumption DEF IInv, TypeOK
    <2>2. caught[t] + (IF t \in pending THEN 1 ELSE 0) <= raised[t]
      BY DEF RingInv, Bounded
    <2> QED BY <1>2, <2>1, <2>2
  <1>5. Queued' = Queued
    BY <1>2 DEF Queued
  <1>6. Conserved'
    <2>1. Occurrences(caught') = Occurrences(caught) + 1
      BY <1>2, OccursOnceMore DEF IInv, TypeOK
    <2>2. Count(frames, Len(frames))' = Count(frames, Len(frames)) + 1
      BY <1>1, <1>2, CallCount DEF One, Waiting
    <2>3. Occurrences(caught) \in Nat /\ Occurrences(handled) \in Nat /\ Queued \in Nat /\ Count(frames, Len(frames)) \in Nat
      BY CountsTyped
    <2> QED BY <1>2, <1>5, <2>1, <2>2, <2>3, Primes DEF RingInv, Conserved
  <1>7. Due'
    BY <1>1, <1>2, <1>5, CallCount DEF RingInv, Due
  <1> QED BY <1>3, <1>4, <1>6, <1>7 DEF RingInv

\* A caught signal goes into the ring, which has room.
LEMMA HandlerQueuesRing ==
  ASSUME Roomy, IInv, RingInv, HandlerQueues
  PROVE  RingInv'
  <1> DEFINE x == (queue_rear + 1) % MAX_QUEUE_SIZE
  <1>1. /\ Top.kind = "handler" /\ Top.pc = "entry" /\ queueing_enabled > 0
        /\ Return /\ UNCHANGED <<queueing_enabled, queue_front, pending, raised, caught, handled>>
    BY DEF HandlerQueues, Running, kernel
  <1>2. Top.sig \in Signals /\ One(Top) = 1
    BY <1>1, TopFacts DEF RingInv, Known, One, Waiting
  <1>3. queue_front \in Slots /\ queue_rear \in Slots
    BY DEF IInv, TypeOK, RingInv, Stored
  <1>4. MAX_QUEUE_SIZE \in Nat /\ Queued + 2 <= MAX_QUEUE_SIZE
    <2>1. Count(frames, Len(frames)) >= 1
      BY <1>2, StackCount
    <2>2. /\ Occurrences(caught) \in Nat /\ Occurrences(handled) \in Nat
          /\ Occurrences(caught) <= Cardinality(Signals) * MaxRaised
          /\ Queued \in Nat /\ Count(frames, Len(frames)) \in Nat
      BY CountsTyped DEF Roomy
    <2>3. Cardinality(Signals) * MaxRaised \in Nat /\ MAX_QUEUE_SIZE \in Nat
      BY FS_CardinalityType, QueueAssumption DEF Roomy
    <2>4. Occurrences(caught) = Occurrences(handled) + Queued + Count(frames, Len(frames))
      BY DEF RingInv, Conserved
    <2>5. Cardinality(Signals) * MaxRaised < MAX_QUEUE_SIZE
      BY DEF Roomy
    <2> QED BY <2>1, <2>2, <2>3, <2>4, <2>5
  <1>5. x = IF queue_rear = MAX_QUEUE_SIZE - 1 THEN 0 ELSE queue_rear + 1
    BY <1>3, Wraps
  <1>6. x \in Slots /\ x # queue_front
    BY <1>3, <1>4, <1>5, QueuedIs DEF RingInv, Slots
  <1> HIDE DEF x
  <1>7. queue_rear' = x /\ signal_queue' = [signal_queue EXCEPT ![x] = Top.sig]
    BY <1>6 DEF HandlerQueues, x
  <1>8. \A k \in Slots : signal_queue'[k] = IF k = x THEN Top.sig ELSE signal_queue[k]
    BY <1>7 DEF IInv, TypeOK
  <1>9. signal_queue'[queue_front'] = signal_queue[queue_front]
    BY <1>1, <1>3, <1>6, <1>8
  <1>10. \A k \in Slots : InRing(k)' => k = x \/ InRing(k)
    BY <1>1, <1>3, <1>5, <1>6, <1>7 DEF InRing, Slots
  <1>11. Stored'
    <2>1. \A i \in 1 .. Len(frames') : Known(frames'[i], signal_queue[queue_front])
      BY <1>1, ReturnCount DEF RingInv, Stored
    <2>2. \A k \in Slots : InRing(k)' => signal_queue'[k] \in Signals
      BY <1>2, <1>8, <1>10 DEF RingInv, Stored
    <2>3. Slots' = Slots
      BY DEF Slots
    <2> QED BY <1>6, <1>7, <1>9, <2>1, <2>2, <2>3 DEF Stored, Known
  <1>12. Queued' = Queued + 1
    <2>1. Queued' = (x - queue_front) % MAX_QUEUE_SIZE
      BY <1>1, <1>7 DEF Queued
    <2>2. Queued' = IF queue_front <= x THEN x - queue_front ELSE x - queue_front + MAX_QUEUE_SIZE
      BY <1>3, <1>6, <2>1, Wraps
    <2>3. Queued = IF queue_front <= queue_rear THEN queue_rear - queue_front
                   ELSE queue_rear - queue_front + MAX_QUEUE_SIZE
      BY QueuedIs DEF RingInv
    <2> QED BY <1>3, <1>4, <1>5, <1>6, <2>2, <2>3 DEF Slots
  <1>13. Conserved'
    <2>1. Count(frames, Len(frames))' = Count(frames, Len(frames) - 1)
      BY <1>1, ReturnCount
    <2>2. Count(frames, Len(frames)) = Count(frames, Len(frames) - 1) + 1 /\ Count(frames, Len(frames) - 1) \in Nat
      BY <1>2, StackCount
    <2>3. Occurrences(handled) \in Nat /\ Queued \in Nat
      BY CountsTyped DEF Roomy
    <2>4. Occurrences(caught) = Occurrences(handled) + Queued + Count(frames, Len(frames))
      BY DEF RingInv, Conserved
    <2>5. Occurrences(caught)' = Occurrences(caught) /\ Occurrences(handled)' = Occurrences(handled)
      BY <1>1, Primes
    <2> QED BY <1>12, <2>1, <2>2, <2>3, <2>4, <2>5 DEF Conserved
  <1>14. Due'
    BY <1>1 DEF Due
  <1>15. Bounded'
    BY <1>1 DEF RingInv, Bounded
  <1> QED BY <1>11, <1>13, <1>14, <1>15 DEF RingInv

\* A signal is handled.
LEMMA HandlerRunsRing ==
  ASSUME IsFiniteSet(Signals), IInv, RingInv, HandlerRuns
  PROVE  RingInv'
  <1> DEFINE f == [Top EXCEPT !.pc = "body", !.want = procmask]
  <1>1. /\ Top.kind = "handler" /\ Top.pc = "entry" /\ Top \in Frame
        /\ Known(Top, signal_queue[queue_front])
    BY TopFacts DEF HandlerRuns, Running, RingInv
  <1>2. f \in Frame /\ f.kind = "handler" /\ f.pc = "body" /\ f.sig = Top.sig
    BY <1>1 DEF Frame, IInv, TypeOK
  <1>3. Become(f) /\ UNCHANGED <<queueing_enabled, ring, kernel>>
        /\ handled' = [handled EXCEPT ![Top.sig] = @ + 1]
    BY DEF HandlerRuns
  <1> HIDE DEF f
  <1>4. Top.sig \in Signals /\ One(Top) = 1 /\ One(f) = 0 /\ Known(f, signal_queue[queue_front])
    BY <1>1, <1>2 DEF Known, One, Waiting
  <1>5. UNCHANGED <<queueing_enabled, queue_front, queue_rear, signal_queue, pending, raised, caught>>
    BY <1>3 DEF ring, kernel
  <1>6. \A i \in 1 .. Len(frames') : Known(frames'[i], signal_queue[queue_front])
    BY <1>2, <1>3, <1>4, BecomeCount DEF RingInv, Stored
  <1>7. Stored'
    BY <1>5, <1>6 DEF RingInv, Stored, Slots, InRing
  <1>8. Queued' = Queued
    BY <1>5 DEF Queued
  <1>9. Conserved'
    <2>1. Occurrences(handled') = Occurrences(handled) + 1
      BY <1>3, <1>4, OccursOnceMore DEF IInv, TypeOK
    <2>2. Count(frames, Len(frames))' = Count(frames, Len(frames) - 1) + One(f)
      BY <1>2, <1>3, BecomeCount
    <2>3. Count(frames, Len(frames)) = Count(frames, Len(frames) - 1) + 1 /\ Count(frames, Len(frames) - 1) \in Nat
      BY <1>4, StackCount
    <2>4. Occurrences(caught) \in Nat /\ Occurrences(handled) \in Nat /\ Queued \in Nat
      BY CountsTyped
    <2>5. Occurrences(caught) = Occurrences(handled) + Queued + Count(frames, Len(frames))
      BY DEF RingInv, Conserved
    <2>6. Occurrences(caught)' = Occurrences(caught) /\ Occurrences(handled)' = Occurrences(handled) + 1
      BY <1>5, <2>1, Primes
    <2> QED BY <1>4, <1>8, <2>2, <2>3, <2>4, <2>5, <2>6 DEF Conserved
  <1>10. Due'
    <2> SUFFICES ASSUME Queued' # 0, ~(queueing_enabled' > 0)
                 PROVE  \E i \in 1 .. Len(frames') : frames'[i].kind = "unqueue"
      BY DEF Due
    <2>1. PICK i \in 1 .. Len(frames) : frames[i].kind = "unqueue"
      BY <1>5, <1>8 DEF RingInv, Due
    <2>2. i # Len(frames)
      BY <1>1, <2>1 DEF Top
    <2> QED BY <1>2, <1>3, <2>1, <2>2, BecomeCount
  <1>11. Bounded'
    BY <1>5 DEF RingInv, Bounded
  <1> QED BY <1>7, <1>9, <1>10, <1>11 DEF RingInv

\* The loop goes on.
LEMMA UnqueueGoesOnRing ==
  ASSUME IInv, RingInv, UnqueueGoesOn
  PROVE  RingInv'
  <1> DEFINE f == [Top EXCEPT !.pc = "advance"]
  <1>1. Top.kind = "unqueue" /\ Top.pc = "test" /\ Top \in Frame
    BY TopFacts DEF UnqueueGoesOn, Running, RingInv
  <1>2. f \in Frame /\ f.kind = "unqueue" /\ f.pc = "advance"
    BY <1>1 DEF Frame
  <1>3. Become(f) /\ UNCHANGED <<ring, kernel, handled>> /\ queueing_enabled' = queueing_enabled
    BY DEF UnqueueGoesOn
  <1> HIDE DEF f
  <1>4. One(f) = One(Top) /\ Known(f, signal_queue[queue_front])
    BY <1>1, <1>2 DEF One, Waiting, Known
  <1> QED BY <1>1, <1>2, <1>3, <1>4, BecomeRing

\* A saved signal is taken out of the ring, in which there is one.
LEMMA UnqueueAdvancesRing ==
  ASSUME IsFiniteSet(Signals), IInv, RingInv, UnqueueAdvances, ~ overrun'
  PROVE  RingInv'
  <1> DEFINE f == [Top EXCEPT !.pc = "fetch"]
             x == (queue_front + 1) % MAX_QUEUE_SIZE
  <1>1. /\ Top.kind = "unqueue" /\ Top.pc = "advance" /\ Top \in Frame
        /\ queue_front # queue_rear
    BY TopFacts DEF UnqueueAdvances, Running, RingInv
  <1>2. f \in Frame /\ f.kind = "unqueue" /\ f.pc = "fetch" /\ f.sig = Top.sig
    BY <1>1 DEF Frame
  <1>3. Become(f) /\ queue_front' = x
        /\ UNCHANGED <<queueing_enabled, queue_rear, signal_queue, pending, raised, caught, handled>>
    BY DEF UnqueueAdvances, kernel
  <1>4. queue_front \in Slots /\ queue_rear \in Slots /\ MAX_QUEUE_SIZE \in Nat \ {0, 1}
    BY QueueAssumption DEF IInv, TypeOK, RingInv, Stored
  <1>5. x = IF queue_front = MAX_QUEUE_SIZE - 1 THEN 0 ELSE queue_front + 1
    BY <1>4, Wraps
  <1> HIDE DEF f, x
  <1>6. x \in Slots /\ InRing(x)
    BY <1>1, <1>4, <1>5 DEF InRing, Slots
  <1>7. signal_queue[x] \in Signals
    BY <1>6 DEF RingInv, Stored
  <1>8. One(Top) = 0 /\ One(f) = 1
    BY <1>1, <1>2 DEF One, Waiting
  <1>9. \A k \in Slots : InRing(k)' => InRing(k)
    BY <1>1, <1>3, <1>4, <1>5 DEF InRing, Slots
  <1>10. Stored'
    <2>1. \A i \in 1 .. Len(frames') : Known(frames'[i], signal_queue[x])
      <3>1. Known(f, signal_queue[x])
        BY <1>2, <1>7 DEF Known
      <3>2. \A i \in 1 .. Len(frames) : Known(frames[i], signal_queue[x])
        BY <1>7 DEF RingInv, Stored, Known
      <3> QED BY <1>2, <1>3, <3>1, <3>2, BecomeCount
    <2>2. \A k \in Slots : InRing(k)' => signal_queue'[k] \in Signals
      BY <1>3, <1>9 DEF RingInv, Stored
    <2>3. Slots' = Slots
      BY DEF Slots
    <2>4. signal_queue'[queue_front'] = signal_queue[x]
      BY <1>3
    <2> QED BY <1>3, <1>4, <2>1, <2>2, <2>3, <2>4 DEF Stored, Known
  <1>11. Queued = Queued' + 1 /\ Queued' \in Nat
    <2>1. Queued' = (queue_rear - x) % MAX_QUEUE_SIZE
      BY <1>3 DEF Queued
    <2>2. Queued' = IF x <= queue_rear THEN queue_rear - x ELSE queue_rear - x + MAX_QUEUE_SIZE
      BY <1>4, <1>6, <2>1, Wraps
    <2>3. Queued = IF queue_front <= queue_rear THEN queue_rear - queue_front
                   ELSE queue_rear - queue_front + MAX_QUEUE_SIZE
      BY QueuedIs DEF RingInv
    <2> QED BY <1>1, <1>4, <1>5, <2>2, <2>3 DEF Slots
  <1>12. Conserved'
    <2>1. Count(frames, Len(frames))' = Count(frames, Len(frames) - 1) + One(f)
      BY <1>2, <1>3, BecomeCount
    <2>2. Count(frames, Len(frames)) = Count(frames, Len(frames) - 1) + One(Top) /\ Count(frames, Len(frames) - 1) \in Nat
      BY StackCount
    <2>3. Occurrences(handled) \in Nat
      BY CountsTyped
    <2>4. Occurrences(caught) = Occurrences(handled) + Queued + Count(frames, Len(frames))
      BY DEF RingInv, Conserved
    <2>5. Occurrences(caught)' = Occurrences(caught) /\ Occurrences(handled)' = Occurrences(handled)
      BY <1>3, Primes
    <2> QED BY <1>8, <1>11, <2>1, <2>2, <2>3, <2>4, <2>5 DEF Conserved
  <1>13. Due'
    <2>1. Len(frames) \in 1 .. Len(frames) /\ Len(frames) \in 1 .. Len(frames') /\ frames'[Len(frames)] = f
      BY <1>2, <1>3, StackFacts, LastIndex, BecomeCount
    <2> QED BY <1>2, <2>1 DEF Due
  <1>14. Bounded'
    BY <1>3 DEF RingInv, Bounded
  <1> QED BY <1>10, <1>12, <1>13, <1>14 DEF RingInv

-----------------------------------------------------------------------------
(* The theorem.                                                            *)

LEMMA InitRing ==
  ASSUME IsFiniteSet(Signals), Init
  PROVE  RingInv
  <1>1. /\ queue_front \in Slots /\ queue_rear = queue_front /\ frames = <<MainFrame>>
        /\ pending = {} /\ Len(frames) = 1 /\ frames[1] = MainFrame
    BY DEF Init
  <1>2. ~ Waiting(MainFrame) /\ MainFrame.kind = "main"
    BY DEF Waiting, MainFrame
  <1>3. Stored
    BY <1>1, <1>2 DEF Stored, InRing, Slots, Known
  <1>4. Bounded
    BY <1>1 DEF Init, Bounded
  <1>5. Queued = 0
    BY <1>1, Wraps DEF Queued, Slots
  <1>6. Conserved
    <2>1. caught = handled /\ handled \in [Signals -> Nat]
      BY DEF Init
    <2>2. Occurrences(handled) \in Nat
      BY <2>1, OccursTyped
    <2>3. {i \in 1 .. Len(frames) : Waiting(frames[i])} = {}
      BY <1>1, <1>2
    <2>4. Count(frames, Len(frames)) = 0
      BY <2>3, FS_EmptySet DEF Count
    <2> QED BY <1>5, <2>1, <2>2, <2>4 DEF Conserved
  <1>7. Due
    BY <1>5 DEF Due
  <1> QED BY <1>3, <1>4, <1>6, <1>7 DEF RingInv

LEMMA StepRing ==
  ASSUME Roomy, IInv, RingInv, [Next]_vars, ~ overrun'
  PROVE  RingInv'
  <1>1. IsFiniteSet(Signals)
    BY DEF Roomy
  <1>2. CASE \E s \in Signals : Raise(s) \/ Deliver(s)
    BY <1>1, <1>2, RaiseRing, DeliverRing
  <1>3. CASE Handler
    BY <1>1, <1>3, HandlerQueuesRing, HandlerRunsRing, HandlerReturnsRing DEF Handler
  <1>4. CASE Unqueue
    BY <1>1, <1>4, UnqueueEndsRing, UnqueueGoesOnRing, UnqueueAdvancesRing, UnqueueSetsMaskRing, UnqueueCallsRing DEF Unqueue
  <1>5. CASE Program
    BY <1>5, queue_signalsRing, unqueue_signalsRing, child_blockRing DEF Program
  <1>6. CASE UNCHANGED vars
    <2>1. UNCHANGED <<queueing_enabled, frames, ring, kernel, handled>>
      BY <1>6 DEF vars
    <2>2. Count(frames, Len(frames))' = Count(frames, Len(frames)) /\ Due'
      BY <2>1, Primes DEF RingInv, Due, Queued, ring
    <2>3. \A i \in 1 .. Len(frames') : Known(frames'[i], signal_queue[queue_front])
      BY <2>1 DEF RingInv, Stored
    <2> QED BY <2>1, <2>2, <2>3, RingKept
  <1> QED BY <1>2, <1>3, <1>4, <1>5, <1>6 DEF Next

\* What was overstepped stays so.
LEMMA OverrunStays ==
  ASSUME [Next]_vars, overrun
  PROVE  overrun'
  BY DEF Next, vars, Handler, Unqueue, Program, Raise, Deliver, HandlerQueues, HandlerRuns, HandlerReturns,
         UnqueueEnds, UnqueueGoesOn, UnqueueAdvances, UnqueueSetsMask, UnqueueCalls, UnqueueRestoresMask,
         queue_signals, unqueue_signals, child_block, child_unblock

\* Out of every critical section, with no handler running, nothing is left over.
LEMMA NothingLeft ==
  ASSUME IsFiniteSet(Signals), IInv, ~ overrun => RingInv
  PROVE  OneRunPerCatch
  <1> SUFFICES ASSUME Quiescent, RingInv PROVE Occurrences(handled) = Occurrences(caught)
    BY DEF OneRunPerCatch
  <1>1. Len(frames) = 1 /\ frames[1].kind = "main" /\ frames[1].crit = 0
    BY DEF Quiescent, Top, IInv, StackShape
  <1>2. ~(queueing_enabled > 0)
    BY <1>1 DEF IInv, QueueingForSection
  <1>3. Queued = 0
    BY <1>1, <1>2 DEF RingInv, Due
  <1>4. {i \in 1 .. Len(frames) : Waiting(frames[i])} = {}
    BY <1>1 DEF Waiting
  <1>5. Count(frames, Len(frames)) = 0
    BY <1>4, FS_EmptySet DEF Count
  <1> QED BY <1>3, <1>5, CountsTyped DEF RingInv, Conserved

\* While the ring has room for every signal that is raised, and as long as no replay
\* loop has been overtaken between its test and its increment, handler() has run as
\* often as signals were caught whenever the shell is back in the program, out of
\* every critical section: nothing that queue_signals() delayed is forgotten, however
\* the replays nest and wherever else signals come in between.
THEOREM OneRunForEach == Roomy => (Spec => []OneRunPerCatch)
  <1> SUFFICES ASSUME Roomy PROVE Spec => []OneRunPerCatch
    OBVIOUS
  <1> DEFINE RingSafe == ~ overrun => RingInv
  <1>1. Init => RingSafe
    BY InitRing DEF Roomy
  <1>2. IInv /\ RingSafe /\ [Next]_vars => RingSafe'
    BY StepRing, OverrunStays
  <1>3. IInv /\ RingSafe => OneRunPerCatch
    BY NothingLeft DEF Roomy
  <1> QED BY <1>1, <1>2, <1>3, Invariance, PTL DEF Spec
=============================================================================
