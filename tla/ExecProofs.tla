----------------------------- MODULE ExecProofs -----------------------------
(***************************************************************************)
(* What Exec promises for every program and every shell: that ERREXIT      *)
(* spares what is tested; and, of shells whose traps are lists, that       *)
(* contflag belongs to a continue that is being carried out and nothing    *)
(* comes between a return and the end of the function.                     *)
(*                                                                         *)
(* The argument is about the stack.  noerrexit is one variable, set and    *)
(* put back by the constructs; a construct keeps in its frame what it      *)
(* found.  The invariant says that the frames fit together: each was       *)
(* entered with noerrexit set exactly if the frame below it was testing,   *)
(* and what tests shields everything above it.                             *)
(*                                                                         *)
(* A jump is a count and a flag, which every construct on the way up looks *)
(* at.  A second invariant says what the count stands for in terms of the  *)
(* stack: the loop that goes on, or all loops; and where a trap keeps the  *)
(* count and the status of the jump that it delays.                        *)
(***************************************************************************)
EXTENDS Exec, FiniteSetTheorems, NaturalsInduction, WellFoundedInduction, TLAPS

PlainKinds == {"top", "source", "if", "case", "eval", "for", "select", "while", "until"}
Ops == {"END", "ANDNEXT", "ORNEXT"}
Backs == {"check", "told", "gone", "left"}
Signals == {"DEBUG", "ZERR", "EXIT", "none"}
PlainFrames ==
  [kind : PlainKinds, part : {"body", "cond"}, op : Ops, ne : BOOLEAN, save : BOOLEAN, val : Int]
FunFrames ==
  [kind : {"fun"}, part : {"body", "exit"}, op : Ops, ne : BOOLEAN, noreturnval : BOOLEAN,
   val : Int, ob : {0}, ex : BOOLEAN, newexit : BOOLEAN]
TrapFrames ==
  [kind : {"trap"}, part : {"body"}, op : Ops, ne : BOOLEAN, sig : Signals,
   back : Backs, ob : Int, val : Int, tr : Int, oc : BOOLEAN, oret : BOOLEAN]
Frames == PlainFrames \union FunFrames \union TrapFrames

Pcs == {"next", "command", "chain", "ended", "check", "told", "turn", "left", "line", "eof", "gone"}

Scalars ==
  /\ pc \in Pcs /\ lastval \in Int /\ breaks \in Int /\ trapreturn \in Int
  /\ contflag \in BOOLEAN /\ retflag \in BOOLEAN /\ errflag \in BOOLEAN
  /\ noerrexit \in BOOLEAN /\ donetrap \in BOOLEAN /\ exittrap \in BOOLEAN
  /\ setup \in Setups

\* What an activation may stand on: the EXIT trap of a function runs when its body is
\* done; a function that is a trap is called by the trap, which does nothing else.
Over(f, g) ==
  /\ g.kind # "top"
  /\ f.part = "exit" => g.kind = "trap" /\ g.back = "left"
  /\ g.kind = "trap" /\ g.back = "left" => f.kind = "fun" /\ f.part = "exit" /\ f.op = "END"
  /\ g.kind = "fun" /\ g.noreturnval => f.kind = "trap" /\ f.op = "END"

\* What is true of a frame by itself.
Whole(f) ==
  /\ f.kind = "fun" /\ f.newexit => f.part = "exit"
  /\ f.part = "cond" => f.kind \in {"if", "while", "until"}

Built(s) ==
  /\ s[1].kind = "top"
  /\ \A i \in 1 .. Len(s) : Whole(s[i])
  /\ \A i \in 1 .. Len(s) - 1 : Over(s[i], s[i + 1])

Sound(s) == s \in Seq(Frames) /\ s # << >> /\ Built(s)

\* Which activation is on top at which place.
Place(f, at) ==
  /\ at = "line" => f.kind \in {"top", "source"}
  /\ at = "eof" => f.kind = "source"
  /\ at = "turn" => f.kind \in LoopKinds /\ f.part = "body"
  /\ at \in {"left", "line", "eof", "turn"} => f.op = "END"
  /\ f.part = "exit" => at \in {"left", "gone"}

Shape == Scalars /\ Sound(stack) /\ Place(Top, pc)

\* A construct whose status is tested, or whose && or || is being executed.
Inside(f) == f.ne \/ f.op # "END"
\* noerrexit as the construct was entered.
Entry(f) == IF f.part = "cond" THEN f.save ELSE f.ne

\* A condition is tested; a loop that is not in its condition is as it was entered; a
\* list that is executed for ERREXIT is not tested.  No trap is a DEBUG trap.
Framed(f) ==
  /\ f.part = "cond" => f.ne
  /\ f.kind \in LoopKinds /\ f.part = "body" => (f.save <=> f.ne)
  /\ f.kind = "trap" => f.back # "check" /\ (f.back = "told" => ~f.ne)

\* noerrexit is handed on from construct to construct, and what is tested shields
\* everything in it.
Linked(s) ==
  /\ \A i \in 1 .. Len(s) : Framed(s[i])
  /\ \A i \in 1 .. Len(s) - 1 : Entry(s[i + 1]) <=> Inside(s[i])
  /\ \A i, j \in 1 .. Len(s) : i < j /\ Inside(s[i]) => Entry(s[j])

\* noerrexit is that of the construct, or of its sublist.
TestedAt(f, at, tested, done) ==
  /\ at \in {"command", "chain"} => (tested <=> Inside(f))
  /\ at \in {"ended", "check"} /\ f.op # "END" => done
  /\ at \in {"check", "next", "left", "line", "eof", "turn", "told"} => (tested <=> f.ne)
  /\ at = "told" => ~tested /\ f.op = "END"

Tested == Linked(stack) /\ TestedAt(Top, pc, noerrexit, donetrap)

\* ERREXIT and a DEBUG trap do not go together: the list of the trap resets donetrap
\* under the sublist that has ended, and the shell exits after false && true.
NoDebugTrap == \A s \in Setups : s.ERREXIT => s.DEBUG = "none"
Spares == setup.ERREXIT /\ setup.DEBUG = "none"

IInv == Shape /\ (Spares => Tested)

----------------------------------------------------------------------------
(* Frames.                                                                 *)

\* A frame that was changed and is still the activation it was.
Same(f, g) ==
  /\ f.kind = g.kind
  /\ f.kind = "trap" => f.back = g.back /\ f.ob = g.ob /\ f.val = g.val /\ f.tr = g.tr /\ f.oc = g.oc
  /\ f.kind = "fun" => f.noreturnval = g.noreturnval

\* Every frame has the fields that all of them have.
LEMMA FrameFields ==
  ASSUME NEW f \in Frames
  PROVE  /\ f.ne \in BOOLEAN /\ f.op \in Ops /\ f.part \in {"body", "cond", "exit"}
         /\ f.val \in Int
         /\ f.kind \in PlainKinds => f \in PlainFrames
         /\ f.kind = "fun" => f \in FunFrames
         /\ f.kind = "trap" => f \in TrapFrames
         /\ f.part = "cond" => f \in PlainFrames
         /\ f.part = "exit" => f \in FunFrames
  BY DEF Frames, PlainFrames, FunFrames, TrapFrames, PlainKinds, Ops

\* NextSublist and ChainTo change the type of the sublist, nothing else of the frame.
LEMMA OpChanges ==
  ASSUME NEW f \in Frames, NEW o \in Ops
  PROVE  LET g == [f EXCEPT !.op = o]
         IN /\ g \in Frames /\ Same(g, f) /\ (Whole(f) => Whole(g))
            /\ g.op = o /\ g.ne = f.ne /\ g.part = f.part /\ g.kind = f.kind
            /\ (Framed(f) => Framed(g)) /\ Entry(g) = Entry(f)
  <1> DEFINE g == [f EXCEPT !.op = o]
  <1>1. CASE f \in PlainFrames
    <2>1. g \in PlainFrames /\ g.op = o /\ g.ne = f.ne /\ g.part = f.part /\ g.kind = f.kind
          /\ g.save = f.save
      BY <1>1 DEF PlainFrames
    <2> HIDE DEF g
    <2>2. f.kind \notin {"trap", "fun"}
      BY <1>1 DEF PlainFrames, PlainKinds
    <2> QED BY <2>1, <2>2 DEF Same, Whole, Framed, Entry, Frames, g
  <1>2. CASE f \in FunFrames
    <2>1. g \in FunFrames /\ g.op = o /\ g.ne = f.ne /\ g.part = f.part /\ g.kind = f.kind
          /\ g.newexit = f.newexit /\ g.noreturnval = f.noreturnval
      BY <1>2 DEF FunFrames
    <2> HIDE DEF g
    <2>2. f.kind = "fun" /\ f.part # "cond"
      BY <1>2 DEF FunFrames
    <2> QED BY <2>1, <2>2 DEF Same, Whole, Framed, Entry, Frames, LoopKinds, g
  <1>3. CASE f \in TrapFrames
    <2>1. g \in TrapFrames /\ g.op = o /\ g.ne = f.ne /\ g.part = f.part /\ g.kind = f.kind
          /\ g.back = f.back /\ g.ob = f.ob /\ g.val = f.val /\ g.tr = f.tr /\ g.oc = f.oc
      BY <1>3 DEF TrapFrames
    <2> HIDE DEF g
    <2>2. f.kind = "trap" /\ f.part # "cond"
      BY <1>3 DEF TrapFrames
    <2> QED BY <2>1, <2>2 DEF Same, Whole, Framed, Entry, Frames, LoopKinds, g
  <1> QED BY <1>1, <1>2, <1>3 DEF Frames

\* What a construct changes of its frame when it goes from one of its lists to the next.
LEMMA PartChanges ==
  ASSUME NEW f \in PlainFrames, NEW p \in {"body", "cond"}, NEW b \in BOOLEAN
  PROVE  LET g == [f EXCEPT !.part = p, !.ne = b]
         IN /\ g \in Frames /\ Same(g, f)
            /\ g.op = f.op /\ g.ne = b /\ g.part = p /\ g.kind = f.kind /\ g.save = f.save
  <1> DEFINE g == [f EXCEPT !.part = p, !.ne = b]
  <1>1. g \in PlainFrames /\ g.op = f.op /\ g.ne = b /\ g.part = p /\ g.kind = f.kind
        /\ g.save = f.save
    BY DEF PlainFrames
  <1> HIDE DEF g
  <1>2. f.kind \notin {"trap", "fun"}
    BY DEF PlainFrames, PlainKinds
  <1> QED BY <1>1, <1>2 DEF Same, Frames, g

\* ReadLine sets what the list is executed with.
LEMMA NeChanges ==
  ASSUME NEW f \in PlainFrames, NEW b \in BOOLEAN
  PROVE  LET g == [f EXCEPT !.ne = b]
         IN /\ g \in Frames /\ Same(g, f)
            /\ g.op = f.op /\ g.ne = b /\ g.part = f.part /\ g.kind = f.kind /\ g.save = f.save
  <1> DEFINE g == [f EXCEPT !.ne = b]
  <1>1. g \in PlainFrames /\ g.op = f.op /\ g.ne = b /\ g.part = f.part /\ g.kind = f.kind
        /\ g.save = f.save
    BY DEF PlainFrames
  <1> HIDE DEF g
  <1>2. f.kind \notin {"trap", "fun"}
    BY DEF PlainFrames, PlainKinds
  <1> QED BY <1>1, <1>2 DEF Same, Frames, g

\* while and until keep the status of their body.
LEMMA ValChanges ==
  ASSUME NEW f \in PlainFrames, NEW v \in Int
  PROVE  LET g == [f EXCEPT !.val = v]
         IN /\ g \in Frames /\ Same(g, f)
            /\ g.op = f.op /\ g.ne = f.ne /\ g.part = f.part /\ g.kind = f.kind /\ g.save = f.save
  <1> DEFINE g == [f EXCEPT !.val = v]
  <1>1. g \in PlainFrames /\ g.op = f.op /\ g.ne = f.ne /\ g.part = f.part /\ g.kind = f.kind
        /\ g.save = f.save
    BY DEF PlainFrames
  <1> HIDE DEF g
  <1>2. f.kind \notin {"trap", "fun"}
    BY DEF PlainFrames, PlainKinds
  <1> QED BY <1>1, <1>2 DEF Same, Frames, g

\* A function whose body is done puts back the EXIT trap of its caller.
LEMMA ExitChanges ==
  ASSUME NEW f \in FunFrames, NEW b \in BOOLEAN
  PROVE  LET g == [f EXCEPT !.part = "exit", !.newexit = b]
             h == [f EXCEPT !.newexit = b]
         IN /\ g \in Frames /\ Same(g, f) /\ g.op = f.op /\ g.ne = f.ne /\ g.part = "exit"
            /\ g.kind = "fun"
            /\ h \in Frames /\ Same(h, f) /\ h.op = f.op /\ h.ne = f.ne /\ h.part = f.part
            /\ h.kind = "fun" /\ h.newexit = b
  <1> DEFINE g == [f EXCEPT !.part = "exit", !.newexit = b]
             h == [f EXCEPT !.newexit = b]
  <1>1. g \in FunFrames /\ g.op = f.op /\ g.ne = f.ne /\ g.part = "exit" /\ g.kind = "fun"
        /\ g.noreturnval = f.noreturnval
    BY DEF FunFrames
  <1>2. h \in FunFrames /\ h.op = f.op /\ h.ne = f.ne /\ h.part = f.part /\ h.kind = "fun"
        /\ h.noreturnval = f.noreturnval /\ h.newexit = b
    BY DEF FunFrames
  <1> HIDE DEF g, h
  <1>3. f.kind = "fun"
    BY DEF FunFrames
  <1> QED BY <1>1, <1>2, <1>3 DEF Same, Frames, g, h

\* The frames that the constructs push.
LEMMA NewFrame ==
  ASSUME NEW k \in PlainKinds, NEW b \in BOOLEAN
  PROVE  LET g == Frame(k, b)
         IN /\ g \in Frames /\ g.kind = k /\ g.part = "body" /\ g.op = "END" /\ g.ne = b
            /\ Framed(g) /\ Entry(g) = b /\ Whole(g)
  BY DEF Frame, Frames, PlainFrames, Ops, PlainKinds, Framed, Entry, Whole

\* An if begins with its condition.
LEMMA NewIf ==
  ASSUME NEW b \in BOOLEAN
  PROVE  LET g == [Frame("if", TRUE) EXCEPT !.part = "cond", !.save = b]
         IN /\ g \in Frames /\ g.kind = "if" /\ g.part = "cond" /\ g.op = "END" /\ g.ne = TRUE
            /\ Framed(g) /\ Entry(g) = b /\ Whole(g)
  <1> DEFINE f == Frame("if", TRUE)
             g == [f EXCEPT !.part = "cond", !.save = b]
  <1>1. f \in PlainFrames /\ f.kind = "if" /\ f.op = "END" /\ f.ne = TRUE
    BY DEF Frame, PlainFrames, PlainKinds, Ops
  <1> HIDE DEF f
  <1>2. /\ g \in PlainFrames /\ g.kind = "if" /\ g.part = "cond" /\ g.op = "END"
        /\ g.ne = TRUE /\ g.save = b
    BY <1>1 DEF PlainFrames
  <1> HIDE DEF g
  <1>3. g \in Frames /\ Framed(g) /\ Entry(g) = b /\ Whole(g)
    BY <1>2 DEF Frames, Framed, Entry, Whole, LoopKinds
  <1> QED BY <1>2, <1>3 DEF f, g

\* A function that is called.
LEMMA NewFun ==
  ASSUME NEW r \in BOOLEAN, NEW b \in BOOLEAN, lastval \in Int, exittrap \in BOOLEAN
  PROVE  LET g == FunFrame(r, b)
         IN /\ g \in Frames /\ g.kind = "fun" /\ g.part = "body" /\ g.op = "END" /\ g.ne = b
            /\ g.noreturnval = r /\ Framed(g) /\ Entry(g) = b /\ Whole(g)
  <1> DEFINE v == IF r THEN lastval ELSE 0
             g == FunFrame(r, b)
  <1>1. v \in Int
    OBVIOUS
  <1> HIDE DEF v
  <1>2. g = [kind |-> "fun", part |-> "body", op |-> "END", ne |-> b, noreturnval |-> r,
             val |-> v, ob |-> 0, ex |-> exittrap, newexit |-> FALSE]
    BY DEF FunFrame, v
  <1> HIDE DEF g
  <1> QED BY <1>1, <1>2 DEF g, Frames, FunFrames, Ops, Framed, Entry, Whole, LoopKinds

\* A trap that is run.
LEMMA NewTrap ==
  ASSUME NEW sig \in Signals, NEW back \in Backs, NEW b \in BOOLEAN,
         breaks \in Int, lastval \in Int, trapreturn \in Int, contflag \in BOOLEAN, retflag \in BOOLEAN
  PROVE  LET g == TrapFrame(sig, back, b)
         IN /\ g \in Frames /\ g.kind = "trap" /\ g.part = "body" /\ g.op = "END" /\ g.ne = b
            /\ g.back = back /\ Entry(g) = b /\ Whole(g)
            /\ (back # "check" /\ (back = "told" => ~b) => Framed(g))
  BY DEF TrapFrame, Frames, TrapFrames, Ops, Framed, Entry, Whole, LoopKinds

----------------------------------------------------------------------------
(* The stack.                                                              *)

\* The frames of a stack.
LEMMA StackFrames ==
  ASSUME NEW s \in Seq(Frames), s # << >>
  PROVE  /\ Len(s) \in Nat /\ Len(s) >= 1
         /\ Last(s) = s[Len(s)] /\ Last(s) \in Frames
         /\ \A i \in 1 .. Len(s) : s[i] \in Frames
  BY DEF Last

\* SetTop: the other frames stay.
LEMMA Setting ==
  ASSUME NEW s \in Seq(Frames), s # << >>, NEW f \in Frames
  PROVE  LET t == Append(Front(s), f)
         IN /\ t \in Seq(Frames) /\ t # << >> /\ Len(t) = Len(s) /\ Last(t) = f /\ t[Len(s)] = f
            /\ \A i \in 1 .. Len(s) - 1 : t[i] = s[i]
  <1> DEFINE u == SubSeq(s, 1, Len(s) - 1)
             t == Append(u, f)
  <1>1. PICK n \in Nat : n = Len(s) /\ n >= 1
    BY StackFrames
  <1>2. /\ u \in Seq(Frames) /\ Len(u) = n - 1
        /\ \A i \in 1 .. n - 1 : u[i] = s[i]
    BY <1>1
  <1> HIDE DEF u
  <1>3. /\ t \in Seq(Frames) /\ Len(t) = n /\ t[n] = f
        /\ \A i \in 1 .. n - 1 : t[i] = u[i]
    BY <1>1, <1>2
  <1>4. t # << >>
    BY <1>1, <1>3
  <1> HIDE DEF t
  <1>5. Last(t) = f
    BY <1>3 DEF Last
  <1> QED BY <1>1, <1>2, <1>3, <1>4, <1>5 DEF t, u, Front

\* A call.
LEMMA Pushing ==
  ASSUME NEW s \in Seq(Frames), s # << >>, NEW f \in Frames
  PROVE  LET t == Append(s, f)
         IN /\ t \in Seq(Frames) /\ t # << >> /\ Len(t) = Len(s) + 1 /\ Last(t) = f /\ t[Len(s) + 1] = f
            /\ \A i \in 1 .. Len(s) : t[i] = s[i]
  <1> DEFINE t == Append(s, f)
  <1>1. PICK n \in Nat : n = Len(s) /\ n >= 1
    BY StackFrames
  <1>3. /\ t \in Seq(Frames) /\ Len(t) = n + 1 /\ t[n + 1] = f
        /\ \A i \in 1 .. n : t[i] = s[i]
    BY <1>1
  <1>4. t # << >>
    BY <1>1, <1>3
  <1> HIDE DEF t
  <1>5. Last(t) = f
    BY <1>3 DEF Last
  <1> QED BY <1>1, <1>3, <1>4, <1>5 DEF t

\* A return.
LEMMA Popping ==
  ASSUME NEW s \in Seq(Frames), Len(s) >= 2
  PROVE  LET t == Front(s)
         IN /\ t \in Seq(Frames) /\ t # << >> /\ Len(t) = Len(s) - 1 /\ Last(t) = s[Len(s) - 1]
            /\ \A i \in 1 .. Len(s) - 1 : t[i] = s[i]
  <1> DEFINE t == SubSeq(s, 1, Len(s) - 1)
  <1>1. PICK n \in Nat : n = Len(s) /\ n >= 2
    OBVIOUS
  <1>3. /\ t \in Seq(Frames) /\ Len(t) = n - 1
        /\ \A i \in 1 .. n - 1 : t[i] = s[i]
    BY <1>1
  <1> HIDE DEF t
  <1>4. t # << >>
    <2>1. Len(t) >= 1
      BY <1>1, <1>3
    <2> QED BY <2>1
  <1>5. Last(t) = s[n - 1]
    BY <1>1, <1>3 DEF Last
  <1> QED BY <1>1, <1>3, <1>4, <1>5 DEF t, Front

\* Two calls at once are one after the other.
LEMMA Twice ==
  ASSUME NEW s \in Seq(Frames), NEW f \in Frames, NEW g \in Frames
  PROVE  s \o <<f, g>> = Append(Append(s, f), g)
  OBVIOUS

\* The parts of a sound stack; whatever is not the read loop stands on something.
LEMMA SoundParts ==
  ASSUME NEW s, Sound(s)
  PROVE  /\ s \in Seq(Frames) /\ s # << >> /\ Last(s) \in Frames /\ Whole(Last(s))
         /\ Len(s) \in Nat /\ Len(s) >= 1 /\ Last(s) = s[Len(s)]
         /\ Last(s).kind # "top" => Len(s) >= 2
  <1>1. s \in Seq(Frames) /\ s # << >> /\ Built(s)
    BY DEF Sound
  <1>2. PICK n \in Nat : n = Len(s) /\ n >= 1 /\ (n = 1 \/ n >= 2)
    BY <1>1, StackFrames
  <1>3. Last(s) = s[n] /\ Last(s) \in Frames
    BY <1>1, <1>2, StackFrames
  <1>4. Whole(s[n]) /\ s[1].kind = "top"
    BY <1>1, <1>2 DEF Built
  <1> QED BY <1>1, <1>2, <1>3, <1>4

\* A frame that is changed leaves the stack sound, and linked if the frame is.
LEMMA SoundSet ==
  ASSUME NEW s, Sound(s), NEW f \in Frames, Same(f, Last(s)), Whole(f)
  PROVE  LET t == Append(Front(s), f)
         IN /\ Sound(t) /\ Last(t) = f
            /\ Linked(s) /\ Framed(f) /\ (Entry(f) <=> Entry(Last(s))) => Linked(t)
  <1> DEFINE t == Append(Front(s), f)
  <1>1. s \in Seq(Frames) /\ s # << >> /\ Built(s)
    BY DEF Sound
  <1>2. PICK n \in Nat : n = Len(s) /\ n >= 1 /\ Last(s) = s[n]
    BY <1>1, StackFrames
  <1>3. /\ t \in Seq(Frames) /\ t # << >> /\ Len(t) = n /\ Last(t) = f /\ t[n] = f
        /\ \A i \in 1 .. n - 1 : t[i] = s[i]
    BY <1>1, <1>2, Setting
  <1> HIDE DEF t
  <1>4. t[1].kind = "top"
    <2>1. CASE n = 1
      BY <2>1, <1>1, <1>2, <1>3 DEF Built, Same
    <2>2. CASE n # 1
      BY <2>2, <1>1, <1>2, <1>3 DEF Built
    <2> QED BY <2>1, <2>2
  <1>5. ASSUME NEW i \in 1 .. n PROVE Whole(t[i])
    <2>1. CASE i = n
      BY <2>1, <1>3
    <2>2. CASE i # n
      <3>1. i \in 1 .. n - 1
        BY <2>2, <1>2
      <3> QED BY <3>1, <1>1, <1>2, <1>3 DEF Built
    <2> QED BY <2>1, <2>2
  <1>6. ASSUME NEW i \in 1 .. n - 1 PROVE Over(t[i], t[i + 1])
    <2>1. Over(s[i], s[i + 1]) /\ t[i] = s[i]
      BY <1>1, <1>2, <1>3 DEF Built
    <2>2. CASE i + 1 = n
      BY <2>1, <2>2, <1>2, <1>3 DEF Over, Same
    <2>3. CASE i + 1 # n
      BY <2>1, <2>3, <1>2, <1>3
    <2> QED BY <2>2, <2>3
  <1>7. Sound(t)
    BY <1>3, <1>4, <1>5, <1>6 DEF Sound, Built
  <1>8. ASSUME Linked(s), Framed(f), Entry(f) <=> Entry(Last(s)) PROVE Linked(t)
    <2>1. ASSUME NEW i \in 1 .. n PROVE Framed(t[i]) /\ (Entry(t[i]) <=> Entry(s[i]))
      <3>1. CASE i = n
        BY <3>1, <1>8, <1>2, <1>3
      <3>2. CASE i # n
        <4>1. i \in 1 .. n - 1
          BY <3>2, <1>2
        <4> QED BY <4>1, <1>8, <1>2, <1>3 DEF Linked
      <3> QED BY <3>1, <3>2
    <2>2. ASSUME NEW i \in 1 .. n - 1 PROVE Entry(t[i + 1]) <=> Inside(t[i])
      <3>1. i + 1 \in 1 .. n /\ t[i] = s[i] /\ (Entry(s[i + 1]) <=> Inside(s[i]))
        BY <1>8, <1>2, <1>3 DEF Linked
      <3> QED BY <3>1, <2>1
    <2>3. ASSUME NEW i \in 1 .. n, NEW j \in 1 .. n, i < j, Inside(t[i]) PROVE Entry(t[j])
      <3>1. t[i] = s[i]
        BY <2>3, <1>2, <1>3
      <3>2. Entry(s[j])
        BY <2>3, <3>1, <1>8, <1>2 DEF Linked
      <3> QED BY <3>2, <2>1
    <2> QED BY <2>1, <2>2, <2>3, <1>2, <1>3 DEF Linked
  <1> QED BY <1>3, <1>7, <1>8 DEF t

\* A call leaves the stack sound if the new activation may stand on the old one, and
\* linked if it was entered with noerrexit set exactly if the old one tests.
LEMMA SoundPush ==
  ASSUME NEW s, Sound(s), NEW g \in Frames, Over(Last(s), g), Whole(g)
  PROVE  LET t == Append(s, g)
         IN /\ Sound(t) /\ Last(t) = g
            /\ Linked(s) /\ Framed(g) /\ (Entry(g) <=> Inside(Last(s))) => Linked(t)
  <1> DEFINE t == Append(s, g)
  <1>1. s \in Seq(Frames) /\ s # << >> /\ Built(s)
    BY DEF Sound
  <1>2. PICK n \in Nat : n = Len(s) /\ n >= 1 /\ Last(s) = s[n] /\ s[n] \in Frames
    BY <1>1, StackFrames
  <1>3. /\ t \in Seq(Frames) /\ t # << >> /\ Len(t) = n + 1 /\ Last(t) = g /\ t[n + 1] = g
        /\ \A i \in 1 .. n : t[i] = s[i]
    BY <1>1, <1>2, Pushing
  <1> HIDE DEF t
  <1>4. t[1].kind = "top"
    BY <1>1, <1>2, <1>3 DEF Built
  <1>5. ASSUME NEW i \in 1 .. n + 1 PROVE Whole(t[i])
    <2>1. CASE i = n + 1
      BY <2>1, <1>3
    <2>2. CASE i # n + 1
      <3>1. i \in 1 .. n
        BY <2>2, <1>2
      <3> QED BY <3>1, <1>1, <1>2, <1>3 DEF Built
    <2> QED BY <2>1, <2>2
  <1>6. ASSUME NEW i \in 1 .. n PROVE Over(t[i], t[i + 1])
    <2>1. CASE i = n
      BY <2>1, <1>2, <1>3
    <2>2. CASE i # n
      <3>1. i \in 1 .. n - 1 /\ t[i] = s[i] /\ t[i + 1] = s[i + 1]
        BY <2>2, <1>2, <1>3
      <3> QED BY <3>1, <1>1, <1>2 DEF Built
    <2> QED BY <2>1, <2>2
  <1>7. Sound(t)
    BY <1>2, <1>3, <1>4, <1>5, <1>6 DEF Sound, Built
  <1>8. ASSUME Linked(s), Framed(g), Entry(g) <=> Inside(Last(s)) PROVE Linked(t)
    <2>1. ASSUME NEW i \in 1 .. n + 1 PROVE Framed(t[i])
      <3>1. CASE i = n + 1
        BY <3>1, <1>8, <1>3
      <3>2. CASE i # n + 1
        <4>1. i \in 1 .. n
          BY <3>2, <1>2
        <4> QED BY <4>1, <1>8, <1>2, <1>3 DEF Linked
      <3> QED BY <3>1, <3>2
    <2>2. ASSUME NEW i \in 1 .. n PROVE Entry(t[i + 1]) <=> Inside(t[i])
      <3>1. CASE i = n
        BY <3>1, <1>8, <1>2, <1>3
      <3>2. CASE i # n
        <4>1. i \in 1 .. n - 1 /\ t[i] = s[i] /\ t[i + 1] = s[i + 1]
          BY <3>2, <1>2, <1>3
        <4> QED BY <4>1, <1>8, <1>2 DEF Linked
      <3> QED BY <3>1, <3>2
    <2>3. Entry(s[n]) => Inside(s[n])
      <3>1. Framed(s[n])
        BY <1>8, <1>2 DEF Linked
      <3> QED BY <3>1 DEF Framed, Entry, Inside
    <2>4. ASSUME NEW i \in 1 .. n + 1, NEW j \in 1 .. n + 1, i < j, Inside(t[i]) PROVE Entry(t[j])
      <3>1. i \in 1 .. n /\ t[i] = s[i]
        BY <2>4, <1>2, <1>3
      <3>2. CASE j = n + 1 /\ i = n
        BY <3>2, <3>1, <2>4, <1>8, <1>2, <1>3
      <3>3. CASE j = n + 1 /\ i # n
        <4>1. i < n /\ n \in 1 .. n
          BY <3>1, <3>3, <1>2
        <4>2. Entry(s[n])
          BY <4>1, <3>1, <2>4, <1>8, <1>2 DEF Linked
        <4> QED BY <4>2, <2>3, <3>3, <1>8, <1>2, <1>3
      <3>4. CASE j # n + 1
        <4>1. j \in 1 .. n /\ t[j] = s[j]
          BY <3>4, <1>2, <1>3
        <4> QED BY <4>1, <3>1, <2>4, <1>8, <1>2 DEF Linked
      <3> QED BY <3>2, <3>3, <3>4
    <2> QED BY <2>1, <2>2, <2>4, <1>2, <1>3 DEF Linked
  <1> QED BY <1>3, <1>7, <1>8 DEF t

\* A return leaves the stack sound and linked; what was called stood on what is on top.
LEMMA SoundPop ==
  ASSUME NEW s, Sound(s), Last(s).kind # "top"
  PROVE  LET t == Front(s)
         IN /\ Sound(t) /\ Over(Last(t), Last(s)) /\ Last(t) \in Frames
            /\ Linked(s) => Linked(t) /\ (Entry(Last(s)) <=> Inside(Last(t))) /\ Framed(Last(s))
  <1> DEFINE t == Front(s)
  <1>1. s \in Seq(Frames) /\ s # << >> /\ Built(s)
    BY DEF Sound
  <1>2. PICK n \in Nat : n = Len(s) /\ n >= 2 /\ Last(s) = s[n]
    BY SoundParts
  <1>3. /\ t \in Seq(Frames) /\ t # << >> /\ Len(t) = n - 1 /\ Last(t) = s[n - 1]
        /\ \A i \in 1 .. n - 1 : t[i] = s[i]
    BY <1>1, <1>2, Popping
  <1> HIDE DEF t
  <1>4. t[1].kind = "top" /\ \A i \in 1 .. n - 1 : Whole(t[i])
    BY <1>1, <1>2, <1>3 DEF Built
  <1>5. ASSUME NEW i \in 1 .. n - 1 - 1 PROVE Over(t[i], t[i + 1])
    <2>1. i \in 1 .. n - 1 /\ t[i] = s[i] /\ t[i + 1] = s[i + 1]
      BY <1>2, <1>3
    <2> QED BY <2>1, <1>1, <1>2 DEF Built
  <1>6. Sound(t)
    BY <1>2, <1>3, <1>4, <1>5 DEF Sound, Built
  <1>7. n - 1 \in 1 .. n - 1 /\ n - 1 + 1 = n
    BY <1>2
  <1>8. Over(s[n - 1], s[n])
    BY <1>1, <1>2, <1>7 DEF Built
  <1>9. Last(t) \in Frames
    BY <1>3, StackFrames
  <1>10. ASSUME Linked(s)
         PROVE  Linked(t) /\ (Entry(s[n]) <=> Inside(s[n - 1])) /\ Framed(s[n])
    <2>1. \A i \in 1 .. n - 1 : Framed(t[i])
      BY <1>10, <1>2, <1>3 DEF Linked
    <2>2. ASSUME NEW i \in 1 .. n - 1 - 1 PROVE Entry(t[i + 1]) <=> Inside(t[i])
      <3>1. i \in 1 .. n - 1 /\ t[i] = s[i] /\ t[i + 1] = s[i + 1]
        BY <1>2, <1>3
      <3> QED BY <3>1, <1>10, <1>2 DEF Linked
    <2>3. ASSUME NEW i \in 1 .. n - 1, NEW j \in 1 .. n - 1, i < j, Inside(t[i]) PROVE Entry(t[j])
      <3>1. i \in 1 .. n /\ j \in 1 .. n /\ t[i] = s[i] /\ t[j] = s[j]
        BY <1>2, <1>3
      <3> QED BY <3>1, <2>3, <1>10, <1>2 DEF Linked
    <2>4. Linked(t)
      BY <2>1, <2>2, <2>3, <1>2, <1>3 DEF Linked
    <2>5. (Entry(s[n]) <=> Inside(s[n - 1])) /\ Framed(s[n])
      BY <1>7, <1>10, <1>2 DEF Linked
    <2> QED BY <2>4, <2>5
  <1> QED BY <1>2, <1>3, <1>6, <1>8, <1>9, <1>10 DEF t

----------------------------------------------------------------------------
(* Steps.  A step keeps the stack, changes its top, calls or returns.      *)

\* The number of loops is a number.
LEMMA LoopsAreCounted == Sound(stack) => loops \in Nat
  <1> SUFFICES ASSUME Sound(stack) PROVE loops \in Nat
    OBVIOUS
  <1>1. PICK n \in Nat : n = Len(stack) /\ DOMAIN stack = 1 .. n
    BY SoundParts
  <1>2. IsFiniteSet(1 .. n)
    BY FS_Interval
  <1>3. LoopFrames \subseteq 1 .. n
    BY <1>1 DEF LoopFrames
  <1>4. IsFiniteSet(LoopFrames)
    BY <1>2, <1>3, FS_Subset
  <1> QED BY <1>4, FS_CardinalityType DEF loops

\* A step that leaves the stack alone.
LEMMA Stays ==
  ASSUME Sound(stack), stack' = stack, Scalars', setup' = setup, Place(Top, pc'),
         Spares => Linked(stack) /\ TestedAt(Top, pc', noerrexit', donetrap')
  PROVE  IInv'
  <1>1. Top' = Top
    BY DEF Top
  <1> QED BY <1>1 DEF IInv, Shape, Tested, Spares

\* A step that changes the frame on top.
LEMMA Changes ==
  ASSUME NEW f \in Frames, Sound(stack), SetTop(f), Same(f, Top), Whole(f),
         Scalars', setup' = setup, Place(f, pc'),
         Spares => /\ Linked(stack) /\ Framed(f) /\ (Entry(f) <=> Entry(Top))
                          /\ TestedAt(f, pc', noerrexit', donetrap')
  PROVE  IInv'
  <1>1. stack' = Append(Front(stack), f)
    BY DEF SetTop, Under
  <1>2. Sound(stack') /\ Last(stack') = f /\ (Spares => Linked(stack'))
    BY <1>1, SoundSet DEF Top
  <1>3. Top' = f
    BY <1>2 DEF Top
  <1> QED BY <1>2, <1>3 DEF IInv, Shape, Tested, Spares

\* A step that calls.
LEMMA Calls ==
  ASSUME NEW g \in Frames, Sound(stack), stack' = Append(stack, g), Over(Top, g), Whole(g),
         Scalars', setup' = setup, Place(g, pc'),
         Spares => /\ Linked(stack) /\ Framed(g) /\ (Entry(g) <=> Inside(Top))
                          /\ TestedAt(g, pc', noerrexit', donetrap')
  PROVE  IInv'
  <1>2. Sound(stack') /\ Last(stack') = g /\ (Spares => Linked(stack'))
    BY SoundPush DEF Top
  <1>3. Top' = g
    BY <1>2 DEF Top
  <1> QED BY <1>2, <1>3 DEF IInv, Shape, Tested, Spares

\* A step that returns to the construct that called.
LEMMA Returns ==
  ASSUME Sound(stack), stack' = Under, Top.kind # "top", Scalars', setup' = setup,
         \A f \in Frames : Over(f, Top) => Place(f, pc'),
         Spares =>
           /\ Linked(stack)
           /\ \A f \in Frames : Over(f, Top) /\ (Entry(Top) <=> Inside(f)) /\ Framed(Top)
                                  => TestedAt(f, pc', noerrexit', donetrap')
  PROVE  IInv'
  <1> DEFINE f == Last(stack')
  <1>1. Sound(stack') /\ Over(f, Top) /\ f \in Frames
    BY SoundPop DEF Top, Under
  <1>2. Spares => Linked(stack') /\ (Entry(Top) <=> Inside(f)) /\ Framed(Top)
    BY SoundPop DEF Top, Under
  <1>3. Top' = f
    BY DEF Top
  <1> HIDE DEF f
  <1>4. Place(f, pc')
    BY <1>1
  <1>5. Spares => TestedAt(f, pc', noerrexit', donetrap')
    BY <1>1, <1>2
  <1> QED BY <1>1, <1>2, <1>3, <1>4, <1>5 DEF IInv, Shape, Tested, Spares

\* What is known at the beginning of a step.
LEMMA Before ==
  ASSUME IInv
  PROVE  /\ Sound(stack) /\ Scalars /\ Place(Top, pc)
         /\ stack \in Seq(Frames) /\ Top \in Frames /\ Whole(Top) /\ loops \in Nat
         /\ Top.ne \in BOOLEAN /\ Top.op \in Ops /\ Top.val \in Int
         /\ Spares => Linked(stack) /\ Framed(Top) /\ TestedAt(Top, pc, noerrexit, donetrap)
  <1>1. Sound(stack) /\ Scalars /\ Place(Top, pc)
    BY DEF IInv, Shape
  <1>2. /\ stack \in Seq(Frames) /\ Top \in Frames /\ Whole(Top) /\ Len(stack) \in 1 .. Len(stack)
        /\ Top = stack[Len(stack)]
    BY <1>1, SoundParts DEF Top
  <1>3. Top.ne \in BOOLEAN /\ Top.op \in Ops /\ Top.val \in Int
    BY <1>2, FrameFields
  <1>4. Spares => Linked(stack) /\ Framed(Top) /\ TestedAt(Top, pc, noerrexit, donetrap)
    BY <1>2 DEF IInv, Tested, Linked
  <1> QED BY <1>1, <1>2, <1>3, <1>4, LoopsAreCounted

----------------------------------------------------------------------------
(* The steps of execlist.                                                  *)

\* NextSublist: the type of the sublist decides whether it is tested.
LEMMA NextSublistKeeps ==
  ASSUME IInv, NextSublist, setup' = setup PROVE IInv'
  <1>1. PICK type \in Ops :
          /\ SetTop([Top EXCEPT !.op = type])
          /\ noerrexit' = IF Top.ne THEN noerrexit ELSE type # "END"
    BY DEF NextSublist, Ops
  <1> DEFINE f == [Top EXCEPT !.op = type]
  <1>2. /\ f \in Frames /\ Same(f, Top) /\ Whole(f) /\ f.op = type /\ f.ne = Top.ne
        /\ f.part = Top.part /\ f.kind = Top.kind
        /\ Entry(f) = Entry(Top) /\ (Framed(Top) => Framed(f))
    BY Before, OpChanges
  <1>3. SetTop(f)
    BY <1>1
  <1> HIDE DEF f
  <1>4. Scalars'
    BY <1>1, Before DEF NextSublist, Scalars, Pcs, control, traps
  <1>5. Place(f, pc')
    BY <1>2, Before DEF NextSublist, Place
  <1>6. Spares =>
          /\ Linked(stack) /\ Framed(f) /\ (Entry(f) <=> Entry(Top))
          /\ TestedAt(f, pc', noerrexit', donetrap')
    BY <1>1, <1>2, Before DEF NextSublist, TestedAt, Inside
  <1> QED BY <1>2, <1>3, <1>4, <1>5, <1>6, Before, Changes

\* What a pipeline returns is a number.
LEMMA StatusTyped == ASSUME lastval \in Int, NEW v \in PipelineStatus PROVE v \in Int
  <1>1. v = lastval \/ v \in {0, 1}
    BY Zenon DEF PipelineStatus
  <1>2. {0, 1} \subseteq Int
    OBVIOUS
  <1> QED BY <1>1, <1>2

\* ChainTo: the same for the next pipeline.
LEMMA ChainToKeeps ==
  ASSUME IInv, NEW type \in Ops, ChainTo(type), setup' = setup PROVE IInv'
  <1> DEFINE f == [Top EXCEPT !.op = type]
  <1>2. /\ f \in Frames /\ Same(f, Top) /\ Whole(f) /\ f.op = type /\ f.ne = Top.ne
        /\ f.part = Top.part /\ f.kind = Top.kind
        /\ Entry(f) = Entry(Top) /\ (Framed(Top) => Framed(f))
    BY Before, OpChanges
  <1>3. SetTop(f)
    BY DEF ChainTo
  <1> HIDE DEF f
  <1>4. Scalars'
    BY Before, StatusTyped DEF ChainTo, Scalars, Pcs, control, traps
  <1>5. Place(f, pc')
    BY <1>2, Before DEF ChainTo, Place
  <1>6. Spares =>
          /\ Linked(stack) /\ Framed(f) /\ (Entry(f) <=> Entry(Top))
          /\ TestedAt(f, pc', noerrexit', donetrap')
    BY <1>2, Before DEF ChainTo, TestedAt, Inside
  <1> QED BY <1>2, <1>3, <1>4, <1>5, <1>6, Before, Changes

\* ListEnds: the list is left as it was entered.
LEMMA ListEndsKeeps ==
  ASSUME IInv, ListEnds, setup' = setup PROVE IInv'
  <1> DEFINE f == [Top EXCEPT !.op = "END"]
  <1>1. "END" \in Ops
    BY DEF Ops
  <1>2. /\ f \in Frames /\ Same(f, Top) /\ Whole(f) /\ f.op = "END" /\ f.ne = Top.ne
        /\ f.part = Top.part /\ f.kind = Top.kind
        /\ Entry(f) = Entry(Top) /\ (Framed(Top) => Framed(f))
    BY <1>1, Before, OpChanges
  <1>3. SetTop(f)
    BY DEF ListEnds
  <1> HIDE DEF f
  <1>4. Scalars'
    BY Before DEF ListEnds, Scalars, Pcs, control, error, traps
  <1>5. Place(f, pc')
    BY <1>2, Before DEF ListEnds, Place
  <1>6. Spares =>
          /\ Linked(stack) /\ Framed(f) /\ (Entry(f) <=> Entry(Top))
          /\ TestedAt(f, pc', noerrexit', donetrap')
    BY <1>2, Before DEF ListEnds, TestedAt, error
  <1> QED BY <1>2, <1>3, <1>4, <1>5, <1>6, Before, Changes

\* A skipped pipeline changes the status at most.
LEMMA SkippedKeeps ==
  ASSUME IInv, Skipped, setup' = setup PROVE IInv'
  <1>1. Scalars'
    BY Before DEF Skipped, Scalars, Pcs, control, error, traps
  <1>2. stack' = stack
    BY DEF Skipped
  <1>3. Place(Top, pc')
    BY Before DEF Skipped, Place
  <1>4. Spares => Linked(stack) /\ TestedAt(Top, pc', noerrexit', donetrap')
    BY Before DEF Skipped, TestedAt, Inside, control, error, traps
  <1> QED BY <1>1, <1>2, <1>3, <1>4, Before, Stays

\* A skipped pipeline ends the sublist: ZERR and ERREXIT do not look at it.
LEMMA ChainSkipsKeeps ==
  ASSUME IInv, ChainSkips, setup' = setup PROVE IInv'
  <1>1. Scalars'
    BY Before, StatusTyped DEF ChainSkips, Scalars, Pcs, control, error, traps
  <1>2. stack' = stack
    BY DEF ChainSkips
  <1>3. Place(Top, pc')
    BY Before DEF ChainSkips, Place
  <1>4. Spares => Linked(stack) /\ TestedAt(Top, pc', noerrexit', donetrap')
    BY Before DEF ChainSkips, TestedAt, Inside, control, error, traps
  <1> QED BY <1>1, <1>2, <1>3, <1>4, Before, Stays

\* The last pipeline of a sublist ends it.
LEMMA ChainEndsKeeps ==
  ASSUME IInv, ChainEnds, setup' = setup PROVE IInv'
  <1>1. Scalars'
    BY Before, StatusTyped DEF ChainEnds, Scalars, Pcs, control, error, traps
  <1>2. stack' = stack
    BY DEF ChainEnds
  <1>3. Place(Top, pc')
    BY Before DEF ChainEnds, Place
  <1>4. Spares => Linked(stack) /\ TestedAt(Top, pc', noerrexit', donetrap')
    BY Before DEF ChainEnds, TestedAt, Inside, control, error, traps
  <1> QED BY <1>1, <1>2, <1>3, <1>4, Before, Stays

----------------------------------------------------------------------------
(* Commands.                                                               *)

\* A simple command changes the status.
LEMMA SimpleKeeps ==
  ASSUME IInv, Simple, setup' = setup PROVE IInv'
  <1>1. Scalars'
    BY Before DEF Simple, Scalars, Pcs, control, error, traps, Executing
  <1>2. stack' = stack
    BY DEF Simple, Executing
  <1>3. Place(Top, pc')
    BY Before DEF Simple, Place, Executing
  <1>4. Spares => Linked(stack) /\ TestedAt(Top, pc', noerrexit', donetrap')
    BY Before DEF Simple, TestedAt, Inside, control, error, traps, Executing
  <1> QED BY <1>1, <1>2, <1>3, <1>4, Before, Stays

\* An error sets errflag.
LEMMA FailsKeeps ==
  ASSUME IInv, Fails, setup' = setup PROVE IInv'
  <1>0. /\ errflag' = TRUE /\ TRUE \in BOOLEAN
        /\ lastval' = 1 /\ UNCHANGED <<control, traps>>
    BY Zenon DEF Fails
  <1>1a. errflag' \in BOOLEAN
    BY <1>0, Zenon
  <1>1b. breaks' \in Int /\ lastval' \in Int /\ trapreturn' \in Int
    <2>1. lastval' = 1 /\ UNCHANGED <<control, traps>>
      BY <1>0
    <2> QED BY <2>1, Before DEF Scalars, control, traps
  <1>1c. /\ pc' \in Pcs
         /\ contflag' \in BOOLEAN /\ retflag' \in BOOLEAN
         /\ noerrexit' \in BOOLEAN /\ donetrap' \in BOOLEAN /\ exittrap' \in BOOLEAN
         /\ setup' \in Setups
    BY Before DEF Fails, Executing, Scalars, Pcs, control, error, traps
  <1>1. Scalars'
    BY <1>1a, <1>1b, <1>1c DEF Scalars
  <1>2. stack' = stack
    BY DEF Fails, Executing
  <1>3. Place(Top, pc')
    BY Before DEF Fails, Place, Executing
  <1>4. Spares => Linked(stack) /\ TestedAt(Top, pc', noerrexit', donetrap')
    BY Before DEF Fails, TestedAt, Inside, control, error, traps, Executing
  <1> QED BY <1>1, <1>2, <1>3, <1>4, Before, Stays

\* trap ... EXIT sets the trap.
LEMMA BinTrapKeeps ==
  ASSUME IInv, bin_trap, setup' = setup PROVE IInv'
  <1>1. Scalars'
    BY Before DEF bin_trap, Scalars, Pcs, control, error, traps, Executing
  <1>2. stack' = stack
    BY DEF bin_trap, Executing
  <1>3. Place(Top, pc')
    BY Before DEF bin_trap, Place, Executing
  <1>4. Spares => Linked(stack) /\ TestedAt(Top, pc', noerrexit', donetrap')
    BY Before DEF bin_trap, TestedAt, Inside, control, error, traps, Executing
  <1> QED BY <1>1, <1>2, <1>3, <1>4, Before, Stays

\* break sets breaks.
LEMMA BinBreakKeeps ==
  ASSUME IInv, NEW n \in Jumps, bin_break(n), setup' = setup PROVE IInv'
  <1>0. Least(n, loops) \in Int
    BY Before, ConstantsAssumption DEF Least
  <1>1. Scalars'
    BY <1>0, Before DEF bin_break, Scalars, Pcs, control, error, traps, Executing
  <1>2. stack' = stack
    BY DEF bin_break, Executing
  <1>3. Place(Top, pc')
    BY Before DEF bin_break, Place, Executing
  <1>4. Spares => Linked(stack) /\ TestedAt(Top, pc', noerrexit', donetrap')
    BY Before DEF bin_break, TestedAt, Inside, control, error, traps, Executing
  <1> QED BY <1>1, <1>2, <1>3, <1>4, Before, Stays

\* continue sets breaks and contflag.
LEMMA BinContinueKeeps ==
  ASSUME IInv, NEW n \in Jumps, bin_continue(n), setup' = setup PROVE IInv'
  <1>0. Least(n, loops) \in Int
    BY Before, ConstantsAssumption DEF Least
  <1>1. Scalars'
    BY <1>0, Before DEF bin_continue, Scalars, Pcs, control, error, traps, Executing
  <1>2. stack' = stack
    BY DEF bin_continue, Executing
  <1>3. Place(Top, pc')
    BY Before DEF bin_continue, Place, Executing
  <1>4. Spares => Linked(stack) /\ TestedAt(Top, pc', noerrexit', donetrap')
    BY Before DEF bin_continue, TestedAt, Inside, control, error, traps, Executing
  <1> QED BY <1>1, <1>2, <1>3, <1>4, Before, Stays

\* return sets retflag and leaves all loops.
LEMMA BinReturnKeeps ==
  ASSUME IInv, NEW v \in {0, 1}, bin_return(v), setup' = setup PROVE IInv'
  <1>0. /\ retflag' = TRUE /\ TRUE \in BOOLEAN
        /\ breaks' = loops /\ lastval' = v /\ trapreturn' = IF trapreturn = -2 THEN v ELSE trapreturn
    BY Zenon DEF bin_return
  <1>1a. retflag' \in BOOLEAN
    BY <1>0, Zenon
  <1>1b. breaks' \in Int /\ lastval' \in Int /\ trapreturn' \in Int
    <2>1. breaks' = loops /\ lastval' = v /\ trapreturn' = IF trapreturn = -2 THEN v ELSE trapreturn
      BY <1>0
    <2> QED BY <2>1, Before DEF Scalars, control, traps
  <1>1c. /\ pc' \in Pcs
         /\ contflag' \in BOOLEAN /\ errflag' \in BOOLEAN
         /\ noerrexit' \in BOOLEAN /\ donetrap' \in BOOLEAN /\ exittrap' \in BOOLEAN
         /\ setup' \in Setups
    BY Before DEF bin_return, Executing, Scalars, Pcs, control, error, traps
  <1>1. Scalars'
    BY <1>1a, <1>1b, <1>1c DEF Scalars
  <1>2. stack' = stack
    BY DEF bin_return, Executing
  <1>3. Place(Top, pc')
    BY Before DEF bin_return, Place, Executing
  <1>4. Spares => Linked(stack) /\ TestedAt(Top, pc', noerrexit', donetrap')
    BY Before DEF bin_return, TestedAt, Inside, control, error, traps, Executing
  <1> QED BY <1>1, <1>2, <1>3, <1>4, Before, Stays

\* An interrupt leaves all loops and sets errflag.
LEMMA InterruptedKeeps ==
  ASSUME IInv, Interrupted, setup' = setup PROVE IInv'
  <1>0. /\ errflag' = TRUE /\ TRUE \in BOOLEAN
        /\ breaks' = loops /\ UNCHANGED <<lastval, traps>>
    BY Zenon DEF Interrupted
  <1>1a. errflag' \in BOOLEAN
    BY <1>0, Zenon
  <1>1b. breaks' \in Int /\ lastval' \in Int /\ trapreturn' \in Int
    <2>1. breaks' = loops /\ UNCHANGED <<lastval, traps>>
      BY <1>0
    <2> QED BY <2>1, Before DEF Scalars, control, traps
  <1>1c. /\ pc' \in Pcs
         /\ contflag' \in BOOLEAN /\ retflag' \in BOOLEAN
         /\ noerrexit' \in BOOLEAN /\ donetrap' \in BOOLEAN /\ exittrap' \in BOOLEAN
         /\ setup' \in Setups
    BY Before DEF Interrupted, Scalars, Pcs, control, error, traps
  <1>1. Scalars'
    BY <1>1a, <1>1b, <1>1c DEF Scalars
  <1>2. stack' = stack
    BY DEF Interrupted
  <1>3. Place(Top, pc')
    BY Before DEF Interrupted, Place
  <1>4. Spares => Linked(stack) /\ TestedAt(Top, pc', noerrexit', donetrap')
    BY Before DEF Interrupted, TestedAt, Inside, control, error, traps
  <1> QED BY <1>1, <1>2, <1>3, <1>4, Before, Stays

----------------------------------------------------------------------------
(* Traps, and the end of a sublist.                                        *)

\* dotrap: the trap is entered with what its caller tests, a function that is the trap
\* with the same.
LEMMA TrapStarts ==
  ASSUME Sound(stack), Scalars, NEW sig \in Signals, NEW style, NEW back \in {"check", "told", "gone"},
         NEW ne \in BOOLEAN, dotrap(sig, style, back, ne), Place(Top, back), Top.part # "exit"
  PROVE  /\ Sound(stack') /\ Place(Top', pc') /\ pc' \in Pcs
         /\ breaks' \in Int /\ trapreturn' \in Int /\ exittrap' \in BOOLEAN
         /\ Linked(stack) /\ (ne <=> Inside(Top)) /\ back # "check" /\ (back = "told" => ~ne)
              => /\ Linked(stack')
                 /\ \/ pc' = back /\ Top' = Top
                    \/ pc' = "next" /\ (Top'.ne <=> ne)
  <1> DEFINE t == TrapFrame(sig, back, ne)
             f == FunFrame(TRUE, ne)
             fit == Linked(stack) /\ (ne <=> Inside(Top)) /\ back # "check" /\ (back = "told" => ~ne)
  <1>1. CASE Ignored(sig)
    <2>1. pc' = back /\ stack' = stack /\ UNCHANGED <<breaks, traps>>
      BY <1>1 DEF dotrap
    <2>2. Top' = Top
      BY <2>1 DEF Top
    <2>3. pc' \in Pcs /\ breaks' \in Int /\ trapreturn' \in Int /\ exittrap' \in BOOLEAN
      BY <2>1 DEF Scalars, traps, Pcs
    <2> QED BY <2>1, <2>2, <2>3
  <1>2. CASE ~Ignored(sig)
    <2>1. /\ breaks' = 0 /\ pc' = "next"
          /\ \/ stack' = Append(stack, t) /\ UNCHANGED traps
             \/ stack' = stack \o <<t, f>> /\ trapreturn' = -2 /\ exittrap' = FALSE
      BY <1>2 DEF dotrap
    <2>2. back \in Backs
      BY DEF Backs
    <2>3. /\ t \in Frames /\ t.kind = "trap" /\ t.part = "body" /\ t.op = "END" /\ t.ne = ne
          /\ t.back = back /\ Entry(t) = ne /\ Whole(t)
          /\ (back # "check" /\ (back = "told" => ~ne) => Framed(t))
      BY <2>2, NewTrap DEF Scalars
    <2>4. /\ f \in Frames /\ f.kind = "fun" /\ f.part = "body" /\ f.op = "END" /\ f.ne = ne
          /\ f.noreturnval = TRUE /\ Framed(f) /\ Entry(f) = ne /\ Whole(f)
      BY NewFun DEF Scalars
    <2>5. stack \in Seq(Frames)
      BY DEF Sound
    <2> HIDE DEF t, f
    <2>6. Over(Last(stack), t)
      BY <2>3 DEF Over, Top
    <2> DEFINE s == Append(stack, t)
    <2>7. Sound(s) /\ Last(s) = t /\ (fit => Linked(s))
      BY <2>3, <2>6, SoundPush DEF Top
    <2>8. CASE stack' = s /\ UNCHANGED traps
      <3>1. Top' = t
        BY <2>7, <2>8 DEF Top
      <3>2. Place(t, "next")
        BY <2>3 DEF Place
      <3>3. pc' \in Pcs /\ breaks' \in Int /\ trapreturn' \in Int /\ exittrap' \in BOOLEAN
        BY <2>1, <2>8 DEF Pcs, Scalars, traps
      <3> HIDE DEF s
      <3> QED BY <2>1, <2>3, <2>7, <2>8, <3>1, <3>2, <3>3
    <2>9. CASE stack' = stack \o <<t, f>> /\ trapreturn' = -2 /\ exittrap' = FALSE
      <3>1. stack' = Append(s, f)
        BY <2>3, <2>4, <2>5, <2>9, Twice
      <3> HIDE DEF s
      <3>2. Over(Last(s), f)
        BY <2>3, <2>4, <2>7 DEF Over
      <3>3. Entry(f) <=> Inside(Last(s))
        BY <2>3, <2>4, <2>7 DEF Inside
      <3>4. Sound(stack') /\ Last(stack') = f /\ (fit => Linked(stack'))
        BY <2>4, <2>7, <3>1, <3>2, <3>3, SoundPush
      <3>5. Top' = f
        BY <3>4 DEF Top
      <3>6. Place(f, "next")
        BY <2>4 DEF Place
      <3>7. pc' \in Pcs /\ breaks' \in Int /\ trapreturn' \in Int
        BY <2>1, <2>9 DEF Pcs
      <3>8. exittrap' \in BOOLEAN
        BY <2>9
      <3> QED BY <2>1, <2>4, <3>4, <3>5, <3>6, <3>7, <3>8
    <2> QED BY <2>1, <2>8, <2>9
  <1> QED BY <1>1, <1>2

\* A step that calls dotrap keeps the invariant if ERREXIT calls it with what is tested.
LEMMA TrapKeeps ==
  ASSUME IInv, setup' = setup, UNCHANGED <<lastval, contflag, retflag, errflag>>,
         noerrexit' \in BOOLEAN, donetrap' \in BOOLEAN,
         NEW sig \in Signals, NEW style, NEW back \in {"check", "told", "gone"},
         NEW ne \in BOOLEAN, dotrap(sig, style, back, ne), Place(Top, back), Top.part # "exit",
         Spares => /\ (ne <=> Inside(Top)) /\ back # "check" /\ (back = "told" => ~ne)
                          /\ (noerrexit' <=> ne) /\ TestedAt(Top, back, noerrexit', donetrap')
  PROVE  IInv'
  <1>1. Sound(stack) /\ Scalars /\ (Spares => Linked(stack))
    BY Before
  <1>2. /\ Sound(stack') /\ Place(Top', pc') /\ pc' \in Pcs
        /\ breaks' \in Int /\ trapreturn' \in Int /\ exittrap' \in BOOLEAN
        /\ Linked(stack) /\ (ne <=> Inside(Top)) /\ back # "check" /\ (back = "told" => ~ne)
              => /\ Linked(stack')
                 /\ \/ pc' = back /\ Top' = Top
                    \/ pc' = "next" /\ (Top'.ne <=> ne)
    BY <1>1, TrapStarts
  <1>3. Scalars'
    BY <1>1, <1>2 DEF Scalars
  <1>4. ASSUME Spares PROVE Linked(stack') /\ TestedAt(Top', pc', noerrexit', donetrap')
    <2>1. Linked(stack')
      BY <1>1, <1>2, <1>4
    <2>2. CASE pc' = back /\ Top' = Top
      BY <1>4, <2>1, <2>2
    <2>3. CASE pc' = "next" /\ (Top'.ne <=> ne)
      BY <1>4, <2>1, <2>3 DEF TestedAt
    <2> QED BY <1>1, <1>2, <1>4, <2>2, <2>3
  <1> QED BY <1>2, <1>3, <1>4 DEF IInv, Shape, Tested, Spares

\* The shell is left: the EXIT trap runs as part of what left.
LEMMA LeavingKeeps ==
  ASSUME IInv, setup' = setup, UNCHANGED <<lastval, contflag, retflag, errflag, noerrexit>>,
         donetrap' \in BOOLEAN, LeaveShell, Top.part # "exit",
         Spares => (noerrexit <=> Inside(Top))
  PROVE  IInv'
  <1>1. TestedAt(Top, "gone", noerrexit', donetrap') /\ Place(Top, "gone")
    BY DEF TestedAt, Place
  <1>2. noerrexit \in BOOLEAN /\ Scalars
    BY Before DEF Scalars
  <1>3. CASE exittrap
    <2>1. dotrap("EXIT", "list", "gone", noerrexit)
      BY <1>3 DEF LeaveShell
    <2>2. "EXIT" \in Signals /\ "gone" \in {"check", "told", "gone"}
      BY DEF Signals
    <2> QED BY <1>1, <1>2, <2>1, <2>2, TrapKeeps
  <1>4. CASE ~exittrap
    <2>1. pc' = "gone" /\ stack' = stack /\ UNCHANGED <<breaks, traps>>
      BY <1>4 DEF LeaveShell
    <2>2. Scalars'
      BY <2>1, <1>2 DEF Scalars, traps, Pcs
    <2> QED BY <1>1, <2>1, <2>2, Before, Stays
  <1> QED BY <1>3, <1>4

\* exit leaves the shell.
LEMMA BinExitKeeps ==
  ASSUME IInv, bin_exit, setup' = setup PROVE IInv'
  <1>1. /\ pc = "command" /\ LeaveShell /\ donetrap' = donetrap
        /\ UNCHANGED <<lastval, contflag, retflag, errflag, noerrexit>>
    BY DEF bin_exit, Executing, error
  <1>2. Top.part # "exit" /\ donetrap' \in BOOLEAN
    BY <1>1, Before DEF Place, Scalars
  <1>3. Spares => (noerrexit <=> Inside(Top))
    BY <1>1, Before DEF TestedAt
  <1> QED BY <1>1, <1>2, <1>3, LeavingKeeps

\* ERREXIT strikes, or the list goes on.
LEMMA ExitOnErrorKeeps ==
  ASSUME IInv, setup' = setup, UNCHANGED <<lastval, contflag, retflag, errflag, noerrexit>>,
         donetrap' \in BOOLEAN, ExitOnError, Top.part # "exit",
         Spares => ~noerrexit /\ ~Inside(Top)
  PROVE  IInv'
  <1>1. CASE lastval # 0 /\ setup.ERREXIT
    <2>1. LeaveShell
      BY <1>1 DEF ExitOnError
    <2> QED BY <2>1, LeavingKeeps
  <1>2. CASE ~(lastval # 0 /\ setup.ERREXIT)
    <2>1. pc' = "next" /\ stack' = stack /\ UNCHANGED <<breaks, traps>>
      BY <1>2 DEF ExitOnError
    <2>2. Scalars'
      BY <2>1, Before DEF Scalars, traps, Pcs
    <2>3. Place(Top, "next")
      BY DEF Place
    <2>4. Spares => TestedAt(Top, "next", noerrexit', donetrap')
      BY DEF TestedAt, Inside
    <2> QED BY <2>1, <2>2, <2>3, <2>4, Before, Stays
  <1> QED BY <1>1, <1>2

\* The DEBUG trap is not one of ERREXIT.
LEMMA SublistDoneKeeps ==
  ASSUME IInv, SublistDone, setup' = setup PROVE IInv'
  <1>1. /\ pc = "ended" /\ noerrexit' = Top.ne /\ donetrap' = donetrap
        /\ UNCHANGED <<lastval, contflag, retflag, errflag>>
    BY DEF SublistDone
  <1>2. noerrexit' \in BOOLEAN /\ donetrap' \in BOOLEAN /\ Top.ne \in BOOLEAN
    BY <1>1, Before DEF Scalars
  <1>3. Place(Top, "check") /\ Top.part # "exit"
    BY <1>1, Before DEF Place
  <1>4. CASE setup.DEBUG = "none"
    <2>1. pc' = "check" /\ stack' = stack /\ UNCHANGED <<breaks, traps>>
      BY <1>4 DEF SublistDone
    <2>2. Scalars'
      BY <2>1, <1>1, <1>2, Before DEF Scalars, traps, Pcs
    <2>3. Spares => TestedAt(Top, "check", noerrexit', donetrap')
      BY <1>1, Before DEF TestedAt
    <2> QED BY <1>3, <2>1, <2>2, <2>3, Before, Stays
  <1>5. CASE setup.DEBUG # "none"
    <2>1. dotrap("DEBUG", setup.DEBUG, "check", Top.ne)
      BY <1>5 DEF SublistDone
    <2>2. "DEBUG" \in Signals /\ "check" \in {"check", "told", "gone"}
      BY DEF Signals
    <2>3. ~Spares
      BY <1>5 DEF Spares
    <2> QED BY <1>1, <1>2, <1>3, <2>1, <2>2, <2>3, TrapKeeps
  <1> QED BY <1>4, <1>5

\* ZERR and ERREXIT look at what is not tested.
LEMMA CheckStatusKeeps ==
  ASSUME IInv, CheckStatus, setup' = setup PROVE IInv'
  <1>1. /\ pc = "check" /\ donetrap' = donetrap
        /\ UNCHANGED <<lastval, contflag, retflag, errflag, noerrexit>>
    BY DEF CheckStatus, error
  <1>2. donetrap' \in BOOLEAN /\ noerrexit' \in BOOLEAN
    BY <1>1, Before DEF Scalars
  <1>3. Place(Top, "next") /\ Place(Top, "told") /\ Top.part # "exit"
    BY <1>1, Before DEF Place
  <1>4. Spares => (noerrexit <=> Top.ne) /\ (Top.op # "END" => donetrap)
    BY <1>1, Before DEF TestedAt
  <1>5. CASE noerrexit \/ donetrap
    <2>1. pc' = "next" /\ stack' = stack /\ UNCHANGED <<breaks, traps>>
      BY <1>5 DEF CheckStatus
    <2>2. Scalars'
      BY <2>1, <1>1, <1>2, Before DEF Scalars, traps, Pcs
    <2>3. Spares => TestedAt(Top, "next", noerrexit', donetrap')
      BY <1>1, <1>4 DEF TestedAt
    <2> QED BY <1>3, <2>1, <2>2, <2>3, Before, Stays
  <1>6. CASE ~noerrexit /\ ~donetrap
    <2>1. Spares => ~noerrexit /\ ~Inside(Top)
      BY <1>4, <1>6 DEF Inside
    <2>2. CASE lastval # 0 /\ setup.ZERR # "none"
      <3>1. dotrap("ZERR", setup.ZERR, "told", noerrexit)
        BY <1>6, <2>2, Zenon DEF CheckStatus
      <3>2. "ZERR" \in Signals /\ "told" \in {"check", "told", "gone"}
        BY DEF Signals
      <3>3. Spares => TestedAt(Top, "told", noerrexit', donetrap')
        BY <1>1, <2>1 DEF TestedAt, Inside
      <3>4. noerrexit \in BOOLEAN
        BY Before DEF Scalars
      <3> QED BY <1>1, <1>2, <1>3, <2>1, <3>1, <3>2, <3>3, <3>4, TrapKeeps
    <2>3. CASE ~(lastval # 0 /\ setup.ZERR # "none")
      <3>1. ExitOnError
        BY <1>6, <2>3, Zenon DEF CheckStatus
      <3> QED BY <1>1, <1>2, <1>3, <2>1, <3>1, ExitOnErrorKeeps
    <2> QED BY <2>2, <2>3
  <1> QED BY <1>5, <1>6

\* ERREXIT after the ZERR trap.
LEMMA TrapToldKeeps ==
  ASSUME IInv, TrapTold, setup' = setup PROVE IInv'
  <1>1. /\ pc = "told" /\ donetrap' = TRUE /\ ExitOnError
        /\ UNCHANGED <<lastval, contflag, retflag, errflag, noerrexit>>
    BY DEF TrapTold
  <1>2. donetrap' \in BOOLEAN
    BY <1>1
  <1>3. Top.part # "exit"
    BY <1>1, Before DEF Place
  <1>4. Spares => ~noerrexit /\ ~Inside(Top)
    BY <1>1, Before DEF TestedAt, Inside
  <1> QED BY <1>1, <1>2, <1>3, <1>4, ExitOnErrorKeeps

----------------------------------------------------------------------------
(* Constructs.                                                             *)

\* A construct whose list is executed as it is.
LEMMA EnteringKeeps ==
  ASSUME IInv, setup' = setup, pc = "command", UNCHANGED <<noerrexit, donetrap>>,
         NEW k \in PlainKinds \ {"top"}, NEW next \in {"next", "turn", "line"},
         Enter(Frame(k, noerrexit), next), Place(Frame(k, noerrexit), next), Scalars'
  PROVE  IInv'
  <1> DEFINE g == Frame(k, noerrexit)
  <1>1. noerrexit \in BOOLEAN
    BY Before DEF Scalars
  <1>2. /\ g \in Frames /\ g.kind = k /\ g.part = "body" /\ g.op = "END" /\ g.ne = noerrexit
        /\ Framed(g) /\ Entry(g) = noerrexit /\ Whole(g)
    BY <1>1, NewFrame
  <1>3. stack' = Append(stack, g) /\ pc' = next
    BY DEF Enter
  <1> HIDE DEF g
  <1>4. Over(Top, g)
    BY <1>2, Before DEF Over, Place, PlainKinds
  <1>5. Spares => (noerrexit <=> Inside(Top))
    BY Before DEF TestedAt
  <1>6. TestedAt(g, pc', noerrexit', donetrap')
    BY <1>1, <1>2, <1>3 DEF TestedAt
  <1>7. Place(g, pc')
    BY <1>3 DEF g
  <1>8. Spares => /\ Linked(stack) /\ Framed(g) /\ (Entry(g) <=> Inside(Top))
                         /\ TestedAt(g, pc', noerrexit', donetrap')
    BY <1>2, <1>5, <1>6, Before
  <1> QED BY <1>2, <1>3, <1>4, <1>7, <1>8, Before, Calls

\* A loop begins with the question whether there is another turn.
LEMMA StartLoopKeeps ==
  ASSUME IInv, NEW k \in LoopKinds, StartLoop(k), setup' = setup PROVE IInv'
  <1>1. /\ pc = "command" /\ UNCHANGED <<noerrexit, donetrap>>
        /\ Enter(Frame(k, noerrexit), "turn")
    BY DEF StartLoop, MayEnter, Executing, error
  <1>2. Scalars'
    BY Before DEF StartLoop, MayEnter, Executing, Enter, Scalars, Pcs, control, error, traps
  <1>3. k \in PlainKinds \ {"top"}
    BY DEF PlainKinds, LoopKinds
  <1>4. Place(Frame(k, noerrexit), "turn")
    BY DEF Place, Frame, LoopKinds
  <1>5. "turn" \in {"next", "turn", "line"}
    OBVIOUS
  <1> QED BY <1>1, <1>2, <1>3, <1>4, <1>5, EnteringKeeps

\* case executes a list.
LEMMA StartCaseKeeps ==
  ASSUME IInv, StartCase, setup' = setup PROVE IInv'
  <1>1. /\ pc = "command" /\ UNCHANGED <<noerrexit, donetrap>>
        /\ Enter(Frame("case", noerrexit), "next")
    BY DEF StartCase, MayEnter, Executing, error
  <1>2. Scalars'
    BY Before DEF StartCase, MayEnter, Executing, Enter, Scalars, Pcs, control, error, traps
  <1>3. "case" \in PlainKinds \ {"top"}
    BY DEF PlainKinds, LoopKinds
  <1>4. Place(Frame("case", noerrexit), "next")
    BY DEF Place, Frame, LoopKinds
  <1>5. "next" \in {"next", "turn", "line"}
    OBVIOUS
  <1> QED BY <1>1, <1>2, <1>3, <1>4, <1>5, EnteringKeeps

\* eval executes a list.
LEMMA BinEvalKeeps ==
  ASSUME IInv, bin_eval, setup' = setup PROVE IInv'
  <1>1. /\ pc = "command" /\ UNCHANGED <<noerrexit, donetrap>>
        /\ Enter(Frame("eval", noerrexit), "next")
    BY DEF bin_eval, MayEnter, Executing, error
  <1>2. Scalars'
    BY Before DEF bin_eval, MayEnter, Executing, Enter, Scalars, Pcs, control, error, traps
  <1>3. "eval" \in PlainKinds \ {"top"}
    BY DEF PlainKinds, LoopKinds
  <1>4. Place(Frame("eval", noerrexit), "next")
    BY DEF Place, Frame, LoopKinds
  <1>5. "next" \in {"next", "turn", "line"}
    OBVIOUS
  <1> QED BY <1>1, <1>2, <1>3, <1>4, <1>5, EnteringKeeps

\* . reads a script.
LEMMA BinDotKeeps ==
  ASSUME IInv, bin_dot, setup' = setup PROVE IInv'
  <1>1. /\ pc = "command" /\ UNCHANGED <<noerrexit, donetrap>>
        /\ Enter(Frame("source", noerrexit), "line")
    BY DEF bin_dot, MayEnter, Executing, error
  <1>2. Scalars'
    BY Before DEF bin_dot, MayEnter, Executing, Enter, Scalars, Pcs, control, error, traps
  <1>3. "source" \in PlainKinds \ {"top"}
    BY DEF PlainKinds, LoopKinds
  <1>4. Place(Frame("source", noerrexit), "line")
    BY DEF Place, Frame, LoopKinds
  <1>5. "line" \in {"next", "turn", "line"}
    OBVIOUS
  <1> QED BY <1>1, <1>2, <1>3, <1>4, <1>5, EnteringKeeps

\* if tests its condition.
LEMMA StartIfKeeps ==
  ASSUME IInv, StartIf, setup' = setup PROVE IInv'
  <1> DEFINE g == [Frame("if", TRUE) EXCEPT !.part = "cond", !.save = noerrexit]
  <1>1. /\ pc = "command" /\ noerrexit' = TRUE /\ donetrap' = donetrap
        /\ stack' = Append(stack, g) /\ pc' = "next"
    BY DEF StartIf, MayEnter, Executing, Enter
  <1>2. noerrexit \in BOOLEAN
    BY Before DEF Scalars
  <1>3. /\ g \in Frames /\ g.kind = "if" /\ g.part = "cond" /\ g.op = "END" /\ g.ne = TRUE
        /\ Framed(g) /\ Entry(g) = noerrexit /\ Whole(g)
    BY <1>2, NewIf
  <1> HIDE DEF g
  <1>4. Over(Top, g)
    BY <1>1, <1>3, Before DEF Over, Place
  <1>5. Spares => (noerrexit <=> Inside(Top))
    BY <1>1, Before DEF TestedAt
  <1>6. TestedAt(g, pc', noerrexit', donetrap') /\ Place(g, pc')
    BY <1>1, <1>3 DEF TestedAt, Place
  <1>7. /\ pc' \in Pcs /\ lastval' \in Int /\ breaks' \in Int /\ trapreturn' \in Int
        /\ contflag' \in BOOLEAN /\ retflag' \in BOOLEAN /\ errflag' \in BOOLEAN
        /\ donetrap' \in BOOLEAN /\ exittrap' \in BOOLEAN
        /\ setup' \in Setups
    <2>1. UNCHANGED <<lastval, control, errflag, donetrap, traps>>
      BY DEF StartIf
    <2> QED BY <1>1, <2>1, Before DEF Scalars, Pcs, control, traps
  <1>8. noerrexit' \in BOOLEAN
    BY <1>1
  <1>9. Scalars'
    BY <1>7, <1>8 DEF Scalars
  <1> QED BY <1>1, <1>3, <1>4, <1>5, <1>6, <1>9, Before, Calls

\* There is another word.
LEMMA TurnForKeeps ==
  ASSUME IInv, TurnFor, setup' = setup PROVE IInv'
  <1>1. Scalars'
    BY Before DEF TurnFor, Scalars, Pcs, control, error, traps
  <1>2. stack' = stack
    BY DEF TurnFor
  <1>3. Place(Top, pc')
    BY Before DEF TurnFor, Place
  <1>4. Spares => Linked(stack) /\ TestedAt(Top, pc', noerrexit', donetrap')
    BY Before DEF TurnFor, TestedAt, Inside, control, error, traps
  <1> QED BY <1>1, <1>2, <1>3, <1>4, Before, Stays

\* The condition of elif is tested like that of if.
LEMMA ElifKeeps ==
  ASSUME IInv, Elif, setup' = setup PROVE IInv'
  <1>1. Scalars'
    BY Before DEF Elif, Scalars, Pcs, control, error, traps, IfTested
  <1>2. stack' = stack
    BY DEF Elif, IfTested
  <1>3. Place(Top, pc')
    BY Before DEF Elif, Place, IfTested
  <1>4. Spares => Linked(stack) /\ TestedAt(Top, pc', noerrexit', donetrap')
    BY Before DEF Elif, TestedAt, Inside, control, error, traps, IfTested
  <1> QED BY <1>1, <1>2, <1>3, <1>4, Before, Stays

\* A list has been executed: the next one is read.
LEMMA LineDoneKeeps ==
  ASSUME IInv, LineDone, setup' = setup PROVE IInv'
  <1>1. Scalars'
    BY Before DEF LineDone, Scalars, Pcs, control, error, traps
  <1>2. stack' = stack
    BY DEF LineDone
  <1>2a. Top.part # "exit"
    <2>1. Top \in PlainFrames
      BY FrameFields, Before DEF LineDone, PlainKinds
    <2> QED BY <2>1 DEF PlainFrames
  <1>2b. pc' = "line" \/ (pc' = "eof" /\ Top.kind = "source")
    BY DEF LineDone
  <1>3. Place(Top, pc')
    <2>1. pc = "left" /\ Top.kind \in {"top", "source"}
      BY DEF LineDone
    <2> QED BY <2>1, <1>2a, <1>2b, Before DEF Place
  <1>4. Spares => Linked(stack) /\ TestedAt(Top, pc', noerrexit', donetrap')
    BY Before DEF LineDone, TestedAt, Inside, control, error, traps
  <1> QED BY <1>1, <1>2, <1>3, <1>4, Before, Stays

\* A construct ends at the end of its list, with noerrexit as it was entered.
LEMMA EndingKeeps ==
  ASSUME IInv, setup' = setup, Pop("chain"), Scalars', Top.kind \notin {"top", "trap"},
         Top.kind = "fun" => ~Top.noreturnval,
         Spares => (noerrexit' <=> Entry(Top))
  PROVE  IInv'
  <1>1. stack' = Under /\ pc' = "chain"
    BY DEF Pop
  <1>2. \A f \in Frames : Over(f, Top) => Place(f, pc')
    BY <1>1 DEF Over, Place
  <1>3. Spares =>
           /\ Linked(stack)
           /\ \A f \in Frames : Over(f, Top) /\ (Entry(Top) <=> Inside(f)) /\ Framed(Top)
                                  => TestedAt(f, pc', noerrexit', donetrap')
    BY <1>1, Before DEF TestedAt
  <1> QED BY <1>1, <1>2, <1>3, Before, Returns

\* There is no other word.
LEMMA NoTurnForKeeps ==
  ASSUME IInv, NoTurnFor, setup' = setup PROVE IInv'
  <1>1. Scalars'
    BY Before DEF NoTurnFor, Pop, Scalars, Pcs, control, error, traps
  <1>2. Pop("chain") /\ Top.kind \notin {"top", "trap"} /\ Top.kind # "fun"
    BY Before DEF NoTurnFor, LoopKinds, Place
  <1>3. Spares => (noerrexit' <=> Entry(Top))
    BY Before DEF NoTurnFor, TestedAt, Entry, Place, Whole, error
  <1> QED BY <1>1, <1>2, <1>3, EndingKeeps

\* An if none of whose conditions holds.
LEMMA NoBranchKeeps ==
  ASSUME IInv, NoBranch, setup' = setup PROVE IInv'
  <1>0. Top.save \in BOOLEAN
    <2>1. Top \in PlainFrames
      BY FrameFields, Before DEF NoBranch, IfTested, PlainKinds
    <2> QED BY <2>1 DEF PlainFrames
  <1>1. Scalars'
    BY <1>0, Before DEF NoBranch, IfTested, Pop, Scalars, Pcs, control, traps
  <1>2. Pop("chain") /\ Top.kind \notin {"top", "trap"} /\ Top.kind # "fun"
    BY Before DEF NoBranch, LoopKinds, Place, IfTested
  <1>3. Spares => (noerrexit' <=> Entry(Top))
    BY Before DEF NoBranch, TestedAt, Entry, Place, Whole, error, IfTested
  <1> QED BY <1>1, <1>2, <1>3, EndingKeeps

\* The branch is done.
LEMMA BlockDoneKeeps ==
  ASSUME IInv, BlockDone, setup' = setup PROVE IInv'
  <1>1. Scalars'
    BY Before DEF BlockDone, Pop, Scalars, Pcs, control, error, traps
  <1>2. Pop("chain") /\ Top.kind \notin {"top", "trap"} /\ Top.kind # "fun"
    BY Before DEF BlockDone, LoopKinds, Place
  <1>3. Spares => (noerrexit' <=> Entry(Top))
    BY Before DEF BlockDone, TestedAt, Entry, Place, Whole, error
  <1> QED BY <1>1, <1>2, <1>3, EndingKeeps

\* eval is done.
LEMMA EvalDoneKeeps ==
  ASSUME IInv, EvalDone, setup' = setup PROVE IInv'
  <1>0. errflag' = FALSE /\ lastval' = (IF errflag THEN 1 ELSE lastval) /\ UNCHANGED <<control, traps>>
    BY Zenon DEF EvalDone
  <1>1a. errflag' \in BOOLEAN
    BY <1>0, Zenon
  <1>1b. lastval' \in Int /\ breaks' \in Int /\ trapreturn' \in Int
    <2>1. lastval' = (IF errflag THEN 1 ELSE lastval) /\ UNCHANGED <<control, traps>>
      BY <1>0
    <2> QED BY <2>1, Before DEF Scalars, control, traps
  <1>1c. /\ pc' \in Pcs /\ contflag' \in BOOLEAN /\ retflag' \in BOOLEAN
         /\ noerrexit' \in BOOLEAN /\ donetrap' \in BOOLEAN /\ exittrap' \in BOOLEAN
         /\ setup' \in Setups
    BY Before DEF EvalDone, Pop, Scalars, Pcs, control, error, traps
  <1>1. Scalars'
    BY <1>1a, <1>1b, <1>1c DEF Scalars
  <1>2. Pop("chain") /\ Top.kind \notin {"top", "trap"} /\ Top.kind # "fun"
    BY Before DEF EvalDone, LoopKinds, Place
  <1>3. Spares => (noerrexit' <=> Entry(Top))
    BY Before DEF EvalDone, TestedAt, Entry, Place, Whole, error
  <1> QED BY <1>1, <1>2, <1>3, EndingKeeps

\* while tests its condition.
LEMMA TurnWhileKeeps ==
  ASSUME IInv, TurnWhile, setup' = setup PROVE IInv'
  <1> DEFINE f == [Top EXCEPT !.part = "cond", !.ne = TRUE]
  <1>1. /\ pc = "turn" /\ Top.kind \in {"while", "until"}
        /\ noerrexit' = TRUE /\ donetrap' = donetrap /\ SetTop(f) /\ pc' = "next"
    BY DEF TurnWhile
  <1>2. Top \in PlainFrames
    BY <1>1, FrameFields, Before DEF PlainKinds
  <1>3. TRUE \in BOOLEAN /\ Top.save \in BOOLEAN /\ "cond" \in {"body", "cond"}
    BY <1>2 DEF PlainFrames
  <1>4. /\ f \in Frames /\ Same(f, Top)
        /\ f.op = Top.op /\ f.ne = TRUE /\ f.part = "cond" /\ f.kind = Top.kind /\ f.save = Top.save
    BY <1>2, <1>3, PartChanges
  <1> HIDE DEF f
  <1>5. Whole(f) /\ Place(f, pc')
    BY <1>1, <1>4, Before DEF Whole, Place
  <1>6. Spares => /\ Linked(stack) /\ Framed(f) /\ (Entry(f) <=> Entry(Top))
                         /\ TestedAt(f, pc', noerrexit', donetrap')
    BY <1>1, <1>3, <1>4, Before DEF TestedAt, Framed, Entry, LoopKinds, Place
  <1>7. /\ pc' \in Pcs /\ lastval' \in Int /\ breaks' \in Int /\ trapreturn' \in Int
        /\ contflag' \in BOOLEAN /\ retflag' \in BOOLEAN /\ errflag' \in BOOLEAN
        /\ donetrap' \in BOOLEAN /\ exittrap' \in BOOLEAN
        /\ setup' \in Setups
    <2>1. UNCHANGED <<lastval, control, errflag, donetrap, traps>>
      BY DEF TurnWhile
    <2> QED BY <1>1, <2>1, Before DEF Scalars, Pcs, control, traps
  <1>8. Scalars'
    BY <1>1, <1>3, <1>7 DEF Scalars
  <1> QED BY <1>1, <1>4, <1>5, <1>6, <1>8, Before, Changes

\* A branch is executed as the if was entered.
LEMMA IfBranchKeeps ==
  ASSUME IInv, IfBranch, setup' = setup PROVE IInv'
  <1> DEFINE f == [Top EXCEPT !.part = "body", !.ne = Top.save]
  <1>1. /\ pc = "left" /\ Top.kind = "if" /\ Top.part = "cond"
        /\ noerrexit' = Top.save /\ donetrap' = donetrap /\ SetTop(f) /\ pc' = "next"
    BY DEF IfBranch, IfTested
  <1>2. Top \in PlainFrames
    BY <1>1, FrameFields, Before DEF PlainKinds
  <1>3. Top.save \in BOOLEAN /\ Top.save \in BOOLEAN /\ "body" \in {"body", "cond"}
    BY <1>2 DEF PlainFrames
  <1>4. /\ f \in Frames /\ Same(f, Top)
        /\ f.op = Top.op /\ f.ne = Top.save /\ f.part = "body" /\ f.kind = Top.kind /\ f.save = Top.save
    BY <1>2, <1>3, PartChanges
  <1> HIDE DEF f
  <1>5. Whole(f) /\ Place(f, pc')
    BY <1>1, <1>4, Before DEF Whole, Place
  <1>6. Spares => /\ Linked(stack) /\ Framed(f) /\ (Entry(f) <=> Entry(Top))
                         /\ TestedAt(f, pc', noerrexit', donetrap')
    BY <1>1, <1>3, <1>4, Before DEF TestedAt, Framed, Entry, LoopKinds, Place
  <1>7. /\ pc' \in Pcs /\ lastval' \in Int /\ breaks' \in Int /\ trapreturn' \in Int
        /\ contflag' \in BOOLEAN /\ retflag' \in BOOLEAN /\ errflag' \in BOOLEAN
        /\ donetrap' \in BOOLEAN /\ exittrap' \in BOOLEAN
        /\ setup' \in Setups
    <2>1. UNCHANGED <<lastval, control, errflag, donetrap, traps>>
      BY DEF IfBranch
    <2> QED BY <1>1, <2>1, Before DEF Scalars, Pcs, control, traps
  <1>8. Scalars'
    BY <1>1, <1>3, <1>7 DEF Scalars
  <1> QED BY <1>1, <1>4, <1>5, <1>6, <1>8, Before, Changes

\* The condition of a loop has been executed: the loop ends, or its body is executed.
LEMMA WhileTestedKeeps ==
  ASSUME IInv, WhileTested, setup' = setup PROVE IInv'
  <1>1. /\ pc = "left" /\ Top.kind \in {"while", "until"} /\ Top.part = "cond"
        /\ noerrexit' = Top.save /\ donetrap' = donetrap
        /\ UNCHANGED <<contflag, retflag, errflag, traps>>
    BY DEF WhileTested
  <1>2. Top \in PlainFrames
    BY <1>1, FrameFields, Before DEF PlainKinds
  <1>3. Top.save \in BOOLEAN /\ Top.val \in Int
    BY <1>2 DEF PlainFrames
  <1>4. CASE (lastval = 0) = (Top.kind = "until")
    <2>1. Pop("chain") /\ breaks' = (IF breaks # 0 THEN breaks - 1 ELSE breaks) /\ lastval' = Top.val
      BY <1>4, Zenon DEF WhileTested
    <2>2. Scalars'
      BY <1>1, <1>3, <2>1, Before DEF Pop, Scalars, Pcs, traps
    <2>3. Spares => (noerrexit' <=> Entry(Top))
      BY <1>1, <1>3 DEF Entry
    <2> QED BY <1>1, <2>1, <2>2, <2>3, EndingKeeps
  <1>5. CASE (lastval = 0) # (Top.kind = "until")
    <2> DEFINE f == [Top EXCEPT !.part = "body", !.ne = Top.save]
    <2>1. SetTop(f) /\ pc' = "next" /\ UNCHANGED <<lastval, breaks>>
      BY <1>5, Zenon DEF WhileTested
    <2>2. "body" \in {"body", "cond"}
      OBVIOUS
    <2>3. /\ f \in Frames /\ Same(f, Top)
          /\ f.op = Top.op /\ f.ne = Top.save /\ f.part = "body" /\ f.kind = Top.kind /\ f.save = Top.save
      BY <1>2, <1>3, <2>2, PartChanges
    <2> HIDE DEF f
    <2>4. Whole(f) /\ Place(f, pc')
      BY <1>1, <2>1, <2>3, Before DEF Whole, Place
    <2>5. Spares => /\ Linked(stack) /\ Framed(f) /\ (Entry(f) <=> Entry(Top))
                           /\ TestedAt(f, pc', noerrexit', donetrap')
      BY <1>1, <1>3, <2>1, <2>3, Before DEF TestedAt, Framed, Entry, LoopKinds, Place
    <2>6. Scalars'
      BY <1>1, <1>3, <2>1, Before DEF Scalars, Pcs, traps
    <2> QED BY <2>1, <2>3, <2>4, <2>5, <2>6, Before, Changes
  <1> QED BY <1>4, <1>5

\* The body of a loop is done: the loop ends or takes another turn.
LEMMA LoopBodyDoneKeeps ==
  ASSUME IInv, LoopBodyDone, setup' = setup PROVE IInv'
  <1>1. /\ pc = "left" /\ Top.kind \in LoopKinds /\ Top.part = "body"
        /\ breaks' = (IF breaks # 0 THEN breaks - 1 ELSE breaks)
        /\ noerrexit' = noerrexit /\ donetrap' = donetrap
        /\ UNCHANGED <<retflag, errflag, traps>>
    BY DEF LoopBodyDone, error
  <1>2. Top \in PlainFrames
    BY <1>1, FrameFields, Before DEF PlainKinds, LoopKinds
  <1>3. breaks' \in Int
    BY <1>1, Before DEF Scalars
  <1>4. Spares => (noerrexit <=> Top.ne)
    BY <1>1, Before DEF TestedAt
  <1>5. ASSUME Pop("chain"), lastval' \in Int, contflag' \in BOOLEAN PROVE IInv'
    <2>1. Scalars'
      BY <1>1, <1>3, <1>5, Before DEF Pop, Scalars, Pcs, traps
    <2>2. Spares => (noerrexit' <=> Entry(Top))
      BY <1>1, <1>4 DEF Entry
    <2>3. Top.kind \notin {"top", "trap", "fun"}
      BY <1>1 DEF LoopKinds
    <2> QED BY <1>5, <2>1, <2>2, <2>3, EndingKeeps
  <1>6. CASE LeavesLoop
    <2>1. Pop("chain") /\ lastval' = lastval /\ contflag' = contflag
      BY <1>6 DEF LoopBodyDone
    <2> QED BY <2>1, <1>5, Before DEF Scalars
  <1>7. CASE ~LeavesLoop
    <2>1. contflag' = (IF breaks # 0 THEN FALSE ELSE contflag)
      BY <1>7 DEF LoopBodyDone
    <2>2. contflag' \in BOOLEAN
      BY <2>1, Before DEF Scalars
    <2>3. CASE errflag
      <3>1. Pop("chain") /\ lastval' = (IF Top.kind = "select" THEN lastval ELSE 1)
        BY <1>7, <2>3, Zenon DEF LoopBodyDone
      <3>2. lastval' \in Int
        BY <3>1, Before DEF Scalars
      <3> QED BY <2>2, <3>1, <3>2, <1>5
    <2>4. CASE ~errflag
      <3> DEFINE f == IF Top.kind \in {"while", "until"} THEN [Top EXCEPT !.val = lastval] ELSE Top
      <3>1. pc' = "turn" /\ lastval' = lastval /\ SetTop(f)
        BY <1>7, <2>4, Zenon DEF LoopBodyDone
      <3>2. lastval \in Int
        BY Before DEF Scalars
      <3>3. /\ f \in Frames /\ Same(f, Top) /\ f.op = Top.op /\ f.ne = Top.ne
            /\ f.part = Top.part /\ f.kind = Top.kind /\ f.save = Top.save
        <4>1. CASE Top.kind \in {"while", "until"}
          <5>1. f = [Top EXCEPT !.val = lastval]
            BY <4>1
          <5> HIDE DEF f
          <5> QED BY <5>1, <1>2, <3>2, ValChanges
        <4>2. CASE Top.kind \notin {"while", "until"}
          <5>1. f = Top
            BY <4>2
          <5> HIDE DEF f
          <5> QED BY <5>1, Before DEF Same
        <4> QED BY <4>1, <4>2
      <3> HIDE DEF f
      <3>4. Whole(f) /\ Place(f, pc')
        BY <1>1, <3>1, <3>3, Before DEF Whole, Place, LoopKinds
      <3>5. Spares => /\ Linked(stack) /\ Framed(f) /\ (Entry(f) <=> Entry(Top))
                             /\ TestedAt(f, pc', noerrexit', donetrap')
        BY <1>1, <1>4, <3>1, <3>3, Before DEF TestedAt, Framed, Entry, LoopKinds
      <3>6. Scalars'
        BY <1>1, <1>3, <2>2, <3>1, <3>2, Before DEF Scalars, Pcs, traps
      <3> QED BY <3>1, <3>3, <3>4, <3>5, <3>6, Before, Changes
    <2> QED BY <2>3, <2>4
  <1> QED BY <1>6, <1>7

----------------------------------------------------------------------------
(* Functions, traps and what is read.                                      *)

\* doshfunc: the body of a function is executed as its call.
LEMMA DoshfuncKeeps ==
  ASSUME IInv, doshfunc, setup' = setup PROVE IInv'
  <1> DEFINE g == FunFrame(FALSE, noerrexit)
  <1>1. /\ pc = "command" /\ UNCHANGED error
        /\ stack' = Append(stack, g) /\ pc' = "next"
    BY DEF doshfunc, MayEnter, Executing, Enter
  <1>2. noerrexit \in BOOLEAN /\ UNCHANGED <<noerrexit, donetrap>>
    BY <1>1, Before DEF Scalars, error
  <1>3. /\ g \in Frames /\ g.kind = "fun" /\ g.part = "body" /\ g.op = "END" /\ g.ne = noerrexit
        /\ g.noreturnval = FALSE /\ Framed(g) /\ Entry(g) = noerrexit /\ Whole(g)
    BY <1>2, Before, NewFun DEF Scalars
  <1> HIDE DEF g
  <1>4. Over(Top, g)
    BY <1>1, <1>3, Before DEF Over, Place
  <1>5. Spares => (noerrexit <=> Inside(Top))
    BY <1>1, Before DEF TestedAt
  <1>6. TestedAt(g, pc', noerrexit', donetrap') /\ Place(g, pc')
    BY <1>1, <1>2, <1>3 DEF TestedAt, Place
  <1>7. Scalars'
    <2>1. /\ UNCHANGED <<lastval, control, errflag>> /\ exittrap' = FALSE
          /\ trapreturn' = IF trapreturn < 0 THEN trapreturn - 1 ELSE trapreturn
      BY DEF doshfunc
    <2>2. exittrap' \in BOOLEAN
      BY <2>1
    <2>3. trapreturn' \in Int
      <3>1. trapreturn' = IF trapreturn < 0 THEN trapreturn - 1 ELSE trapreturn
        BY <2>1
      <3> QED BY <3>1, Before DEF Scalars
    <2>4. UNCHANGED <<lastval, control, errflag>>
      BY <2>1
    <2> QED BY <1>1, <1>2, <2>2, <2>3, <2>4, Before DEF Scalars, Pcs, control
  <1>8. Spares => /\ Linked(stack) /\ Framed(g) /\ (Entry(g) <=> Inside(Top))
                         /\ TestedAt(g, pc', noerrexit', donetrap')
    BY <1>3, <1>5, <1>6, Before
  <1> QED BY <1>1, <1>3, <1>4, <1>6, <1>7, <1>8, Before, Calls

\* The body of the function is done.
LEMMA FunctionDoneKeeps ==
  ASSUME IInv, FunctionDone, setup' = setup PROVE IInv'
  <1> DEFINE f == [Top EXCEPT !.part = "exit", !.newexit = exittrap]
  <1>1. /\ pc = "left" /\ Top.kind = "fun" /\ Top.part = "body" /\ retflag' = FALSE
        /\ breaks' = (IF retflag THEN Top.ob ELSE breaks) /\ exittrap' = Top.ex
        /\ SetTop(f) /\ UNCHANGED <<pc, lastval, contflag, errflag, error, trapreturn>>
    BY DEF FunctionDone
  <1>2. Top \in FunFrames /\ exittrap \in BOOLEAN
    BY <1>1, FrameFields, Before DEF Scalars
  <1>3. Top.ob \in Int /\ Top.ex \in BOOLEAN
    BY <1>2 DEF FunFrames
  <1>4. /\ f \in Frames /\ Same(f, Top) /\ f.op = Top.op /\ f.ne = Top.ne /\ f.part = "exit"
        /\ f.kind = "fun"
    BY <1>2, ExitChanges
  <1> HIDE DEF f
  <1>5. Whole(f) /\ Place(f, pc')
    BY <1>1, <1>4, Before DEF Whole, Place, LoopKinds
  <1>6. Spares => /\ Linked(stack) /\ Framed(f) /\ (Entry(f) <=> Entry(Top))
                         /\ TestedAt(f, pc', noerrexit', donetrap')
    BY <1>1, <1>4, Before DEF TestedAt, Framed, Entry, LoopKinds, error
  <1>7. Scalars'
    BY <1>1, <1>3, Before DEF Scalars, Pcs, error
  <1> QED BY <1>1, <1>4, <1>5, <1>6, <1>7, Before, Changes

\* An EXIT trap set in the function runs on the frame of the function.
LEMMA FunctionExitTrapKeeps ==
  ASSUME IInv, FunctionExitTrap, setup' = setup PROVE IInv'
  <1> DEFINE f == [Top EXCEPT !.newexit = FALSE]
             g == TrapFrame("none", "left", noerrexit)
  <1>1. /\ pc = "left" /\ Top.kind = "fun" /\ Top.newexit
        /\ UNCHANGED <<lastval, contflag, retflag, errflag, error, traps>>
    BY DEF FunctionExitTrap
  <1>2. Top \in FunFrames /\ Top.part = "exit" /\ Top.op = "END"
    BY <1>1, FrameFields, Before DEF Whole, Place
  <1>3. FALSE \in BOOLEAN
    OBVIOUS
  <1>4. /\ f \in Frames /\ Same(f, Top) /\ f.op = Top.op /\ f.ne = Top.ne /\ f.part = "exit"
        /\ f.kind = "fun" /\ f.newexit = FALSE
    BY <1>2, <1>3, ExitChanges
  <1>5. noerrexit \in BOOLEAN /\ UNCHANGED <<noerrexit, donetrap>>
    BY <1>1, Before DEF Scalars, error
  <1>6. Spares => (noerrexit <=> Top.ne)
    BY <1>1, Before DEF TestedAt
  <1>7. Whole(f) /\ Place(f, "left")
    BY <1>2, <1>4 DEF Whole, Place, LoopKinds
  <1>8. Spares => Linked(stack) /\ Framed(f) /\ (Entry(f) <=> Entry(Top))
    BY <1>2, <1>4, Before DEF Framed, Entry, LoopKinds
  <1>9. CASE errflag
    <2>1. SetTop(f) /\ UNCHANGED <<pc, breaks>>
      BY <1>9, Zenon DEF FunctionExitTrap
    <2> HIDE DEF f
    <2>2. Scalars'
      BY <1>1, <2>1, Before DEF Scalars, error, traps
    <2>3. Spares => TestedAt(f, pc', noerrexit', donetrap')
      BY <1>1, <1>4, <1>5, <1>6, <2>1 DEF TestedAt
    <2>4. Place(f, pc')
      BY <1>1, <1>7, <2>1
    <2> QED BY <1>4, <1>7, <1>8, <2>1, <2>2, <2>3, <2>4, Before, Changes
  <1>10. CASE ~errflag
    <2>1. stack' = Under \o <<f, g>> /\ breaks' = 0 /\ pc' = "next"
      BY <1>10, Zenon DEF FunctionExitTrap
    <2>2. "none" \in Signals /\ "left" \in Backs
      BY DEF Signals, Backs
    <2>3. /\ g \in Frames /\ g.kind = "trap" /\ g.part = "body" /\ g.op = "END" /\ g.ne = noerrexit
          /\ g.back = "left" /\ Entry(g) = noerrexit /\ Whole(g)
          /\ ("left" # "check" /\ ("left" = "told" => ~noerrexit) => Framed(g))
      BY <1>5, <2>2, Before, NewTrap DEF Scalars
    <2> HIDE DEF f, g
    <2>4. Len(stack) >= 2
      BY <1>1, Before, SoundParts DEF Top
    <2>5. Under \in Seq(Frames)
      BY <2>4, Before, Popping DEF Under
    <2> DEFINE s == Append(Under, f)
    <2>6. stack' = Append(s, g)
      BY <1>4, <2>1, <2>3, <2>5, Twice
    <2>7. Sound(s) /\ Last(s) = f /\ (Spares => Linked(s))
      BY <1>4, <1>7, <1>8, Before, SoundSet DEF Top, Under
    <2> HIDE DEF s
    <2>8. Over(Last(s), g)
      BY <1>2, <1>4, <2>3, <2>7 DEF Over
    <2>9. Spares => Framed(g) /\ (Entry(g) <=> Inside(Last(s)))
      BY <1>2, <1>4, <1>6, <2>3, <2>7 DEF Inside
    <2>10. Sound(stack') /\ Last(stack') = g /\ (Spares => Linked(stack'))
      BY <2>3, <2>6, <2>7, <2>8, <2>9, SoundPush
    <2>11. Top' = g
      BY <2>10 DEF Top
    <2>12. TestedAt(g, pc', noerrexit', donetrap') /\ Place(g, pc')
      BY <1>5, <2>1, <2>3 DEF TestedAt, Place
    <2>13. Scalars'
      BY <1>1, <2>1, Before DEF Scalars, Pcs, error, traps
    <2> QED BY <2>10, <2>11, <2>12, <2>13 DEF IInv, Shape, Tested, Spares
  <1> QED BY <1>9, <1>10

\* A function that is a trap goes back to it, any other to the list that called it.
LEMMA FunctionReturnsKeeps ==
  ASSUME IInv, FunctionReturns, setup' = setup PROVE IInv'
  <1>1. /\ pc = "left" /\ Top.kind = "fun" /\ Top.part = "exit"
        /\ stack' = Under /\ pc' = (IF Top.noreturnval THEN "left" ELSE "chain")
        /\ trapreturn' = (IF trapreturn < -1 THEN trapreturn + 1 ELSE trapreturn)
        /\ lastval' = (IF Top.noreturnval THEN Top.val ELSE lastval)
        /\ UNCHANGED <<control, errflag, error, exittrap>>
    BY DEF FunctionReturns, Pop
  <1>2. Top \in FunFrames
    BY <1>1, FrameFields, Before
  <1>3. Top.noreturnval \in BOOLEAN /\ Top.val \in Int
    BY <1>2 DEF FunFrames
  <1>4. Scalars'
    BY <1>1, <1>3, Before DEF Scalars, Pcs, control, error
  <1>5. Spares => (noerrexit' <=> Top.ne)
    BY <1>1, Before DEF TestedAt, error
  <1>6. ASSUME NEW f \in Frames, Over(f, Top)
        PROVE  /\ Place(f, pc')
               /\ Spares /\ (Entry(Top) <=> Inside(f))
                    => TestedAt(f, pc', noerrexit', donetrap')
    <2>1. f.part # "exit"
      BY <1>1, <1>6 DEF Over
    <2>2. CASE Top.noreturnval
      <3>1. f.op = "END" /\ f.kind = "trap" /\ pc' = "left"
        BY <1>1, <1>6, <2>2 DEF Over
      <3> QED BY <1>1, <1>5, <2>1, <3>1 DEF Place, TestedAt, Entry, Inside, LoopKinds
    <2>3. CASE ~Top.noreturnval
      <3>1. pc' = "chain"
        BY <1>1, <2>3
      <3> QED BY <1>1, <1>5, <2>1, <3>1 DEF Place, TestedAt, Entry
    <2> QED BY <2>2, <2>3
  <1>7. Top.kind # "top"
    BY <1>1
  <1>8. \A f \in Frames : Over(f, Top) => Place(f, pc')
    BY <1>6
  <1>9. Spares =>
           /\ Linked(stack)
           /\ \A f \in Frames : Over(f, Top) /\ (Entry(Top) <=> Inside(f)) /\ Framed(Top)
                                  => TestedAt(f, pc', noerrexit', donetrap')
    BY <1>6, Before
  <1> QED BY <1>1, <1>4, <1>7, <1>8, <1>9, Before, Returns

\* A trap goes back to where dotrap was called.
LEMMA TrapDoneKeeps ==
  ASSUME IInv, TrapDone, setup' = setup PROVE IInv'
  <1>1. /\ pc = "left" /\ Top.kind = "trap"
        /\ stack' = Under /\ pc' = Top.back
        /\ lastval' = Top.val /\ trapreturn' = Top.tr
        /\ UNCHANGED <<contflag, retflag, error, exittrap>>
    BY DEF TrapDone, Pop
  <1>2. Top \in TrapFrames
    BY <1>1, FrameFields, Before
  <1>3. Top.back \in Backs /\ Top.val \in Int /\ Top.tr \in Int /\ Top.ob \in Int /\ Top.part = "body"
    BY <1>2 DEF TrapFrames
  <1>4. breaks' \in Int /\ errflag' \in BOOLEAN
    <2>1. CASE trapreturn > 0 \/ errflag
      <3>1. breaks' = loops /\ errflag' = TRUE
        BY <2>1, Zenon DEF TrapDone
      <3>2. errflag' \in BOOLEAN
        BY <3>1, Zenon
      <3>3. breaks' \in Int
        <4>1. breaks' = loops
          BY <3>1
        <4> QED BY <4>1, Before
      <3> QED BY <3>2, <3>3
    <2>2. CASE ~(trapreturn > 0 \/ errflag)
      <3>1. breaks' = Least(breaks + Top.ob, loops) /\ UNCHANGED errflag
        BY <2>2, Zenon DEF TrapDone
      <3> QED BY <3>1, <1>3, Before DEF Scalars, Least
    <2> QED BY <2>1, <2>2
  <1>5. Scalars'
    BY <1>1, <1>3, <1>4, Before DEF Scalars, Pcs, Backs, error
  <1>6. Spares => (noerrexit' <=> Top.ne)
    BY <1>1, Before DEF TestedAt, error
  <1>7. ASSUME NEW f \in Frames, Over(f, Top)
        PROVE  /\ Place(f, pc')
               /\ Spares /\ (Entry(Top) <=> Inside(f)) /\ Framed(Top)
                    => TestedAt(f, pc', noerrexit', donetrap')
    <2>1. f.op \in Ops /\ f.ne \in BOOLEAN /\ Top.ne \in BOOLEAN
      BY FrameFields, Before
    <2>2. CASE Top.back = "left"
      <3>1. f.op = "END" /\ f.kind = "fun" /\ f.part = "exit" /\ pc' = "left"
        BY <1>1, <1>7, <2>2 DEF Over
      <3> QED BY <1>1, <1>3, <1>6, <3>1 DEF Place, TestedAt, Entry, Inside, LoopKinds
    <2>3. CASE Top.back # "left"
      <3>1. f.part # "exit" /\ pc' \in {"check", "told", "gone"} /\ pc' = Top.back
        BY <1>1, <1>3, <1>7, <2>3 DEF Over, Backs
      <3>2. Place(f, pc')
        BY <3>1 DEF Place
      <3>3. ASSUME Spares, Entry(Top) <=> Inside(f), Framed(Top)
            PROVE  TestedAt(f, pc', noerrexit', donetrap')
        <4>1. pc' # "check" /\ (pc' = "told" => ~Top.ne)
          BY <1>1, <3>1, <3>3 DEF Framed
        <4>2. pc' = "told" => ~f.ne /\ f.op = "END" /\ ~noerrexit'
          BY <1>3, <1>6, <3>3, <4>1 DEF Entry, Inside
        <4> QED BY <3>1, <4>1, <4>2 DEF TestedAt
      <3> QED BY <3>2, <3>3
    <2> QED BY <2>2, <2>3
  <1>8. Top.kind # "top"
    BY <1>1
  <1>9. \A f \in Frames : Over(f, Top) => Place(f, pc')
    BY <1>7
  <1>10. Spares =>
           /\ Linked(stack)
           /\ \A f \in Frames : Over(f, Top) /\ (Entry(Top) <=> Inside(f)) /\ Framed(Top)
                                  => TestedAt(f, pc', noerrexit', donetrap')
    BY <1>7, Before
  <1> QED BY <1>1, <1>5, <1>8, <1>9, <1>10, Before, Returns

\* A list has been read and is executed.
LEMMA ReadLineKeeps ==
  ASSUME IInv, ReadLine, setup' = setup PROVE IInv'
  <1> DEFINE f == [Top EXCEPT !.ne = noerrexit]
  <1>1. /\ pc = "line" /\ errflag' = FALSE
        /\ retflag' = (retflag /\ ~(Top.kind = "top" /\ INTERACTIVE /\ USEZLE))
        /\ SetTop(f) /\ pc' = "next" /\ UNCHANGED <<lastval, breaks, contflag, error, traps>>
    BY DEF ReadLine
  <1>2. Top \in PlainFrames /\ Top.kind \in {"top", "source"}
    BY <1>1, FrameFields, Before DEF Place, PlainKinds
  <1>3. noerrexit \in BOOLEAN
    BY Before DEF Scalars
  <1>4. /\ f \in Frames /\ Same(f, Top)
        /\ f.op = Top.op /\ f.ne = noerrexit /\ f.part = Top.part /\ f.kind = Top.kind /\ f.save = Top.save
    BY <1>2, <1>3, NeChanges
  <1> HIDE DEF f
  <1>5. Top.part = "body"
    BY <1>2, Before DEF Whole, PlainFrames
  <1>6. Whole(f) /\ Place(f, pc')
    BY <1>1, <1>2, <1>4, <1>5 DEF Whole, Place
  <1>7. Spares => (noerrexit <=> Top.ne)
    BY <1>1, Before DEF TestedAt
  <1>8. Spares => /\ Linked(stack) /\ Framed(f) /\ (Entry(f) <=> Entry(Top))
                         /\ TestedAt(f, pc', noerrexit', donetrap')
    BY <1>1, <1>2, <1>4, <1>5, <1>7, Before DEF TestedAt, Framed, Entry, LoopKinds, error
  <1>9. errflag' \in BOOLEAN /\ retflag' \in BOOLEAN
    BY <1>1, Zenon
  <1>10. Scalars'
    <2>1. pc' = "next" /\ UNCHANGED <<lastval, breaks, contflag, error, traps>>
      BY <1>1
    <2> QED BY <1>9, <2>1, Before DEF Scalars, Pcs, error, traps
  <1> QED BY <1>1, <1>4, <1>6, <1>8, <1>10, Before, Changes

\* At the end of its input the shell is left, a script returns.
LEMMA EndOfFileKeeps ==
  ASSUME IInv, EndOfFile, setup' = setup PROVE IInv'
  <1>1. /\ pc = "line" /\ UNCHANGED <<lastval, contflag, retflag, errflag, error>>
    BY DEF EndOfFile
  <1>2. UNCHANGED <<noerrexit, donetrap>> /\ donetrap' \in BOOLEAN
    BY <1>1, Before DEF error, Scalars
  <1>3. Top.part # "exit" /\ Top.op = "END"
    BY <1>1, Before DEF Place
  <1>4. Spares => (noerrexit <=> Inside(Top))
    BY <1>1, <1>3, Before DEF TestedAt, Inside
  <1>5. CASE Top.kind = "source"
    <2>1. pc' = "eof" /\ stack' = stack /\ UNCHANGED <<breaks, traps>>
      BY <1>5 DEF EndOfFile
    <2>2. Scalars'
      BY <1>1, <1>2, <2>1, Before DEF Scalars, Pcs, traps
    <2>3. Place(Top, pc')
      BY <1>3, <1>5, <2>1 DEF Place
    <2>4. Spares => TestedAt(Top, pc', noerrexit', donetrap')
      BY <1>1, <1>2, <2>1, Before DEF TestedAt
    <2> QED BY <2>1, <2>2, <2>3, <2>4, Before, Stays
  <1>6. CASE Top.kind # "source"
    <2>1. LeaveShell
      BY <1>6 DEF EndOfFile
    <2> QED BY <1>1, <1>2, <1>3, <1>4, <2>1, LeavingKeeps
  <1> QED BY <1>5, <1>6

\* A script is done.
LEMMA SourceDoneKeeps ==
  ASSUME IInv, SourceDone, setup' = setup PROVE IInv'
  <1>1. /\ pc = "eof" /\ Pop("chain") /\ errflag' = FALSE /\ retflag' = FALSE
        /\ UNCHANGED <<lastval, breaks, contflag, error, traps>>
    BY DEF SourceDone
  <1>2. Top.part # "cond" /\ Top.kind = "source"
    BY <1>1, Before DEF Whole, Place
  <1>3. Spares => (noerrexit' <=> Entry(Top))
    BY <1>1, <1>2, Before DEF TestedAt, Entry, error
  <1>4. errflag' \in BOOLEAN /\ retflag' \in BOOLEAN
    BY <1>1, Zenon
  <1>5. Scalars'
    <2>1. Pop("chain") /\ UNCHANGED <<lastval, breaks, contflag, error, traps>>
      BY <1>1
    <2> QED BY <1>4, <2>1, Before DEF Pop, Scalars, Pcs, error, traps
  <1> QED BY <1>1, <1>2, <1>3, <1>5, EndingKeeps

----------------------------------------------------------------------------
(* The invariant.                                                          *)

\* The shell reads its first list.
LEMMA InitIsSound == ASSUME Init PROVE IInv
  <1> DEFINE f == Frame("top", FALSE)
  <1>1. stack = <<f>>
    BY DEF Init
  <1>2. "top" \in PlainKinds /\ FALSE \in BOOLEAN
    BY DEF PlainKinds
  <1>3. /\ f \in Frames /\ f.kind = "top" /\ f.part = "body" /\ f.op = "END" /\ f.ne = FALSE
        /\ Framed(f) /\ Entry(f) = FALSE /\ Whole(f)
    BY <1>2, NewFrame
  <1> HIDE DEF f
  <1>4. stack \in Seq(Frames) /\ stack # << >> /\ Len(stack) = 1 /\ stack[1] = f /\ Last(stack) = f
    BY <1>1, <1>3 DEF Last
  <1>5. Built(stack)
    BY <1>3, <1>4 DEF Built
  <1>6. Linked(stack)
    BY <1>3, <1>4 DEF Linked
  <1>7. pc = "line" /\ noerrexit = FALSE
    BY DEF Init
  <1>8. Place(f, pc) /\ TestedAt(f, pc, noerrexit, donetrap)
    BY <1>3, <1>7 DEF Place, TestedAt
  <1>9. Scalars
    <2>1. exittrap = ("shell" \in setup.ExitTraps)
      BY Zenon DEF Init
    <2>2. exittrap \in BOOLEAN
      BY <2>1
    <2>3. /\ pc = "line" /\ lastval = 0 /\ breaks = 0 /\ trapreturn = 0
          /\ contflag = FALSE /\ retflag = FALSE /\ errflag = FALSE
          /\ noerrexit = FALSE /\ donetrap = FALSE /\ setup \in Setups
      BY Zenon DEF Init
    <2>4. lastval \in Int /\ breaks \in Int /\ trapreturn \in Int
      <3>1. lastval = 0 /\ breaks = 0 /\ trapreturn = 0
        BY <2>3
      <3> QED BY <3>1
    <2>5. pc \in Pcs
      BY <1>7 DEF Pcs
    <2>6. /\ contflag \in BOOLEAN /\ retflag \in BOOLEAN /\ errflag \in BOOLEAN
          /\ noerrexit \in BOOLEAN /\ donetrap \in BOOLEAN
      BY <2>3, Zenon
    <2> QED BY <2>2, <2>3, <2>4, <2>5, <2>6, Zenon DEF Scalars
  <1> QED BY <1>3, <1>4, <1>5, <1>6, <1>8, <1>9 DEF IInv, Shape, Sound, Tested, Top

\* Every step keeps the invariant.
LEMMA StepsKeep ==
  ASSUME IInv, Next PROVE IInv'
  <1>1. setup' = setup /\ (Progress \/ Interrupted)
    BY DEF Next
  <1>2. CASE Execlist
    <2>1. ASSUME NEW type \in {"END", "ANDNEXT", "ORNEXT"}, ChainTo(type) PROVE IInv'
      <3>1. type \in Ops
        BY DEF Ops
      <3> QED BY <1>1, <2>1, <3>1, ChainToKeeps
    <2> QED BY <1>1, <1>2, <2>1, NextSublistKeeps, ListEndsKeeps, SkippedKeeps, ChainSkipsKeeps,
               ChainEndsKeeps, SublistDoneKeeps, CheckStatusKeeps, TrapToldKeeps DEF Execlist
  <1>3. CASE Commands
    BY <1>1, <1>3, SimpleKeeps, FailsKeeps, BinExitKeeps, BinTrapKeeps, BinBreakKeeps,
       BinContinueKeeps, BinReturnKeeps DEF Commands
  <1>4. CASE Compound
    BY <1>1, <1>4, StartLoopKeeps, TurnForKeeps, NoTurnForKeeps, TurnWhileKeeps, WhileTestedKeeps,
       LoopBodyDoneKeeps, StartIfKeeps, IfBranchKeeps, ElifKeeps, NoBranchKeeps, StartCaseKeeps,
       BlockDoneKeeps, BinEvalKeeps, EvalDoneKeeps DEF Compound
  <1>5. CASE CallsAndReads
    BY <1>1, <1>5, DoshfuncKeeps, FunctionDoneKeeps, FunctionExitTrapKeeps, FunctionReturnsKeeps,
       TrapDoneKeeps, BinDotKeeps, ReadLineKeeps, LineDoneKeeps, EndOfFileKeeps, SourceDoneKeeps
       DEF CallsAndReads
  <1>6. CASE Interrupted
    BY <1>1, <1>6, InterruptedKeeps
  <1> QED BY <1>1, <1>2, <1>3, <1>4, <1>5, <1>6 DEF Progress

\* Nothing is changed.
LEMMA StutteringKeeps ==
  ASSUME IInv, UNCHANGED <<vars, setup>> PROVE IInv'
  <1>1. /\ UNCHANGED <<stack, pc, lastval, breaks, contflag, retflag, errflag, noerrexit, donetrap>>
        /\ UNCHANGED <<trapreturn, exittrap, setup>>
    BY DEF vars, control, error, traps
  <1> QED BY <1>1 DEF IInv, Shape, Scalars, Tested, Spares, Top

\* Whatever the program is, the activations on the stack fit together; and if the shell
\* does not have ERREXIT and a DEBUG trap, noerrexit is what the construct on top says.
THEOREM Invariance == Spec => []IInv
  <1>1. Init => IInv
    BY InitIsSound
  <1>2. IInv /\ [Next]_<<vars, setup>> => IInv'
    BY StepsKeep, StutteringKeeps
  <1> QED BY <1>1, <1>2, PTL DEF Spec

\* Nothing that is being executed is tested where ERREXIT is obeyed.
LEMMA NothingIsTested ==
  ASSUME IInv, Spares, ~Inside(Top)
  PROVE  \A i \in DOMAIN stack : stack[i].part # "cond" /\ stack[i].op = "END"
  <1>1. PICK n \in Nat : n = Len(stack) /\ n >= 1 /\ Top = stack[n] /\ DOMAIN stack = 1 .. n
    BY Before, SoundParts DEF Top
  <1>2. Linked(stack)
    BY Before
  <1>3. \A i \in 1 .. n : Framed(stack[i])
    BY <1>1, <1>2 DEF Linked
  <1>4. n \in 1 .. n
    BY <1>1
  <1>5. ~Entry(stack[n])
    BY <1>1, <1>3, <1>4 DEF Entry, Inside, Framed
  <1>6. \A i \in 1 .. n : i < n => ~Inside(stack[i])
    BY <1>1, <1>2, <1>4, <1>5 DEF Linked
  <1>7. ASSUME NEW i \in 1 .. n PROVE ~Inside(stack[i])
    BY <1>1, <1>6, <1>7
  <1>8. ASSUME NEW i \in 1 .. n PROVE stack[i].part # "cond" /\ stack[i].op = "END"
    BY <1>3, <1>7 DEF Inside, Framed
  <1> QED BY <1>1, <1>8

\* What the history says after a step that is not one of ERREXIT.
Others == {"run", "break", "continue", "exit", "return", "interrupt"}

\* No other step is a step of ERREXIT.
LEMMA OthersDoNot ==
  ASSUME Next, ~CheckStatus, ~TrapTold
  PROVE  cmd' = cmd \/ cmd'.op \in Others
  <1>1. ASSUME Ran PROVE cmd'.op \in Others
    BY <1>1 DEF Ran, Others
  <1>2. CASE Execlist
    <2>1. ListEnds => cmd' = cmd \/ Ran
      BY DEF ListEnds
    <2>2. NextSublist \/ Skipped \/ ChainSkips \/ ChainEnds \/ SublistDone => cmd' = cmd
      BY DEF NextSublist, Skipped, ChainSkips, ChainEnds, SublistDone
    <2>3. ASSUME NEW type, ChainTo(type) PROVE cmd' = cmd
      BY <2>3 DEF ChainTo
    <2> QED BY <1>1, <1>2, <2>1, <2>2, <2>3 DEF Execlist
  <1>3. CASE Commands
    <2>1. Simple \/ Fails \/ bin_trap => Ran
      BY DEF Simple, Fails, bin_trap
    <2>2. bin_exit => cmd'.op = "exit"
      BY DEF bin_exit
    <2>3. ASSUME NEW n, bin_break(n) PROVE cmd'.op = "break"
      BY <2>3 DEF bin_break
    <2>4. ASSUME NEW n, bin_continue(n) PROVE cmd'.op = "continue"
      <3>1. cmd' = [op |-> "continue", n |-> n]
        BY <2>4, Zenon DEF bin_continue
      <3> QED BY <3>1
    <2>5. ASSUME NEW v, bin_return(v) PROVE cmd'.op = "return"
      <3>1. cmd' = [op |-> "return", n |-> v]
        BY <2>5, Zenon DEF bin_return
      <3> QED BY <3>1
    <2> QED BY <1>1, <1>3, <2>1, <2>2, <2>3, <2>4, <2>5 DEF Commands, Others
  <1>4. CASE Compound
    <2>1. ASSUME NEW k, StartLoop(k) PROVE Ran
      BY <2>1 DEF StartLoop, Enter
    <2>2. StartIf \/ StartCase \/ bin_eval => Ran
      BY DEF StartIf, StartCase, bin_eval, Enter
    <2>3. TurnFor \/ NoTurnFor \/ TurnWhile \/ WhileTested \/ LoopBodyDone => cmd' = cmd
      BY DEF TurnFor, NoTurnFor, TurnWhile, WhileTested, LoopBodyDone
    <2>4. IfBranch \/ Elif \/ NoBranch \/ BlockDone \/ EvalDone => cmd' = cmd
      BY DEF IfBranch, Elif, NoBranch, BlockDone, EvalDone
    <2> QED BY <1>1, <1>4, <2>1, <2>2, <2>3, <2>4 DEF Compound
  <1>5. CASE CallsAndReads
    <2>1. doshfunc \/ bin_dot \/ ReadLine => Ran
      BY DEF doshfunc, bin_dot, ReadLine, Enter
    <2>2. FunctionDone \/ SourceDone => cmd' = cmd \/ Ran
      BY DEF FunctionDone, SourceDone
    <2>3. FunctionExitTrap \/ FunctionReturns \/ TrapDone \/ LineDone => cmd' = cmd
      BY DEF FunctionExitTrap, FunctionReturns, TrapDone, LineDone
    <2>4. EndOfFile => cmd' = cmd \/ cmd'.op = "exit"
      BY DEF EndOfFile
    <2> QED BY <1>1, <1>5, <2>1, <2>2, <2>3, <2>4 DEF CallsAndReads, Others
  <1>6. CASE Interrupted
    BY <1>6 DEF Interrupted, Others
  <1> QED BY <1>2, <1>3, <1>4, <1>5, <1>6 DEF Next, Progress

\* The steps that ERREXIT takes are CheckStatus and TrapTold, at a place where nothing is
\* tested.
LEMMA OnlyThereItStrikes ==
  ASSUME NoDebugTrap, IInv, Next, cmd'.op = "errexit", cmd.op # "errexit"
  PROVE  Spares /\ ~Inside(Top)
  <1>1. ExitOnError /\ cmd' # cmd => Spares
    BY Before DEF ExitOnError, Spares, NoDebugTrap, Scalars
  <1>2. cmd' # cmd
    OBVIOUS
  <1>3. CASE CheckStatus
    <2>1. pc = "check" /\ ~noerrexit /\ ~donetrap /\ ExitOnError
      BY <1>2, <1>3 DEF CheckStatus
    <2>2. Spares
      BY <1>1, <1>2, <2>1
    <2> QED BY <2>1, <2>2, Before DEF TestedAt, Inside
  <1>4. CASE TrapTold
    <2>1. pc = "told" /\ ExitOnError
      BY <1>4 DEF TrapTold
    <2>2. Spares
      BY <1>1, <1>2, <2>1
    <2> QED BY <2>1, <2>2, Before DEF TestedAt, Inside
  <1>5. CASE ~CheckStatus /\ ~TrapTold
    BY <1>2, <1>5, OthersDoNot DEF Others
  <1> QED BY <1>3, <1>4, <1>5

\* ERREXIT never strikes in a condition, or before && or ||, of anything that is being
\* executed, however deep: not in a function called there, nor in a trap that runs there.
THEOREM TestsAreSpared == NoDebugTrap => (Spec => ErrExitSparesTests)
  <1> SUFFICES ASSUME NoDebugTrap PROVE Spec => ErrExitSparesTests
    OBVIOUS
  <1> DEFINE Spared == cmd'.op = "errexit" /\ cmd.op # "errexit" =>
                         \A i \in DOMAIN stack : stack[i].part # "cond" /\ stack[i].op = "END"
  <1>1. IInv /\ [Next]_<<vars, setup>> => [Spared]_vars
    <2>1. ASSUME IInv, Next PROVE Spared
      BY <2>1, NothingIsTested, OnlyThereItStrikes
    <2> QED BY <2>1 DEF vars
  <1>2. Spec => []IInv
    BY Invariance
  <1> QED BY <1>1, <1>2, PTL DEF Spec, ErrExitSparesTests

----------------------------------------------------------------------------
(* Jumps.                                                                  *)

\* The shells of the other theorems: no known disagreement, counts that are counts, and
\* traps that are lists.  A trap function may return, which is an interrupt: it comes over
\* the jump that the trap delays.
Plain ==
  /\ Quirks = {}
  /\ \A n \in Jumps : n >= 1
  /\ \A s \in Setups : s.ZERR # "function" /\ s.DEBUG # "function"

LoopsOf(s) == {i \in 1 .. Len(s) : s[i].kind \in LoopKinds /\ \A j \in i .. Len(s) : s[j].kind # "source"}

\* A trap does nothing but commands, and other traps; it found the continue that there is.
Trapped(s, c) ==
  /\ \A i, j \in 1 .. Len(s) : i < j /\ s[i].kind = "trap" => s[j].kind = "trap"
  /\ \A i \in 1 .. Len(s) : s[i].kind = "trap" => (s[i].oc <=> c) /\ s[i].tr = 0

\* The loop that goes on when b loops have been counted is in its body.
GoesOn(s, b) ==
  \E i \in LoopsOf(s) : s[i].part = "body" /\ Cardinality({j \in LoopsOf(s) : j >= i}) = b

\* A continue: the count is in breaks, or in the frame of the first trap that delays it.
Continuing(s, b) ==
  /\ IF Last(s).kind = "trap" THEN b = 0 ELSE GoesOn(s, b)
  /\ \A i \in 2 .. Len(s) :
       s[i].kind = "trap" => IF s[i - 1].kind = "trap" THEN s[i].ob = 0 ELSE GoesOn(s, s[i].ob)

\* A return from a function or script, of which status v.
Returned(s, v, c) ==
  (\E i \in 1 .. Len(s) : s[i].kind \in {"fun", "source"}) => c.op = "return" /\ c.n = v

\* What is left by a return: no function whose body is done, and no condition above the
\* function or script.
Leaves(s) ==
  /\ \A i \in 1 .. Len(s) : s[i].part # "exit"
  /\ \A i \in 1 .. Len(s) :
       (\A j \in i .. Len(s) : s[j].kind \notin {"fun", "source"}) => s[i].part # "cond"

\* A return: all loops are to be left, nothing on the way up has another status, and the
\* status is in lastval, or in the frame of the trap that delays it.
Returning(s, b, at, v, c) ==
  /\ Leaves(s)
  /\ at # "turn" /\ (at = "line" => Last(s).kind = "top")
  /\ Last(s).kind # "trap" =>
       b = Cardinality(LoopsOf(s)) /\ (at # "gone" => Returned(s, v, c))
  /\ Last(s).kind = "trap" =>
       /\ b = 0 /\ Last(s).ob = Cardinality(LoopsOf(s)) /\ at \in {"next", "left"}
       /\ s[Len(s) - 1].kind # "trap"
       /\ Last(s).back # "gone" => Returned(s, Last(s).val, c)

JumpInv ==
  /\ trapreturn = 0 /\ Trapped(stack, contflag)
  /\ contflag => ~errflag /\ ~retflag /\ pc # "turn" /\ Continuing(stack, breaks)
  /\ retflag => ~errflag /\ Returning(stack, breaks, pc, lastval, cmd)

----------------------------------------------------------------------------
(* Loops.                                                                  *)

\* Induction on the natural numbers, for a property given as a set.
LEMMA SetInduction ==
  ASSUME NEW S, 0 \in S, \A n \in Nat : n \in S => n + 1 \in S
  PROVE  Nat \subseteq S
  <1> DEFINE T == Nat \ S
             R == OpToRel(<, Nat)
  <1>1. SUFFICES ASSUME T # {} PROVE FALSE
    OBVIOUS
  <1>2. IsWellFoundedOn(R, Nat)
    BY NatLessThanWellFounded
  <1>3. \A x, y \in Nat : <<y, x>> \in R <=> y < x
    BY DEF OpToRel
  <1> HIDE DEF R
  <1>4. PICK x \in T : \A y \in T : ~(<<y, x>> \in R)
    BY <1>1, <1>2, WFMin
  <1>5. x \in Nat /\ x # 0
    OBVIOUS
  <1>6. x - 1 \in Nat /\ x - 1 < x
    BY <1>5
  <1>7. <<x - 1, x>> \in R
    BY <1>3, <1>5, <1>6
  <1>8. x - 1 \in S
    BY <1>4, <1>6, <1>7
  <1>9. x - 1 + 1 \in S
    BY <1>6, <1>8
  <1> QED BY <1>5, <1>9

\* Counted from the top, there is an m-th member of a set of positions.
LEMMA Ranks ==
  ASSUME NEW n \in Nat, NEW S \in SUBSET (1 .. n), NEW m \in 1 .. Cardinality(S)
  PROVE  \E i \in S : Cardinality({j \in S : j >= i}) = m
  <1> DEFINE above(k) == {j \in S : j >= k}
             P == {d \in Nat : d <= n => Cardinality(above(n + 1 - d)) < m}
  <1>0. \A j \in S : j \in Int /\ 1 <= j /\ j <= n
    OBVIOUS
  <1>1. IsFiniteSet(S) /\ Cardinality(S) \in Nat
    <2>1. IsFiniteSet(1 .. n)
      BY FS_Interval
    <2> QED BY <2>1, FS_Subset, FS_CardinalityType
  <1>2. ASSUME NEW k \in 1 .. n + 1 PROVE IsFiniteSet(above(k)) /\ Cardinality(above(k)) \in Nat
    BY <1>1, FS_Subset, FS_CardinalityType
  <1>3. m \in Nat /\ m >= 1 /\ m <= Cardinality(S)
    BY <1>1
  <1>4. SUFFICES ASSUME \A i \in S : Cardinality(above(i)) # m PROVE FALSE
    OBVIOUS
  <1>5. 0 \in P
    <2>0. ASSUME NEW j \in S, j >= n + 1 PROVE FALSE
      BY <1>0, <2>0
    <2>1. above(n + 1) = {}
      BY <2>0
    <2>2. Cardinality(above(n + 1 - 0)) = 0
      BY <2>1, FS_EmptySet
    <2> HIDE DEF above
    <2> QED BY <1>3, <2>2
  <1> HIDE DEF P
  <1>6. ASSUME NEW d \in Nat, d \in P PROVE d + 1 \in P
    <2>1. ASSUME d + 1 <= n PROVE Cardinality(above(n + 1 - (d + 1))) < m
      <3> DEFINE k == n - d
      <3>1. k \in 1 .. n /\ k + 1 \in 1 .. n + 1 /\ n + 1 - (d + 1) = k /\ n + 1 - d = k + 1
        BY <2>1
      <3>2. Cardinality(above(k + 1)) < m
        BY <1>6, <3>1 DEF P
      <3> HIDE DEF k
      <3>3. Cardinality(above(k)) \in Nat /\ Cardinality(above(k + 1)) \in Nat
            /\ IsFiniteSet(above(k + 1))
        <4>1. k \in 1 .. n + 1
          BY <3>1
        <4> HIDE DEF above
        <4> QED BY <1>2, <3>1, <4>1
      <3>4. CASE k \in S
        <4>1. above(k) = above(k + 1) \cup {k} /\ k \notin above(k + 1)
          <5>1. k \in above(k) /\ k \notin above(k + 1)
            BY <3>1, <3>4
          <5>2. \A j \in S : j >= k <=> j >= k + 1 \/ j = k
            BY <1>0, <3>1
          <5> QED BY <3>4, <5>1, <5>2
        <4> HIDE DEF above
        <4>2. Cardinality(above(k)) = Cardinality(above(k + 1)) + 1
          BY <3>3, <4>1, FS_AddElement
        <4>3. Cardinality(above(k)) # m
          BY <1>4, <3>4
        <4>4. Cardinality(above(k)) < m
          BY <1>3, <3>2, <3>3, <4>2, <4>3
        <4> QED BY <3>1, <4>4
      <3>5. CASE k \notin S
        <4>1. above(k) = above(k + 1)
          <5>2. \A j \in S : j >= k <=> j >= k + 1
            BY <1>0, <3>1, <3>5
          <5> QED BY <5>2
        <4> HIDE DEF above
        <4> QED BY <3>1, <3>2, <4>1
      <3> QED BY <3>4, <3>5
    <2>2. d + 1 \in Nat
      OBVIOUS
    <2> HIDE DEF above
    <2> QED BY <2>1, <2>2 DEF P
  <1> HIDE DEF P
  <1>7. Nat \subseteq P
    BY <1>5, <1>6, SetInduction
  <1>8. n \in P
    BY <1>7
  <1>9. above(n + 1 - n) = S
    <2>1. n + 1 - n = 1
      OBVIOUS
    <2>2. above(1) = S
      BY <1>0
    <2> HIDE DEF above
    <2> QED BY <2>1, <2>2
  <1> HIDE DEF above
  <1>10. Cardinality(S) < m
    BY <1>8, <1>9 DEF P
  <1> QED BY <1>1, <1>3, <1>10

\* The loops of a stack are finitely many.
LEMMA LoopsAreFew ==
  ASSUME NEW s \in Seq(Frames)
  PROVE  /\ LoopsOf(s) \subseteq 1 .. Len(s) /\ IsFiniteSet(LoopsOf(s))
         /\ Cardinality(LoopsOf(s)) \in Nat
         /\ \A i \in Int : /\ IsFiniteSet({j \in LoopsOf(s) : j >= i})
                           /\ Cardinality({j \in LoopsOf(s) : j >= i}) \in Nat
                           /\ Cardinality({j \in LoopsOf(s) : j >= i}) <= Cardinality(LoopsOf(s))
  <1>1. PICK n \in Nat : n = Len(s)
    OBVIOUS
  <1>2. LoopsOf(s) \subseteq 1 .. n
    BY <1>1 DEF LoopsOf
  <1>3. IsFiniteSet(LoopsOf(s)) /\ Cardinality(LoopsOf(s)) \in Nat
    <2>1. IsFiniteSet(1 .. n)
      BY FS_Interval
    <2> QED BY <1>2, <2>1, FS_Subset, FS_CardinalityType
  <1>4. ASSUME NEW i \in Int
        PROVE  /\ IsFiniteSet({j \in LoopsOf(s) : j >= i})
               /\ Cardinality({j \in LoopsOf(s) : j >= i}) \in Nat
               /\ Cardinality({j \in LoopsOf(s) : j >= i}) <= Cardinality(LoopsOf(s))
    <2>1. {j \in LoopsOf(s) : j >= i} \subseteq LoopsOf(s)
      OBVIOUS
    <2> QED BY <1>3, <2>1, FS_Subset, FS_CardinalityType
  <1> QED BY <1>1, <1>2, <1>3, <1>4

\* loops counts the loops of the stack.
LEMMA LoopsAreOfTheStack ==
  ASSUME stack \in Seq(Frames) PROVE LoopFrames = LoopsOf(stack) /\ loops = Cardinality(LoopsOf(stack))
  <1>1. PICK n \in Nat : n = Len(stack) /\ DOMAIN stack = 1 .. n
    OBVIOUS
  <1>2. LoopFrames = LoopsOf(stack)
    BY <1>1 DEF LoopFrames, LoopsOf
  <1> QED BY <1>2 DEF loops

\* Stacks of the same kinds of frames have the same loops.
LEMMA SameKinds ==
  ASSUME NEW s \in Seq(Frames), NEW t \in Seq(Frames), Len(s) = Len(t),
         \A i \in 1 .. Len(s) : s[i].kind = t[i].kind
  PROVE  LoopsOf(s) = LoopsOf(t)
  <1>1. PICK n \in Nat : n = Len(s) /\ n = Len(t)
    OBVIOUS
  <1>2. \A i \in 1 .. n : s[i].kind = t[i].kind
    BY <1>1
  <1>3. ASSUME NEW i \in 1 .. n
        PROVE (\A j \in i .. n : s[j].kind # "source") <=> (\A j \in i .. n : t[j].kind # "source")
    <2>1. \A j \in i .. n : j \in 1 .. n
      OBVIOUS
    <2> QED BY <1>2, <2>1
  <1> QED BY <1>1, <1>2, <1>3 DEF LoopsOf

\* The loops when the frame on top is changed.
LEMMA LoopsSet ==
  ASSUME NEW s \in Seq(Frames), s # << >>, NEW f \in Frames, f.kind = Last(s).kind
  PROVE  LoopsOf(Append(Front(s), f)) = LoopsOf(s)
  <1> DEFINE t == Append(Front(s), f)
  <1>1. PICK n \in Nat : n = Len(s) /\ n >= 1 /\ Last(s) = s[n]
    BY StackFrames
  <1>2. /\ t \in Seq(Frames) /\ Len(t) = n /\ t[n] = f
        /\ \A i \in 1 .. n - 1 : t[i] = s[i]
    BY <1>1, Setting
  <1> HIDE DEF t
  <1>3. ASSUME NEW i \in 1 .. n PROVE s[i].kind = t[i].kind
    <2>1. CASE i = n
      BY <2>1, <1>1, <1>2
    <2>2. CASE i # n
      <3>1. i \in 1 .. n - 1
        BY <2>2
      <3> QED BY <3>1, <1>2
    <2> QED BY <2>1, <2>2
  <1>4. LoopsOf(t) = LoopsOf(s)
    BY <1>1, <1>2, <1>3, SameKinds
  <1> QED BY <1>4 DEF t

\* The loops after a call that is not that of a loop or a script.
LEMMA LoopsPush ==
  ASSUME NEW s \in Seq(Frames), s # << >>, NEW g \in Frames, g.kind \notin LoopKinds, g.kind # "source"
  PROVE  LoopsOf(Append(s, g)) = LoopsOf(s)
  <1> DEFINE t == Append(s, g)
  <1>1. PICK n \in Nat : n = Len(s) /\ n >= 1
    BY StackFrames
  <1>2. /\ Len(t) = n + 1 /\ t[n + 1] = g
        /\ \A i \in 1 .. n : t[i] = s[i]
    BY <1>1, Pushing
  <1> HIDE DEF t
  <1>3. ASSUME NEW i \in 1 .. n
        PROVE (\A j \in i .. n + 1 : t[j].kind # "source") <=> (\A j \in i .. n : s[j].kind # "source")
    <2>1. \A j \in i .. n : j \in i .. n + 1 /\ j \in 1 .. n
      OBVIOUS
    <2>2. \A j \in i .. n + 1 : j = n + 1 \/ j \in i .. n
      OBVIOUS
    <2> QED BY <1>2, <2>1, <2>2
  <1>4. ASSUME NEW i \in 1 .. n PROVE i \in LoopsOf(t) <=> i \in LoopsOf(s)
    <2>1. i \in 1 .. n + 1 /\ t[i].kind = s[i].kind
      BY <1>2
    <2> QED BY <1>1, <1>2, <1>3, <2>1 DEF LoopsOf
  <1>5. n + 1 \notin LoopsOf(t)
    BY <1>2 DEF LoopsOf
  <1>6. LoopsOf(t) \subseteq 1 .. n
    <2>1. \A i \in 1 .. n + 1 : i = n + 1 \/ i \in 1 .. n
      OBVIOUS
    <2> QED BY <1>2, <1>5, <2>1 DEF LoopsOf
  <1>7. LoopsOf(s) \subseteq 1 .. n
    BY <1>1 DEF LoopsOf
  <1>8. LoopsOf(t) = LoopsOf(s)
    BY <1>4, <1>6, <1>7
  <1> QED BY <1>8 DEF t

\* The loops after a return.
LEMMA LoopsPop ==
  ASSUME NEW s \in Seq(Frames), Len(s) >= 2
  PROVE  /\ Last(s).kind \notin LoopKinds \cup {"source"} => LoopsOf(Front(s)) = LoopsOf(s)
         /\ Last(s).kind \in LoopKinds => /\ Len(s) \in LoopsOf(s)
                                          /\ LoopsOf(Front(s)) = LoopsOf(s) \ {Len(s)}
         /\ Last(s).kind = "source" => LoopsOf(s) = {}
  <1> DEFINE t == Front(s)
  <1>1. PICK n \in Nat : n = Len(s) /\ n >= 2 /\ Last(s) = s[n]
    BY StackFrames
  <1>2. Len(t) = n - 1 /\ \A i \in 1 .. n - 1 : t[i] = s[i]
    BY <1>1, Popping
  <1> HIDE DEF t
  <1>3. ASSUME s[n].kind # "source", NEW i \in 1 .. n - 1
        PROVE  i \in LoopsOf(t) <=> i \in LoopsOf(s)
    <2>1. \A j \in i .. n - 1 : j \in i .. n /\ j \in 1 .. n - 1
      OBVIOUS
    <2>2. \A j \in i .. n : j = n \/ j \in i .. n - 1
      OBVIOUS
    <2>3. (\A j \in i .. n - 1 : t[j].kind # "source") <=> (\A j \in i .. n : s[j].kind # "source")
      BY <1>2, <1>3, <2>1, <2>2
    <2>4. i \in 1 .. n /\ t[i].kind = s[i].kind
      BY <1>2
    <2> QED BY <1>1, <1>2, <2>3, <2>4 DEF LoopsOf
  <1>4. LoopsOf(t) \subseteq 1 .. n - 1 /\ LoopsOf(s) \subseteq 1 .. n
    BY <1>1, <1>2 DEF LoopsOf
  <1>5. n \in LoopsOf(s) <=> s[n].kind \in LoopKinds
    <2>1. \A j \in n .. n : j = n
      OBVIOUS
    <2>2. s[n].kind \in LoopKinds => s[n].kind # "source"
      BY DEF LoopKinds
    <2> QED BY <1>1, <2>1, <2>2 DEF LoopsOf
  <1>6. \A i \in 1 .. n : i = n \/ i \in 1 .. n - 1
    OBVIOUS
  <1>7. CASE s[n].kind \notin LoopKinds \cup {"source"}
    <2>1. n \notin LoopsOf(s)
      BY <1>5, <1>7
    <2>2. LoopsOf(s) \subseteq 1 .. n - 1
      BY <1>4, <1>6, <2>1
    <2>3. LoopsOf(t) = LoopsOf(s)
      BY <1>3, <1>4, <1>7, <2>2
    <2>4. s[n].kind \notin LoopKinds /\ s[n].kind # "source"
      BY <1>7
    <2> QED BY <1>1, <2>3, <2>4 DEF t
  <1>8. CASE s[n].kind \in LoopKinds
    <2>1. s[n].kind # "source"
      BY <1>8 DEF LoopKinds
    <2>2. n \notin LoopsOf(t)
      BY <1>4
    <2>3. LoopsOf(t) = LoopsOf(s) \ {n}
      BY <1>3, <1>4, <1>6, <2>1, <2>2
    <2> QED BY <1>1, <1>5, <1>8, <2>1, <2>3 DEF t
  <1>9. CASE s[n].kind = "source"
    <2>1. s[n].kind \notin LoopKinds
      BY <1>9 DEF LoopKinds
    <2>2. ASSUME NEW i \in LoopsOf(s) PROVE FALSE
      <3>1. i \in 1 .. n /\ n \in i .. n
        BY <1>4
      <3> QED BY <1>1, <1>9, <3>1 DEF LoopsOf
    <2> QED BY <1>1, <1>9, <2>1, <2>2
  <1> QED BY <1>7, <1>8, <1>9

\* On the read loop there is no loop.
LEMMA NoLoopsOnTop ==
  ASSUME NEW s, Sound(s), Last(s).kind \in {"top", "source"}
  PROVE  LoopsOf(s) = {} /\ (Last(s).kind = "top" => Len(s) = 1)
  <1>1. s \in Seq(Frames) /\ s # << >> /\ Built(s)
    BY DEF Sound
  <1>2. PICK n \in Nat : n = Len(s) /\ n >= 1 /\ (n = 1 \/ n >= 2) /\ Last(s) = s[n]
    BY <1>1, StackFrames
  <1>3. CASE n = 1
    <2>1. s[1].kind = "top"
      BY <1>1 DEF Built
    <2>2. "top" \notin LoopKinds
      BY DEF LoopKinds
    <2>3. LoopsOf(s) \subseteq {1}
      BY <1>2, <1>3 DEF LoopsOf
    <2>4. 1 \notin LoopsOf(s)
      BY <2>1, <2>2 DEF LoopsOf
    <2> QED BY <1>2, <1>3, <2>3, <2>4
  <1>4. CASE n >= 2
    <2>1. n - 1 \in 1 .. n - 1 /\ n - 1 + 1 = n
      BY <1>4
    <2>2. Over(s[n - 1], s[n])
      BY <1>1, <1>2, <2>1 DEF Built
    <2>3. s[n].kind = "source"
      BY <1>2, <2>2 DEF Over
    <2> QED BY <1>1, <1>2, <1>4, <2>3, LoopsPop
  <1> QED BY <1>2, <1>3, <1>4

\* The loop that goes on is one of the loops.
LEMMA GoesOnCounts ==
  ASSUME NEW s \in Seq(Frames), NEW b, GoesOn(s, b)
  PROVE  b \in Nat /\ b >= 1 /\ b <= Cardinality(LoopsOf(s))
  <1>1. PICK i \in LoopsOf(s) : Cardinality({j \in LoopsOf(s) : j >= i}) = b
    BY DEF GoesOn
  <1> DEFINE A == {j \in LoopsOf(s) : j >= i}
  <1>2. i \in Int
    BY <1>1, LoopsAreFew
  <1>3. IsFiniteSet(A) /\ Cardinality(A) \in Nat /\ Cardinality(A) <= Cardinality(LoopsOf(s))
    BY <1>2, LoopsAreFew
  <1>4. i \in A
    BY <1>2
  <1> HIDE DEF A
  <1>5. Cardinality(A) # 0
    BY <1>3, <1>4, FS_EmptySet
  <1>6. Cardinality(A) = b
    BY <1>1 DEF A
  <1> QED BY <1>3, <1>5, <1>6

\* It stays so when the frame on top is changed, unless that is its own.
LEMMA GoesOnSet ==
  ASSUME NEW s \in Seq(Frames), s # << >>, NEW f \in Frames, f.kind = Last(s).kind, NEW b, GoesOn(s, b),
         f.part = Last(s).part \/ f.part = "body" \/ Last(s).kind \notin LoopKinds
  PROVE  GoesOn(Append(Front(s), f), b)
  <1> DEFINE t == Append(Front(s), f)
  <1>1. PICK n \in Nat : n = Len(s) /\ n >= 1 /\ Last(s) = s[n]
    BY StackFrames
  <1>2. Len(t) = n /\ t[n] = f /\ \A i \in 1 .. n - 1 : t[i] = s[i]
    BY <1>1, Setting
  <1>3. LoopsOf(t) = LoopsOf(s)
    BY LoopsSet
  <1> HIDE DEF t
  <1>4. PICK i \in LoopsOf(s) : s[i].part = "body" /\ Cardinality({j \in LoopsOf(s) : j >= i}) = b
    BY DEF GoesOn
  <1>5. i \in 1 .. n /\ s[i].kind \in LoopKinds
    BY <1>1, <1>4 DEF LoopsOf
  <1>6. t[i].part = "body"
    <2>1. CASE i = n
      BY <2>1, <1>1, <1>2, <1>4, <1>5
    <2>2. CASE i # n
      <3>1. i \in 1 .. n - 1
        BY <2>2, <1>5
      <3> QED BY <3>1, <1>2, <1>4
    <2> QED BY <2>1, <2>2
  <1>7. GoesOn(t, b)
    BY <1>3, <1>4, <1>6 DEF GoesOn
  <1> QED BY <1>7 DEF t

\* And when a trap is run.
LEMMA GoesOnPush ==
  ASSUME NEW s \in Seq(Frames), s # << >>, NEW g \in Frames, g.kind = "trap", NEW b, GoesOn(s, b)
  PROVE  GoesOn(Append(s, g), b)
  <1> DEFINE t == Append(s, g)
  <1>1. PICK n \in Nat : n = Len(s)
    BY StackFrames
  <1>2. \A i \in 1 .. n : t[i] = s[i]
    BY <1>1, Pushing
  <1>3. LoopsOf(t) = LoopsOf(s)
    BY LoopsPush DEF LoopKinds
  <1> HIDE DEF t
  <1>4. PICK i \in LoopsOf(s) : s[i].part = "body" /\ Cardinality({j \in LoopsOf(s) : j >= i}) = b
    BY DEF GoesOn
  <1>5. i \in 1 .. n
    BY <1>1, <1>4 DEF LoopsOf
  <1>6. t[i].part = "body"
    BY <1>2, <1>4, <1>5
  <1>7. GoesOn(t, b)
    BY <1>3, <1>4, <1>6 DEF GoesOn
  <1> QED BY <1>7 DEF t

\* A construct that is not a loop returns; a loop that is not the one returns, and is
\* counted.  A script has no loop of another.
LEMMA GoesOnPop ==
  ASSUME NEW s \in Seq(Frames), Len(s) >= 2, NEW b, GoesOn(s, b)
  PROVE  /\ Last(s).kind # "source"
         /\ Last(s).kind \notin LoopKinds => GoesOn(Front(s), b)
         /\ Last(s).kind \in LoopKinds /\ b # 1 => GoesOn(Front(s), b - 1)
         /\ Last(s).kind \in LoopKinds /\ Last(s).part # "body" => b # 1
  <1> DEFINE t == Front(s)
  <1>1. PICK n \in Nat : n = Len(s) /\ n >= 2 /\ Last(s) = s[n]
    BY StackFrames
  <1>2. Len(t) = n - 1 /\ \A i \in 1 .. n - 1 : t[i] = s[i]
    BY <1>1, Popping
  <1>3. PICK i \in LoopsOf(s) : s[i].part = "body" /\ Cardinality({j \in LoopsOf(s) : j >= i}) = b
    BY DEF GoesOn
  <1> DEFINE A == {j \in LoopsOf(s) : j >= i}
  <1>4. i \in 1 .. n /\ i \in Int
    BY <1>1, <1>3 DEF LoopsOf
  <1>5. IsFiniteSet(A) /\ i \in A /\ Cardinality(A) = b
    BY <1>3, <1>4, LoopsAreFew
  <1>6. /\ s[n].kind \notin LoopKinds \cup {"source"} => LoopsOf(t) = LoopsOf(s)
        /\ s[n].kind \in LoopKinds => n \in LoopsOf(s) /\ LoopsOf(t) = LoopsOf(s) \ {n}
        /\ s[n].kind = "source" => LoopsOf(s) = {}
    BY <1>1, LoopsPop
  <1> HIDE DEF t
  <1>7. s[n].kind # "source"
    BY <1>3, <1>6
  <1>8. ASSUME i # n PROVE t[i].part = "body"
    <2>1. i \in 1 .. n - 1
      BY <1>4, <1>8
    <2> QED BY <1>2, <1>3, <2>1
  <1>9. ASSUME s[n].kind \notin LoopKinds PROVE GoesOn(t, b)
    <2>1. i # n
      BY <1>3, <1>9 DEF LoopsOf
    <2>2. LoopsOf(t) = LoopsOf(s)
      BY <1>6, <1>7, <1>9
    <2> QED BY <1>3, <1>8, <2>1, <2>2 DEF GoesOn
  <1>10. ASSUME s[n].kind \in LoopKinds PROVE n \in A /\ (i = n <=> b = 1)
    <2>1. n \in A
      BY <1>4, <1>6, <1>10
    <2>2. ASSUME i = n PROVE b = 1
      <3>1. A \subseteq {n}
        <4>1. LoopsOf(s) \subseteq 1 .. n
          BY <1>1 DEF LoopsOf
        <4>2. \A j \in 1 .. n : j >= n => j = n
          OBVIOUS
        <4> QED BY <2>2, <4>1, <4>2
      <3>2. A = {n}
        BY <2>1, <3>1
      <3> HIDE DEF A
      <3> QED BY <1>5, <3>2, FS_Singleton
    <2>3. ASSUME b = 1 PROVE i = n
      <3> HIDE DEF A
      <3>1. PICK x : A = {x}
        BY <1>5, <2>3, FS_Singleton
      <3> QED BY <1>5, <2>1, <3>1
    <2> QED BY <2>1, <2>2, <2>3
  <1>11. ASSUME s[n].kind \in LoopKinds, b # 1 PROVE GoesOn(t, b - 1)
    <2>1. i # n /\ n \in A
      BY <1>10, <1>11
    <2>2. LoopsOf(t) = LoopsOf(s) \ {n} /\ i \in LoopsOf(t)
      BY <1>3, <1>6, <1>11, <2>1
    <2>3. {j \in LoopsOf(t) : j >= i} = A \ {n}
      BY <2>2
    <2> HIDE DEF A
    <2>4. Cardinality(A \ {n}) = b - 1
      BY <1>5, <2>1, FS_RemoveElement
    <2>5. t[i].part = "body"
      BY <1>8, <2>1
    <2> QED BY <2>2, <2>3, <2>4, <2>5 DEF GoesOn
  <1>12. ASSUME s[n].kind \in LoopKinds, s[n].part # "body" PROVE b # 1
    BY <1>3, <1>10, <1>12
  <1> QED BY <1>1, <1>7, <1>9, <1>11, <1>12 DEF t

----------------------------------------------------------------------------
(* Traps.                                                                  *)

NoTraps(s) == \A i \in 1 .. Len(s) : s[i].kind # "trap"

\* Under what is not a trap there is none.
LEMMA NoTrapBelow ==
  ASSUME NEW s \in Seq(Frames), s # << >>, NEW c, Trapped(s, c), Last(s).kind # "trap"
  PROVE  NoTraps(s)
  <1>1. PICK n \in Nat : n = Len(s) /\ n >= 1 /\ Last(s) = s[n]
    BY StackFrames
  <1>2. ASSUME NEW i \in 1 .. n PROVE s[i].kind # "trap"
    <2>1. n \in 1 .. n /\ (i = n \/ i < n)
      BY <1>1
    <2> QED BY <1>1, <2>1 DEF Trapped
  <1> QED BY <1>1, <1>2 DEF NoTraps

\* Without traps there is nothing to be said of them.
LEMMA TrappedPlain ==
  ASSUME NEW s, NoTraps(s), NEW c PROVE Trapped(s, c)
  BY DEF NoTraps, Trapped

\* What is called where no trap runs.
LEMMA TrappedCall ==
  ASSUME NEW s \in Seq(Frames), s # << >>, NoTraps(s), NEW g \in Frames, g.kind # "trap", NEW c
  PROVE  Trapped(Append(s, g), c)
  <1> DEFINE t == Append(s, g)
  <1>1. PICK n \in Nat : n = Len(s)
    BY StackFrames
  <1>2. Len(t) = n + 1 /\ t[n + 1] = g /\ \A i \in 1 .. n : t[i] = s[i]
    BY <1>1, Pushing
  <1> HIDE DEF t
  <1>3. ASSUME NEW i \in 1 .. n + 1 PROVE t[i].kind # "trap"
    <2>1. i = n + 1 \/ i \in 1 .. n
      OBVIOUS
    <2> QED BY <1>1, <1>2, <2>1 DEF NoTraps
  <1>4. NoTraps(t)
    BY <1>2, <1>3 DEF NoTraps
  <1> QED BY <1>4, TrappedPlain DEF t

\* A trap on top of others.
LEMMA TrappedTrap ==
  ASSUME NEW s \in Seq(Frames), s # << >>, NEW c, Trapped(s, c),
         NEW g \in Frames, g.kind = "trap", g.oc <=> c, g.tr = 0
  PROVE  Trapped(Append(s, g), c)
  <1> DEFINE t == Append(s, g)
  <1>1. PICK n \in Nat : n = Len(s)
    BY StackFrames
  <1>2. Len(t) = n + 1 /\ t[n + 1] = g /\ \A i \in 1 .. n : t[i] = s[i]
    BY <1>1, Pushing
  <1> HIDE DEF t
  <1>3. \A i \in 1 .. n + 1 : i = n + 1 \/ i \in 1 .. n
    OBVIOUS
  <1>4. ASSUME NEW i \in 1 .. n + 1, NEW j \in 1 .. n + 1, i < j, t[i].kind = "trap"
        PROVE  t[j].kind = "trap"
    <2>1. i \in 1 .. n
      BY <1>4
    <2> QED BY <1>1, <1>2, <1>3, <1>4, <2>1 DEF Trapped
  <1>5. ASSUME NEW i \in 1 .. n + 1, t[i].kind = "trap" PROVE (t[i].oc <=> c) /\ t[i].tr = 0
    BY <1>1, <1>2, <1>3, <1>5 DEF Trapped
  <1>6. Trapped(t, c)
    BY <1>2, <1>4, <1>5 DEF Trapped
  <1> QED BY <1>6 DEF t

\* A trap whose frame is changed is still what it was.
LEMMA TrappedSet ==
  ASSUME NEW s \in Seq(Frames), s # << >>, NEW c, Trapped(s, c), NEW f \in Frames, Same(f, Last(s))
  PROVE  Trapped(Append(Front(s), f), c)
  <1> DEFINE t == Append(Front(s), f)
  <1>1. PICK n \in Nat : n = Len(s) /\ n >= 1 /\ Last(s) = s[n]
    BY StackFrames
  <1>2. Len(t) = n /\ t[n] = f /\ \A i \in 1 .. n - 1 : t[i] = s[i]
    BY <1>1, Setting
  <1> HIDE DEF t
  <1>3. ASSUME NEW i \in 1 .. n
        PROVE  /\ t[i].kind = s[i].kind
               /\ s[i].kind = "trap" => t[i].oc = s[i].oc /\ t[i].tr = s[i].tr
    <2>1. i = n \/ i \in 1 .. n - 1
      OBVIOUS
    <2> QED BY <1>1, <1>2, <2>1 DEF Same
  <1>4. Trapped(t, c)
    BY <1>1, <1>2, <1>3 DEF Trapped
  <1> QED BY <1>4 DEF t

\* A return.
LEMMA TrappedPop ==
  ASSUME NEW s \in Seq(Frames), Len(s) >= 2, NEW c, Trapped(s, c)
  PROVE  Trapped(Front(s), c) /\ (Last(s).kind # "trap" => NoTraps(Front(s)))
  <1> DEFINE t == Front(s)
  <1>1. PICK n \in Nat : n = Len(s) /\ n >= 2 /\ Last(s) = s[n]
    BY StackFrames
  <1>2. Len(t) = n - 1 /\ \A i \in 1 .. n - 1 : t[i] = s[i]
    BY <1>1, Popping
  <1> HIDE DEF t
  <1>3. \A i \in 1 .. n - 1 : i \in 1 .. n
    OBVIOUS
  <1>4. Trapped(t, c)
    BY <1>1, <1>2, <1>3 DEF Trapped
  <1>5. ASSUME s[n].kind # "trap" PROVE NoTraps(t)
    <2>1. NoTraps(s)
      BY <1>1, <1>5, NoTrapBelow
    <2> QED BY <1>1, <1>2, <1>3, <2>1 DEF NoTraps
  <1> QED BY <1>1, <1>4, <1>5 DEF t

----------------------------------------------------------------------------
(* Continue.                                                               *)

\* Without traps a continue is its count.
LEMMA ContinuingPlain ==
  ASSUME NEW s \in Seq(Frames), s # << >>, NoTraps(s), NEW b
  PROVE  Continuing(s, b) <=> GoesOn(s, b)
  <1>1. PICK n \in Nat : n = Len(s) /\ n >= 1 /\ Last(s) = s[n]
    BY StackFrames
  <1>2. Last(s).kind # "trap" /\ \A i \in 2 .. n : s[i].kind # "trap"
    BY <1>1 DEF NoTraps
  <1> QED BY <1>1, <1>2 DEF Continuing

\* The list of the construct on top goes on.
LEMMA ContinuingSet ==
  ASSUME NEW s \in Seq(Frames), s # << >>, NEW b, Continuing(s, b), NEW f \in Frames, Same(f, Last(s)),
         f.part = Last(s).part \/ f.part = "body" \/ Last(s).kind \notin LoopKinds
  PROVE  Continuing(Append(Front(s), f), b)
  <1> DEFINE t == Append(Front(s), f)
  <1>1. PICK n \in Nat : n = Len(s) /\ n >= 1 /\ Last(s) = s[n]
    BY StackFrames
  <1>2. Len(t) = n /\ t[n] = f /\ Last(t) = f /\ \A i \in 1 .. n - 1 : t[i] = s[i]
    BY <1>1, Setting
  <1>3. ASSUME NEW x, GoesOn(s, x) PROVE GoesOn(t, x)
    BY <1>3, GoesOnSet DEF Same
  <1> HIDE DEF t
  <1>4. IF Last(t).kind = "trap" THEN b = 0 ELSE GoesOn(t, b)
    BY <1>1, <1>2, <1>3 DEF Continuing, Same
  <1>5. ASSUME NEW i \in 2 .. n, t[i].kind = "trap"
        PROVE  IF t[i - 1].kind = "trap" THEN t[i].ob = 0 ELSE GoesOn(t, t[i].ob)
    <2>1. i - 1 \in 1 .. n - 1 /\ (i = n \/ i \in 1 .. n - 1)
      OBVIOUS
    <2>2. t[i - 1] = s[i - 1] /\ s[i].kind = "trap" /\ t[i].ob = s[i].ob
      BY <1>1, <1>2, <1>5, <2>1 DEF Same
    <2> QED BY <1>1, <1>3, <1>5, <2>2 DEF Continuing
  <1>6. Continuing(t, b)
    BY <1>2, <1>4, <1>5 DEF Continuing
  <1> QED BY <1>6 DEF t

\* A trap takes over the count.
LEMMA ContinuingPush ==
  ASSUME NEW s \in Seq(Frames), s # << >>, NEW b, Continuing(s, b),
         NEW g \in Frames, g.kind = "trap", g.ob = b
  PROVE  Continuing(Append(s, g), 0)
  <1> DEFINE t == Append(s, g)
  <1>1. PICK n \in Nat : n = Len(s) /\ n >= 1 /\ Last(s) = s[n]
    BY StackFrames
  <1>2. Len(t) = n + 1 /\ t[n + 1] = g /\ Last(t) = g /\ \A i \in 1 .. n : t[i] = s[i]
    BY <1>1, Pushing
  <1>3. ASSUME NEW x, GoesOn(s, x) PROVE GoesOn(t, x)
    BY <1>3, GoesOnPush
  <1> HIDE DEF t
  <1>5. ASSUME NEW i \in 2 .. n + 1, t[i].kind = "trap"
        PROVE  IF t[i - 1].kind = "trap" THEN t[i].ob = 0 ELSE GoesOn(t, t[i].ob)
    <2>1. CASE i = n + 1
      <3>1. t[i] = g /\ t[i - 1] = s[n]
        BY <1>1, <1>2, <2>1
      <3> QED BY <1>1, <1>3, <3>1 DEF Continuing
    <2>2. CASE i # n + 1
      <3>1. i \in 2 .. n /\ t[i] = s[i] /\ t[i - 1] = s[i - 1]
        BY <1>2, <2>2
      <3> QED BY <1>1, <1>3, <1>5, <3>1 DEF Continuing
    <2> QED BY <2>1, <2>2
  <1>6. Continuing(t, 0)
    BY <1>2, <1>5 DEF Continuing
  <1> QED BY <1>6 DEF t

\* And gives it back.
LEMMA ContinuingPop ==
  ASSUME NEW s \in Seq(Frames), Len(s) >= 2, Last(s).kind = "trap", NEW b, Continuing(s, b)
  PROVE  /\ b = 0 /\ Continuing(Front(s), Last(s).ob)
         /\ Last(s).ob \in Nat /\ Last(s).ob <= Cardinality(LoopsOf(Front(s)))
  <1> DEFINE t == Front(s)
  <1>1. PICK n \in Nat : n = Len(s) /\ n >= 2 /\ Last(s) = s[n]
    BY StackFrames
  <1>2. /\ t \in Seq(Frames) /\ Len(t) = n - 1 /\ Last(t) = s[n - 1]
        /\ \A i \in 1 .. n - 1 : t[i] = s[i]
    BY <1>1, Popping
  <1>3. ASSUME NEW x, GoesOn(s, x) PROVE GoesOn(t, x)
    BY <1>3, GoesOnPop DEF LoopKinds
  <1> HIDE DEF t
  <1>4. IF s[n - 1].kind = "trap" THEN s[n].ob = 0 ELSE GoesOn(s, s[n].ob)
    BY <1>1 DEF Continuing
  <1>5. ASSUME NEW i \in 2 .. n - 1, t[i].kind = "trap"
        PROVE  IF t[i - 1].kind = "trap" THEN t[i].ob = 0 ELSE GoesOn(t, t[i].ob)
    <2>1. i \in 2 .. n /\ t[i] = s[i] /\ t[i - 1] = s[i - 1]
      BY <1>2
    <2> QED BY <1>1, <1>3, <1>5, <2>1 DEF Continuing
  <1>6. Continuing(t, s[n].ob)
    BY <1>2, <1>3, <1>4, <1>5 DEF Continuing
  <1>7. s[n].ob \in Nat /\ s[n].ob <= Cardinality(LoopsOf(t))
    <2>1. CASE s[n - 1].kind = "trap"
      <3>1. Cardinality(LoopsOf(t)) \in Nat
        BY <1>2, LoopsAreFew
      <3> QED BY <1>4, <2>1, <3>1
    <2>2. CASE s[n - 1].kind # "trap"
      BY <1>2, <1>3, <1>4, <2>2, GoesOnCounts
    <2> QED BY <2>1, <2>2
  <1>8. b = 0
    BY DEF Continuing
  <1> QED BY <1>1, <1>6, <1>7, <1>8 DEF t

----------------------------------------------------------------------------
(* Return.                                                                 *)

\* The frame on top is changed.
LEMMA LeavesSet ==
  ASSUME NEW s \in Seq(Frames), s # << >>, NEW f \in Frames, f.kind = Last(s).kind, f.part = Last(s).part
  PROVE  /\ Leaves(s) => Leaves(Append(Front(s), f))
         /\ \A v, c : Returned(s, v, c) => Returned(Append(Front(s), f), v, c)
  <1> DEFINE t == Append(Front(s), f)
  <1>1. PICK n \in Nat : n = Len(s) /\ n >= 1 /\ Last(s) = s[n]
    BY StackFrames
  <1>2. Len(t) = n /\ t[n] = f /\ \A i \in 1 .. n - 1 : t[i] = s[i]
    BY <1>1, Setting
  <1> HIDE DEF t
  <1>3. ASSUME NEW i \in 1 .. n PROVE t[i].kind = s[i].kind /\ t[i].part = s[i].part
    <2>1. i = n \/ i \in 1 .. n - 1
      OBVIOUS
    <2> QED BY <1>1, <1>2, <2>1
  <1>4. ASSUME Leaves(s) PROVE Leaves(t)
    <2>1. \A i \in 1 .. n : t[i].part # "exit"
      BY <1>1, <1>3, <1>4 DEF Leaves
    <2>2. ASSUME NEW i \in 1 .. n, \A j \in i .. n : t[j].kind \notin {"fun", "source"}
          PROVE  t[i].part # "cond"
      <3>1. \A j \in i .. n : j \in 1 .. n
        OBVIOUS
      <3>2. \A j \in i .. n : s[j].kind \notin {"fun", "source"}
        BY <1>3, <2>2, <3>1
      <3> QED BY <1>1, <1>3, <1>4, <3>2 DEF Leaves
    <2> QED BY <1>2, <2>1, <2>2 DEF Leaves
  <1>5. ASSUME NEW v, NEW c, Returned(s, v, c) PROVE Returned(t, v, c)
    BY <1>1, <1>2, <1>3, <1>5 DEF Returned
  <1> QED BY <1>4, <1>5 DEF t

\* A trap is run.
LEMMA LeavesPush ==
  ASSUME NEW s \in Seq(Frames), s # << >>, NEW g \in Frames, g.kind = "trap", g.part = "body"
  PROVE  /\ Leaves(s) => Leaves(Append(s, g))
         /\ \A v, c : Returned(s, v, c) => Returned(Append(s, g), v, c)
  <1> DEFINE t == Append(s, g)
  <1>1. PICK n \in Nat : n = Len(s)
    BY StackFrames
  <1>2. Len(t) = n + 1 /\ t[n + 1] = g /\ \A i \in 1 .. n : t[i] = s[i]
    BY <1>1, Pushing
  <1> HIDE DEF t
  <1>3. \A i \in 1 .. n + 1 : i = n + 1 \/ i \in 1 .. n
    OBVIOUS
  <1>4. ASSUME Leaves(s) PROVE Leaves(t)
    <2>1. ASSUME NEW i \in 1 .. n + 1 PROVE t[i].part # "exit"
      BY <1>1, <1>2, <1>3, <1>4 DEF Leaves
    <2>2. ASSUME NEW i \in 1 .. n + 1, \A j \in i .. n + 1 : t[j].kind \notin {"fun", "source"}
          PROVE  t[i].part # "cond"
      <3>1. CASE i = n + 1
        BY <1>2, <3>1
      <3>2. CASE i \in 1 .. n
        <4>1. \A j \in i .. n : j \in 1 .. n /\ j \in i .. n + 1
          BY <3>2
        <4>2. \A j \in i .. n : s[j].kind \notin {"fun", "source"}
          BY <1>2, <2>2, <4>1
        <4> QED BY <1>1, <1>2, <1>4, <3>2, <4>2 DEF Leaves
      <3> QED BY <1>3, <3>1, <3>2
    <2> QED BY <1>2, <2>1, <2>2 DEF Leaves
  <1>5. ASSUME NEW v, NEW c, Returned(s, v, c) PROVE Returned(t, v, c)
    <2>1. ASSUME NEW i \in 1 .. n + 1, t[i].kind \in {"fun", "source"}
          PROVE  \E j \in 1 .. n : s[j].kind \in {"fun", "source"}
      <3>1. i \in 1 .. n
        BY <1>2, <1>3, <2>1
      <3> QED BY <1>2, <2>1, <3>1
    <2> QED BY <1>1, <1>2, <1>5, <2>1 DEF Returned
  <1> QED BY <1>4, <1>5 DEF t

\* A construct that is not what is returned from is left.
LEMMA LeavesPop ==
  ASSUME NEW s \in Seq(Frames), Len(s) >= 2, Last(s).kind \notin {"fun", "source"}
  PROVE  /\ Leaves(s) => Leaves(Front(s))
         /\ \A v, c : Returned(s, v, c) => Returned(Front(s), v, c)
  <1> DEFINE t == Front(s)
  <1>1. PICK n \in Nat : n = Len(s) /\ n >= 2 /\ Last(s) = s[n]
    BY StackFrames
  <1>2. Len(t) = n - 1 /\ \A i \in 1 .. n - 1 : t[i] = s[i]
    BY <1>1, Popping
  <1> HIDE DEF t
  <1>3. \A i \in 1 .. n - 1 : i \in 1 .. n
    OBVIOUS
  <1>4. ASSUME Leaves(s) PROVE Leaves(t)
    <2>1. \A i \in 1 .. n - 1 : t[i].part # "exit"
      BY <1>1, <1>2, <1>3, <1>4 DEF Leaves
    <2>2. ASSUME NEW i \in 1 .. n - 1, \A j \in i .. n - 1 : t[j].kind \notin {"fun", "source"}
          PROVE  t[i].part # "cond"
      <3>1. \A j \in i .. n : j = n \/ (j \in i .. n - 1 /\ j \in 1 .. n - 1)
        OBVIOUS
      <3>2. \A j \in i .. n : s[j].kind \notin {"fun", "source"}
        BY <1>1, <1>2, <2>2, <3>1
      <3> QED BY <1>1, <1>2, <1>3, <1>4, <3>2 DEF Leaves
    <2> QED BY <1>2, <2>1, <2>2 DEF Leaves
  <1>5. ASSUME NEW v, NEW c, Returned(s, v, c) PROVE Returned(t, v, c)
    BY <1>1, <1>2, <1>3, <1>5 DEF Returned
  <1> QED BY <1>4, <1>5 DEF t

\* The list of the construct on top goes on.
LEMMA ReturningSet ==
  ASSUME NEW s, Sound(s), NEW b, NEW at, NEW v, NEW c, Returning(s, b, at, v, c),
         NEW f \in Frames, Same(f, Last(s)), f.part = Last(s).part,
         NEW to, to \notin {"turn", "line"}, Last(s).kind = "trap" => to \in {"next", "left"},
         at # "gone" \/ to = "gone"
  PROVE  Returning(Append(Front(s), f), b, to, v, c)
  <1> DEFINE t == Append(Front(s), f)
  <1>0. s \in Seq(Frames) /\ s # << >>
    BY DEF Sound
  <1>1. PICK n \in Nat : n = Len(s) /\ n >= 1 /\ Last(s) = s[n] /\ (Last(s).kind # "top" => n >= 2)
    BY SoundParts
  <1>2. Len(t) = n /\ t[n] = f /\ Last(t) = f /\ \A i \in 1 .. n - 1 : t[i] = s[i]
    BY <1>0, <1>1, Setting
  <1>3. LoopsOf(t) = LoopsOf(s) /\ f.kind = Last(s).kind
    BY <1>0, LoopsSet DEF Same
  <1>4. /\ Leaves(s) => Leaves(t)
        /\ \A x, y : Returned(s, x, y) => Returned(t, x, y)
    BY <1>0, <1>3, LeavesSet
  <1> HIDE DEF t
  <1>5. Leaves(t)
    BY <1>4 DEF Returning
  <1>6. CASE f.kind # "trap"
    <2>1. b = Cardinality(LoopsOf(t)) /\ (to # "gone" => Returned(t, v, c))
      BY <1>3, <1>4, <1>6 DEF Returning
    <2> QED BY <1>2, <1>5, <1>6, <2>1 DEF Returning, t
  <1>7. CASE f.kind = "trap"
    <2>1. /\ b = 0 /\ Last(s).ob = Cardinality(LoopsOf(t)) /\ s[n - 1].kind # "trap"
          /\ Last(s).back # "gone" => Returned(t, Last(s).val, c)
      BY <1>1, <1>3, <1>4, <1>7 DEF Returning
    <2>2. f.ob = Last(s).ob /\ f.val = Last(s).val /\ f.back = Last(s).back
      BY <1>3, <1>7 DEF Same
    <2>3. t[n - 1].kind # "trap"
      <3>1. n >= 2
        BY <1>1, <1>3, <1>7
      <3> QED BY <3>1, <1>2, <2>1
    <2> QED BY <1>2, <1>3, <1>5, <1>7, <2>1, <2>2, <2>3 DEF Returning, t
  <1> QED BY <1>6, <1>7

\* A trap takes over the count and the status.
LEMMA ReturningPush ==
  ASSUME NEW s, Sound(s), NEW b, NEW at, NEW v, NEW c, Returning(s, b, at, v, c), Last(s).kind # "trap",
         NEW g \in Frames, g.kind = "trap", g.part = "body", g.ob = b, g.val = v,
         NEW w, NEW d, g.back = "gone" \/ (at # "gone" /\ d = c)
  PROVE  Returning(Append(s, g), 0, "next", w, d)
  <1> DEFINE t == Append(s, g)
  <1>0. s \in Seq(Frames) /\ s # << >>
    BY DEF Sound
  <1>1. PICK n \in Nat : n = Len(s) /\ n >= 1 /\ Last(s) = s[n]
    BY SoundParts
  <1>2. Len(t) = n + 1 /\ t[n + 1] = g /\ Last(t) = g /\ \A i \in 1 .. n : t[i] = s[i]
    BY <1>0, <1>1, Pushing
  <1>3. LoopsOf(t) = LoopsOf(s)
    BY <1>0, LoopsPush DEF LoopKinds
  <1>4. /\ Leaves(s) => Leaves(t)
        /\ \A x, y : Returned(s, x, y) => Returned(t, x, y)
    BY <1>0, LeavesPush
  <1> HIDE DEF t
  <1>5. Leaves(t) /\ b = Cardinality(LoopsOf(t)) /\ (at # "gone" => Returned(t, v, c))
    BY <1>3, <1>4 DEF Returning
  <1>6. t[n + 1 - 1].kind # "trap"
    BY <1>1, <1>2
  <1>7. Returning(t, 0, "next", w, d)
    BY <1>2, <1>5, <1>6 DEF Returning
  <1> QED BY <1>7 DEF t

\* And gives them back.
LEMMA ReturningPopTrap ==
  ASSUME NEW s, Sound(s), NEW b, NEW at, NEW v, NEW c, Returning(s, b, at, v, c), Last(s).kind = "trap"
  PROVE  LET f == Last(s)
         IN /\ Returning(Front(s), f.ob, f.back, f.val, c)
            /\ b = 0 /\ f.ob \in Nat /\ f.ob = Cardinality(LoopsOf(Front(s)))
  <1> DEFINE t == Front(s)
             f == Last(s)
  <1>0. s \in Seq(Frames) /\ s # << >> /\ f \in TrapFrames
    BY SoundParts, FrameFields DEF Sound
  <1>1. PICK n \in Nat : n = Len(s) /\ n >= 2 /\ f = s[n]
    BY SoundParts
  <1>2. /\ t \in Seq(Frames) /\ Len(t) = n - 1 /\ Last(t) = s[n - 1]
        /\ \A i \in 1 .. n - 1 : t[i] = s[i]
    BY <1>0, <1>1, Popping
  <1>3. LoopsOf(t) = LoopsOf(s)
    BY <1>0, <1>1, LoopsPop DEF LoopKinds
  <1>4. /\ Leaves(s) => Leaves(t)
        /\ \A x, y : Returned(s, x, y) => Returned(t, x, y)
    BY <1>0, <1>1, LeavesPop
  <1>5. f.back \in Backs
    BY <1>0 DEF TrapFrames
  <1> HIDE DEF t, f
  <1>6. /\ Leaves(t) /\ b = 0 /\ f.ob = Cardinality(LoopsOf(t)) /\ s[n - 1].kind # "trap"
        /\ f.back # "gone" => Returned(t, f.val, c)
    BY <1>1, <1>3, <1>4 DEF Returning, f
  <1>7. Cardinality(LoopsOf(t)) \in Nat
    BY <1>2, LoopsAreFew
  <1>8. f.back # "turn" /\ f.back # "line"
    BY <1>5 DEF Backs
  <1>9. Last(t).kind # "trap"
    BY <1>2, <1>6
  <1>10. Returning(t, f.ob, f.back, f.val, c)
    BY <1>6, <1>8, <1>9 DEF Returning
  <1> QED BY <1>6, <1>7, <1>10 DEF t, f

\* A construct is left; a loop counts.
LEMMA ReturningPop ==
  ASSUME NEW s, Sound(s), NEW b \in Int, NEW at, NEW v, NEW c, Returning(s, b, at, v, c), NoTraps(s),
         Last(s).kind \notin {"top", "fun", "source"}, at # "gone"
  PROVE  /\ Last(s).kind \in LoopKinds => b >= 1 /\ Returning(Front(s), b - 1, "chain", v, c)
         /\ Last(s).kind \notin LoopKinds => Returning(Front(s), b, "chain", v, c)
  <1> DEFINE t == Front(s)
             f == Last(s)
  <1>0. s \in Seq(Frames) /\ s # << >>
    BY DEF Sound
  <1>1. PICK n \in Nat : n = Len(s) /\ n >= 2 /\ f = s[n] /\ n \in 1 .. n /\ n - 1 \in 1 .. n
    BY SoundParts
  <1>2. /\ t \in Seq(Frames) /\ Len(t) = n - 1 /\ Last(t) = s[n - 1]
        /\ \A i \in 1 .. n - 1 : t[i] = s[i]
    BY <1>0, <1>1, Popping
  <1>3. /\ f.kind \notin LoopKinds \cup {"source"} => LoopsOf(t) = LoopsOf(s)
        /\ f.kind \in LoopKinds => n \in LoopsOf(s) /\ LoopsOf(t) = LoopsOf(s) \ {n}
    BY <1>0, <1>1, LoopsPop
  <1>4. /\ Leaves(s) => Leaves(t)
        /\ \A x, y : Returned(s, x, y) => Returned(t, x, y)
    BY <1>0, <1>1, LeavesPop
  <1>5. IsFiniteSet(LoopsOf(s)) /\ Cardinality(LoopsOf(s)) \in Nat
    BY <1>0, LoopsAreFew
  <1> HIDE DEF t, f
  <1>6. f.kind # "trap" /\ Last(t).kind # "trap"
    BY <1>1, <1>2 DEF NoTraps
  <1>7. Leaves(t) /\ b = Cardinality(LoopsOf(s)) /\ Returned(t, v, c)
    BY <1>4, <1>6 DEF Returning, f
  <1>8. ASSUME f.kind \in LoopKinds PROVE b >= 1 /\ Returning(t, b - 1, "chain", v, c)
    <2>1. n \in LoopsOf(s) /\ LoopsOf(t) = LoopsOf(s) \ {n}
      BY <1>3, <1>8
    <2>2. Cardinality(LoopsOf(t)) = Cardinality(LoopsOf(s)) - 1
      BY <1>5, <2>1, FS_RemoveElement
    <2>3. Cardinality(LoopsOf(s)) # 0
      BY <1>5, <2>1, FS_EmptySet
    <2>4. Returning(t, b - 1, "chain", v, c)
      BY <1>6, <1>7, <2>2 DEF Returning
    <2> QED BY <1>5, <1>7, <2>3, <2>4
  <1>9. ASSUME f.kind \notin LoopKinds PROVE Returning(t, b, "chain", v, c)
    <2>1. LoopsOf(t) = LoopsOf(s)
      BY <1>3, <1>9 DEF f
    <2> QED BY <1>6, <1>7, <2>1 DEF Returning
  <1> QED BY <1>8, <1>9 DEF t, f

----------------------------------------------------------------------------
(* Steps.                                                                  *)

\* What is known at the beginning of a step.
LEMMA JumpBefore ==
  ASSUME IInv, JumpInv
  PROVE  /\ Sound(stack) /\ stack \in Seq(Frames) /\ stack # << >> /\ Top \in Frames /\ Top = Last(stack)
         /\ contflag \in BOOLEAN /\ retflag \in BOOLEAN /\ errflag \in BOOLEAN
         /\ trapreturn = 0 /\ breaks \in Int /\ lastval \in Int
         /\ loops = Cardinality(LoopsOf(stack)) /\ loops \in Nat
         /\ Top.kind # "trap" => NoTraps(stack)
         /\ Top.kind # "top" => Len(stack) >= 2
         /\ contflag /\ Top.kind # "trap" => GoesOn(stack, breaks) /\ breaks >= 1 /\ breaks <= loops
         /\ contflag /\ Top.kind = "trap" => breaks = 0
         /\ Top.kind \in {"top", "source"} => ~contflag
  <1>1. Sound(stack) /\ Scalars /\ loops \in Nat
    BY Before
  <1>2. /\ stack \in Seq(Frames) /\ stack # << >> /\ Top \in Frames /\ Top = Last(stack)
        /\ Top.kind # "top" => Len(stack) >= 2
    BY <1>1, SoundParts DEF Top
  <1>3. loops = Cardinality(LoopsOf(stack))
    BY <1>2, LoopsAreOfTheStack
  <1>4. Top.kind # "trap" => NoTraps(stack)
    BY <1>2, NoTrapBelow DEF JumpInv
  <1>5. contflag => IF Top.kind = "trap" THEN breaks = 0 ELSE GoesOn(stack, breaks)
    BY <1>2 DEF JumpInv, Continuing
  <1>6. GoesOn(stack, breaks) => breaks >= 1 /\ breaks <= loops
    BY <1>2, <1>3, GoesOnCounts
  <1>7. Top.kind \in {"top", "source"} => ~contflag
    <2>1. ASSUME Top.kind \in {"top", "source"}, contflag PROVE FALSE
      <3>1. LoopsOf(stack) = {}
        BY <1>1, <1>2, <2>1, NoLoopsOnTop
      <3>2. GoesOn(stack, breaks)
        BY <1>5, <2>1
      <3> QED BY <3>1, <3>2 DEF GoesOn
    <2> QED BY <2>1
  <1>8. trapreturn = 0
    BY DEF JumpInv
  <1> QED BY <1>1, <1>2, <1>3, <1>4, <1>5, <1>6, <1>7, <1>8 DEF Scalars

\* A command that is more than a simple one is executed where no trap runs and no jump is
\* pending.
LEMMA NothingPending ==
  ASSUME Plain, IInv, JumpInv, Executing, Compounds
  PROVE  NoTraps(stack) /\ ~contflag /\ ~retflag /\ Top.kind # "trap"
  <1>1. PICK n \in Nat : n = Len(stack) /\ DOMAIN stack = 1 .. n /\ n >= 1 /\ Last(stack) = stack[n]
    BY JumpBefore, StackFrames
  <1>2. TrapsRunning = {}
    BY DEF Compounds, Plain
  <1>3. NoTraps(stack)
    BY <1>1, <1>2 DEF TrapsRunning, NoTraps
  <1>4. Top.kind # "trap"
    BY <1>1, <1>3 DEF NoTraps, Top
  <1>5. breaks = 0 /\ ~retflag
    BY DEF Executing
  <1>6. ~contflag
    BY <1>4, <1>5, JumpBefore
  <1> QED BY <1>3, <1>4, <1>5, <1>6

\* No jump is pending after the step.
LEMMA Quiet ==
  ASSUME NEW c, Trapped(stack', c), contflag' = c, c = FALSE, ~retflag', trapreturn' = 0
  PROVE  JumpInv'
  <1>1. ~contflag'
    OBVIOUS
  <1>2. Trapped(stack', contflag')
    OBVIOUS
  <1> QED BY <1>1, <1>2 DEF JumpInv

\* Neither is one before, and the stack is left alone, changed on top, returned from or
\* called on.
LEMMA QuietMoves ==
  ASSUME IInv, JumpInv, ~contflag, ~retflag, UNCHANGED <<contflag, retflag>>, trapreturn' = 0,
         \/ stack' = stack
         \/ \E f \in Frames : Same(f, Top) /\ SetTop(f)
         \/ stack' = Under /\ Top.kind # "top"
         \/ NoTraps(stack) /\ \E g \in Frames : g.kind # "trap" /\ stack' = Append(stack, g)
  PROVE  JumpInv'
  <1>1. contflag = FALSE /\ contflag' = contflag /\ ~retflag'
    BY JumpBefore
  <1>2. Trapped(stack, contflag)
    BY DEF JumpInv
  <1>3. CASE stack' = stack
    BY <1>1, <1>2, <1>3, Quiet
  <1>4. ASSUME NEW f \in Frames, Same(f, Top), SetTop(f) PROVE JumpInv'
    <2>1. stack' = Append(Front(stack), f) /\ Same(f, Last(stack))
      BY <1>4, JumpBefore DEF SetTop, Under
    <2>2. Trapped(stack', contflag)
      BY <1>2, <2>1, JumpBefore, TrappedSet
    <2> QED BY <1>1, <2>2, Quiet
  <1>5. CASE stack' = Under /\ Top.kind # "top"
    <2>1. Trapped(stack', contflag)
      BY <1>2, <1>5, JumpBefore, TrappedPop DEF Under
    <2> QED BY <1>1, <2>1, Quiet
  <1>6. ASSUME NoTraps(stack), NEW g \in Frames, g.kind # "trap", stack' = Append(stack, g)
        PROVE  JumpInv'
    <2>1. Trapped(stack', contflag)
      BY <1>6, JumpBefore, TrappedCall
    <2> QED BY <1>1, <2>1, Quiet
  <1> QED BY <1>3, <1>4, <1>5, <1>6

\* A step that leaves the stack and the flags alone.
LEMMA JumpStays ==
  ASSUME JumpInv, stack' = stack, UNCHANGED <<breaks, contflag, retflag, trapreturn>>,
         contflag \/ retflag => errflag' = errflag, contflag => pc' # "turn",
         retflag => Returning(stack, breaks, pc', lastval', cmd')
  PROVE  JumpInv'
  BY DEF JumpInv

\* A step that changes the frame on top.
LEMMA JumpSets ==
  ASSUME IInv, JumpInv, NEW f \in Frames, Same(f, Top), SetTop(f),
         UNCHANGED <<breaks, contflag, retflag, trapreturn, errflag>>,
         retflag => lastval' = lastval,
         contflag => f.part = Top.part \/ f.part = "body" \/ Top.kind \notin LoopKinds,
         pc' \notin {"turn", "line", "gone"},
         retflag => /\ f.part = Top.part /\ pc # "gone" /\ cmd' = cmd
                    /\ pc \in {"next", "left"} => pc' \in {"next", "left"}
  PROVE  JumpInv'
  <1>1. stack' = Append(Front(stack), f) /\ Same(f, Last(stack)) /\ Top = Last(stack)
    BY JumpBefore DEF SetTop, Under
  <1>2. Trapped(stack', contflag)
    BY <1>1, JumpBefore, TrappedSet DEF JumpInv
  <1>3. ASSUME contflag PROVE Continuing(stack', breaks)
    BY <1>1, <1>3, JumpBefore, ContinuingSet DEF JumpInv
  <1>4. ASSUME retflag PROVE Returning(stack', breaks, pc', lastval, cmd)
    <2>1. Returning(stack, breaks, pc, lastval, cmd)
      BY <1>4 DEF JumpInv
    <2>2. Last(stack).kind = "trap" => pc' \in {"next", "left"}
      BY <1>4, <2>1 DEF Returning
    <2> QED BY <1>1, <1>4, <2>1, <2>2, JumpBefore, ReturningSet
  <1> QED BY <1>2, <1>3, <1>4 DEF JumpInv

\* dotrap: the trap delays the jump.
LEMMA JumpTraps ==
  ASSUME IInv, JumpInv, NEW sig \in Signals, NEW style, style # "function",
         NEW back \in {"check", "told", "gone"}, NEW ne \in BOOLEAN, dotrap(sig, style, back, ne),
         UNCHANGED <<lastval, contflag, retflag, errflag>>,
         pc \notin {"next", "left", "gone"}, cmd' = cmd \/ back = "gone"
  PROVE  JumpInv'
  <1>1. ASSUME retflag PROVE Top.kind # "trap" /\ Returning(stack, breaks, pc, lastval, cmd)
    BY <1>1, JumpBefore DEF JumpInv, Returning
  <1>2. CASE Ignored(sig)
    <2>1. pc' = back /\ stack' = stack /\ UNCHANGED <<breaks, trapreturn>>
      BY <1>2 DEF dotrap, traps
    <2>2. ASSUME retflag PROVE Returning(stack, breaks, pc', lastval', cmd')
      BY <1>1, <2>1, <2>2, JumpBefore DEF Returning
    <2> QED BY <2>1, <2>2, JumpStays
  <1>3. CASE ~Ignored(sig)
    <2> DEFINE g == TrapFrame(sig, back, ne)
    <2>1. breaks' = 0 /\ pc' = "next" /\ stack' = Append(stack, g) /\ UNCHANGED trapreturn
      BY <1>3 DEF dotrap, traps
    <2>2. /\ g.kind = "trap" /\ g.part = "body" /\ g.ob = breaks /\ g.val = lastval
          /\ g.tr = trapreturn /\ g.oc = contflag /\ g.back = back
      BY DEF TrapFrame
    <2>3. back \in Backs
      BY DEF Backs
    <2>4. g \in Frames
      BY <2>3, Before, NewTrap DEF Scalars
    <2> HIDE DEF g
    <2>5. Trapped(stack', contflag)
      BY <2>1, <2>2, <2>4, JumpBefore, TrappedTrap DEF JumpInv
    <2>6. ASSUME contflag PROVE Continuing(stack', breaks')
      BY <2>1, <2>2, <2>4, <2>6, JumpBefore, ContinuingPush DEF JumpInv
    <2>7. ASSUME retflag PROVE Returning(stack', breaks', pc', lastval', cmd')
      BY <1>1, <2>1, <2>2, <2>4, <2>7, JumpBefore, ReturningPush
    <2> QED BY <2>1, <2>5, <2>6, <2>7 DEF JumpInv
  <1> QED BY <1>2, <1>3

\* The shell is left.
LEMMA JumpLeaves ==
  ASSUME IInv, JumpInv, LeaveShell, UNCHANGED <<lastval, contflag, retflag, errflag>>,
         pc \notin {"next", "left", "gone"}
  PROVE  JumpInv'
  <1>1. CASE exittrap
    <2>1. dotrap("EXIT", "list", "gone", noerrexit) /\ noerrexit \in BOOLEAN
      BY <1>1, Before DEF LeaveShell, Scalars
    <2>2. "EXIT" \in Signals
      BY DEF Signals
    <2> QED BY <2>1, <2>2, JumpTraps
  <1>2. CASE ~exittrap
    <2>1. pc' = "gone" /\ stack' = stack /\ UNCHANGED <<breaks, trapreturn>>
      BY <1>2 DEF LeaveShell, traps
    <2>2. ASSUME retflag PROVE Returning(stack, breaks, pc', lastval', cmd')
      BY <2>1, <2>2, JumpBefore DEF JumpInv, Returning
    <2> QED BY <2>1, <2>2, JumpStays
  <1> QED BY <1>1, <1>2

\* A step that returns from a construct that is not what is returned from.
LEMMA JumpReturns ==
  ASSUME IInv, JumpInv, stack' = Under, Top.kind \notin {"top", "trap", "source"},
         UNCHANGED <<contflag, retflag, trapreturn>>, contflag \/ retflag => errflag' = errflag,
         breaks' = IF Top.kind \in LoopKinds /\ breaks # 0 THEN breaks - 1 ELSE breaks,
         contflag => pc' # "turn" /\ (Top.kind \in LoopKinds => breaks # 1),
         retflag => Top.kind # "fun" /\ lastval' = lastval /\ cmd' = cmd /\ pc # "gone" /\ pc' = "chain"
  PROVE  JumpInv'
  <1>1. Top = Last(stack) /\ NoTraps(stack) /\ Len(stack) >= 2 /\ stack' = Front(stack)
    BY JumpBefore DEF Under
  <1>2. /\ Trapped(stack', contflag) /\ NoTraps(stack')
        /\ stack' \in Seq(Frames) /\ stack' # << >>
    BY <1>1, JumpBefore, TrappedPop, Popping DEF JumpInv
  <1>3. ASSUME contflag PROVE Continuing(stack', breaks')
    <2>1. GoesOn(stack, breaks) /\ breaks >= 1 /\ breaks \in Int
      BY <1>1, <1>3, JumpBefore DEF NoTraps
    <2>2. /\ Top.kind \notin LoopKinds => GoesOn(stack', breaks)
          /\ Top.kind \in LoopKinds /\ breaks # 1 => GoesOn(stack', breaks - 1)
      BY <1>1, <2>1, JumpBefore, GoesOnPop
    <2>3. GoesOn(stack', breaks')
      BY <1>3, <2>1, <2>2
    <2> QED BY <1>2, <2>3, ContinuingPlain
  <1>4. ASSUME retflag PROVE Returning(stack', breaks', pc', lastval', cmd')
    <2>1. Returning(stack, breaks, pc, lastval, cmd)
      BY <1>4 DEF JumpInv
    <2>2. /\ Top.kind \in LoopKinds => breaks >= 1 /\ Returning(stack', breaks - 1, "chain", lastval, cmd)
          /\ Top.kind \notin LoopKinds => Returning(stack', breaks, "chain", lastval, cmd)
      BY <1>1, <1>4, <2>1, JumpBefore, ReturningPop
    <2> QED BY <1>4, <2>2, JumpBefore
  <1> QED BY <1>2, <1>3, <1>4 DEF JumpInv

----------------------------------------------------------------------------
(* The steps of execlist.                                                  *)

\* NextSublist: only a trap executes a command while a continue is pending.
LEMMA NextSublistCarries == ASSUME IInv, JumpInv, NextSublist PROVE JumpInv'
  <1>1. PICK type \in Ops : SetTop([Top EXCEPT !.op = type])
    BY DEF NextSublist, Ops
  <1> DEFINE f == [Top EXCEPT !.op = type]
  <1>2. f \in Frames /\ Same(f, Top) /\ f.part = Top.part
    BY Before, OpChanges
  <1>3. SetTop(f)
    BY <1>1
  <1> HIDE DEF f
  <1>4. /\ ~retflag /\ pc' = "command"
        /\ UNCHANGED <<breaks, contflag, retflag, trapreturn, errflag, lastval>>
    BY Zenon DEF NextSublist, control, traps
  <1> QED BY <1>2, <1>3, <1>4, JumpSets

\* ListEnds: a jump passes.
LEMMA ListEndsCarries == ASSUME IInv, JumpInv, ListEnds PROVE JumpInv'
  <1> DEFINE f == [Top EXCEPT !.op = "END"]
  <1>1. "END" \in Ops
    BY DEF Ops
  <1>2. f \in Frames /\ Same(f, Top) /\ f.part = Top.part
    BY <1>1, Before, OpChanges
  <1>3. SetTop(f)
    BY DEF ListEnds
  <1> HIDE DEF f
  <1>4. /\ pc = "next" /\ pc' = "left"
        /\ UNCHANGED <<breaks, contflag, retflag, trapreturn, errflag, lastval>>
        /\ retflag => cmd' = cmd
    BY DEF ListEnds, control, traps
  <1> QED BY <1>2, <1>3, <1>4, JumpSets

\* Where no ! stands before a return or what it skips, its status stays.
LEMMA StatusStays == ASSUME Plain, retflag, NEW v \in PipelineStatus PROVE v = lastval
  BY DEF Plain, PipelineStatus

\* ChainTo.
LEMMA ChainToCarries == ASSUME Plain, IInv, JumpInv, NEW type \in Ops, ChainTo(type) PROVE JumpInv'
  <1> DEFINE f == [Top EXCEPT !.op = type]
  <1>2. f \in Frames /\ Same(f, Top) /\ f.part = Top.part
    BY Before, OpChanges
  <1>3. SetTop(f)
    BY DEF ChainTo
  <1> HIDE DEF f
  <1>4. /\ pc = "chain" /\ pc' = "command" /\ cmd' = cmd
        /\ UNCHANGED <<breaks, contflag, retflag, trapreturn, errflag>>
    BY DEF ChainTo, control, traps
  <1>5. retflag => lastval' = lastval
    BY StatusStays DEF ChainTo
  <1> QED BY <1>2, <1>3, <1>4, <1>5, JumpSets

\* A step of execlist that changes nothing a jump looks at.
LEMMA PassingCarries ==
  ASSUME IInv, JumpInv, pc \notin {"next", "left", "gone"}, pc' \notin {"turn", "line", "gone"},
         UNCHANGED <<stack, breaks, contflag, retflag, trapreturn>>,
         contflag \/ retflag => errflag' = errflag,
         retflag => lastval' = lastval /\ cmd' = cmd
  PROVE  JumpInv'
  <1>1. ASSUME retflag PROVE Returning(stack, breaks, pc', lastval', cmd')
    BY <1>1, JumpBefore DEF JumpInv, Returning
  <1> QED BY <1>1, JumpStays

\* A skipped pipeline leaves the status of a return alone.
LEMMA SkippedCarries == ASSUME IInv, JumpInv, Skipped PROVE JumpInv'
  <1>1. /\ pc = "command" /\ pc' = "chain" /\ cmd' = cmd /\ errflag' = errflag
        /\ UNCHANGED <<stack, breaks, contflag, retflag, trapreturn>>
        /\ retflag => lastval' = lastval
    BY DEF Skipped, control, traps
  <1> QED BY <1>1, PassingCarries

\* The end of a sublist.
LEMMA ChainEndsCarries == ASSUME Plain, IInv, JumpInv, ChainSkips \/ ChainEnds PROVE JumpInv'
  <1>1. /\ pc = "chain" /\ pc' = "ended" /\ UNCHANGED <<errflag, cmd>>
        /\ UNCHANGED <<stack, breaks, contflag, retflag, trapreturn>>
        /\ lastval' \in PipelineStatus
    BY Zenon DEF ChainSkips, ChainEnds, control, traps
  <1>2. retflag => lastval' = lastval
    BY <1>1, StatusStays
  <1> QED BY <1>1, <1>2, PassingCarries

\* A DEBUG trap runs while a jump is pending.
LEMMA SublistDoneCarries == ASSUME Plain, IInv, JumpInv, SublistDone PROVE JumpInv'
  <1>1. pc = "ended" /\ UNCHANGED <<lastval, contflag, retflag, errflag, cmd>> /\ Top.ne \in BOOLEAN
    BY Before DEF SublistDone
  <1>2. CASE setup.DEBUG = "none"
    <2>1. pc' = "check" /\ UNCHANGED <<stack, breaks, trapreturn>>
      BY <1>2 DEF SublistDone, traps
    <2> QED BY <1>1, <2>1, PassingCarries
  <1>3. CASE setup.DEBUG # "none"
    <2>1. dotrap("DEBUG", setup.DEBUG, "check", Top.ne)
      BY <1>3 DEF SublistDone
    <2>2. "DEBUG" \in Signals /\ setup.DEBUG # "function"
      BY Before DEF Signals, Plain, Scalars
    <2> QED BY <1>1, <2>1, <2>2, JumpTraps
  <1> QED BY <1>2, <1>3

\* ERREXIT obeys a return, too.
LEMMA ExitOnErrorCarries ==
  ASSUME IInv, JumpInv, ExitOnError, UNCHANGED <<lastval, contflag, retflag, errflag>>,
         pc \in {"check", "told"}
  PROVE  JumpInv'
  <1>1. CASE lastval # 0 /\ setup.ERREXIT
    <2>1. LeaveShell
      BY <1>1 DEF ExitOnError
    <2> QED BY <2>1, JumpLeaves
  <1>2. CASE ~(lastval # 0 /\ setup.ERREXIT)
    <2>1. pc' = "next" /\ UNCHANGED <<stack, breaks, trapreturn, cmd>>
      BY <1>2 DEF ExitOnError, traps
    <2> QED BY <2>1, PassingCarries
  <1> QED BY <1>1, <1>2

\* So does a ZERR trap.
LEMMA CheckStatusCarries == ASSUME Plain, IInv, JumpInv, CheckStatus PROVE JumpInv'
  <1>1. pc = "check" /\ UNCHANGED <<lastval, contflag, retflag, errflag>> /\ noerrexit \in BOOLEAN
    BY Before DEF CheckStatus, Scalars
  <1>2. CASE noerrexit \/ donetrap
    <2>1. pc' = "next" /\ UNCHANGED <<stack, breaks, trapreturn, cmd>>
      BY <1>2 DEF CheckStatus, traps
    <2> QED BY <1>1, <2>1, PassingCarries
  <1>3. CASE ~noerrexit /\ ~donetrap
    <2>2. CASE lastval # 0 /\ setup.ZERR # "none"
      <3>1. dotrap("ZERR", setup.ZERR, "told", noerrexit) /\ cmd' = cmd
        BY <1>3, <2>2, Zenon DEF CheckStatus
      <3>2. "ZERR" \in Signals /\ setup.ZERR # "function"
        BY Before DEF Signals, Plain, Scalars
      <3> QED BY <1>1, <3>1, <3>2, JumpTraps
    <2>3. CASE ~(lastval # 0 /\ setup.ZERR # "none")
      <3>1. ExitOnError
        BY <1>3, <2>3, Zenon DEF CheckStatus
      <3> QED BY <1>1, <3>1, ExitOnErrorCarries
    <2> QED BY <2>2, <2>3
  <1> QED BY <1>2, <1>3

\* After the trap.
LEMMA TrapToldCarries == ASSUME IInv, JumpInv, TrapTold PROVE JumpInv'
  <1>1. pc = "told" /\ ExitOnError /\ UNCHANGED <<lastval, contflag, retflag, errflag>>
    BY Zenon DEF TrapTold
  <1> QED BY <1>1, ExitOnErrorCarries

----------------------------------------------------------------------------
(* Commands.                                                               *)

\* A simple command; also in a trap that delays a continue.
LEMMA SimpleCarries == ASSUME IInv, JumpInv, Simple PROVE JumpInv'
  <1>1. pc = "command" /\ ~retflag /\ pc' = "chain"
        /\ errflag' = errflag /\ UNCHANGED <<stack, breaks, contflag, retflag, trapreturn>>
    BY DEF Simple, Executing, control, traps
  <1> QED BY <1>1, PassingCarries

\* trap ... EXIT.
LEMMA BinTrapCarries == ASSUME IInv, JumpInv, bin_trap PROVE JumpInv'
  <1>1. pc = "command" /\ ~retflag /\ pc' = "chain"
        /\ errflag' = errflag /\ UNCHANGED <<stack, breaks, contflag, retflag, trapreturn>>
    BY Zenon DEF bin_trap, Executing, control
  <1> QED BY <1>1, PassingCarries

\* An error comes over no jump.
LEMMA FailsCarries == ASSUME Plain, IInv, JumpInv, Fails PROVE JumpInv'
  <1>1. ~retflag /\ stack' = stack /\ UNCHANGED <<contflag, retflag, trapreturn>>
    BY Zenon DEF Fails, Executing, control, traps
  <1>2. ~contflag
    BY Zenon DEF Fails, Plain
  <1>3. trapreturn' = 0
    BY <1>1, JumpBefore
  <1> QED BY <1>1, <1>2, <1>3, QuietMoves

\* exit.
LEMMA BinExitCarries == ASSUME IInv, JumpInv, bin_exit PROVE JumpInv'
  <1>1. pc = "command" /\ LeaveShell /\ UNCHANGED <<lastval, contflag, retflag, errflag>>
    BY DEF bin_exit, Executing
  <1> QED BY <1>1, JumpLeaves

\* SIGINT comes over no jump.
LEMMA InterruptedCarries == ASSUME Plain, IInv, JumpInv, Interrupted PROVE JumpInv'
  <1>1. stack' = stack /\ UNCHANGED <<contflag, retflag, trapreturn>>
    BY Zenon DEF Interrupted, traps
  <1>2. ~contflag /\ ~retflag
    BY Zenon DEF Interrupted, Plain
  <1>3. trapreturn' = 0
    BY <1>1, JumpBefore
  <1> QED BY <1>1, <1>2, <1>3, QuietMoves

\* break: no flag says that a loop goes on.
LEMMA BinBreakCarries == ASSUME Plain, IInv, JumpInv, NEW n \in Jumps, bin_break(n) PROVE JumpInv'
  <1>1. Executing /\ Compounds /\ stack' = stack /\ UNCHANGED <<contflag, retflag, trapreturn>>
    BY DEF bin_break, traps
  <1>2. trapreturn' = 0
    BY <1>1, JumpBefore
  <1> QED BY <1>1, <1>2, NothingPending, QuietMoves

\* continue: the loop that goes on is in its body.
LEMMA BinContinueCarries ==
  ASSUME Plain, IInv, JumpInv, NEW n \in Jumps, bin_continue(n) PROVE JumpInv'
  <1> DEFINE b == Least(n, loops)
  <1>1. /\ Executing /\ Compounds /\ loops > 0 /\ stack' = stack /\ pc' = "chain" /\ ~errflag
        /\ UNCHANGED <<retflag, errflag, trapreturn>>
    BY Zenon DEF bin_continue, Executing, traps
  <1>2. NoTraps(stack) /\ ~retflag /\ Top.kind # "trap"
    BY <1>1, NothingPending
  <1>3. breaks' = b
    BY Zenon DEF bin_continue
  <1>4. n >= 1 /\ n \in Int /\ ~(n < 1) /\ "continue in condition" \notin Quirks
    BY ConstantsAssumption DEF Plain
  <1>5. stack[Target(n)].part = "body"
    BY <1>4, Zenon DEF bin_continue
  <1>6. loops \in Nat /\ loops = Cardinality(LoopsOf(stack)) /\ LoopFrames = LoopsOf(stack)
    BY JumpBefore, LoopsAreOfTheStack
  <1>7. b \in 1 .. loops
    <2>1. loops > 0
      BY <1>1
    <2>2. n >= 1 /\ n \in Int /\ loops \in Nat
      BY <1>4, <1>6
    <2> QED BY <2>1, <2>2 DEF Least
  <1>8. PICK m \in Nat : m = Len(stack)
    BY JumpBefore
  <1>9. LoopsOf(stack) \in SUBSET (1 .. m)
    BY <1>8 DEF LoopsOf
  <1> HIDE DEF b
  <1>10. \E i \in LoopsOf(stack) : Cardinality({j \in LoopsOf(stack) : j >= i}) = b
    BY <1>6, <1>7, <1>8, <1>9, Ranks
  <1>11. /\ Target(n) \in LoopsOf(stack)
         /\ Cardinality({j \in LoopsOf(stack) : j >= Target(n)}) = b
    <2>1. Target(n) = CHOOSE i \in LoopsOf(stack) : Cardinality({j \in LoopsOf(stack) : j >= i}) = b
      BY <1>6, Zenon DEF Target, b
    <2> QED BY <1>10, <2>1, Zenon
  <1>12. GoesOn(stack, b)
    BY <1>5, <1>11 DEF GoesOn
  <1>13. Continuing(stack, b)
    BY <1>2, <1>12, JumpBefore, ContinuingPlain
  <1>14. Trapped(stack, contflag')
    BY <1>2, TrappedPlain
  <1>15. trapreturn' = 0
    BY <1>1, JumpBefore
  <1>16. ~retflag' /\ ~errflag' /\ pc' # "turn" /\ Continuing(stack', breaks') /\ Trapped(stack', contflag')
    BY <1>1, <1>2, <1>3, <1>13, <1>14
  <1> QED BY <1>15, <1>16, Zenon DEF JumpInv

\* return: it leaves no trap, and no condition.
LEMMA BinReturnCarries ==
  ASSUME Plain, IInv, JumpInv, NEW v \in {0, 1}, bin_return(v) PROVE JumpInv'
  <1> DEFINE outer == {i \in DOMAIN stack : \E j \in Callees : i <= j}
             left == DOMAIN stack \ outer
  <1>1. /\ Executing /\ stack' = stack /\ pc' = "chain" /\ ~errflag /\ ~retflag /\ pc = "command"
        /\ UNCHANGED <<contflag, errflag>>
    BY Zenon DEF bin_return, Executing
  <1>2. /\ left \cap TrapsRunning = {} /\ \A i \in left : stack[i].part # "cond"
    BY Zenon DEF bin_return, Plain
  <1>3. breaks' = loops /\ lastval' = v /\ cmd' = [op |-> "return", n |-> v]
        /\ trapreturn' = IF trapreturn = -2 THEN v ELSE trapreturn
    BY Zenon DEF bin_return
  <1>4. PICK n \in Nat : /\ n = Len(stack) /\ DOMAIN stack = 1 .. n /\ n >= 1 /\ Top = stack[n]
                         /\ stack \in Seq(Frames)
    BY JumpBefore, StackFrames DEF Top
  <1>5. \A i \in DOMAIN stack : i \notin left <=> \E j \in 1 .. n : stack[j].kind \in {"fun", "source"} /\ i <= j
    BY <1>4 DEF Callees
  <1> HIDE DEF left
  <1>6. Top.kind # "trap"
    <2>1. ASSUME Top.kind = "trap" PROVE FALSE
      <3>1. n \in TrapsRunning /\ n \in DOMAIN stack
        BY <1>4, <2>1 DEF TrapsRunning
      <3>2. PICK j \in 1 .. n : stack[j].kind \in {"fun", "source"} /\ n <= j
        BY <1>2, <1>5, <3>1
      <3>3. j = n
        BY <3>2
      <3> QED BY <1>4, <2>1, <3>2, <3>3
    <2> QED BY <2>1
  <1>7. NoTraps(stack) /\ ~contflag
    BY <1>1, <1>6, JumpBefore DEF Executing
  <1>8. Leaves(stack)
    <2>1. ASSUME NEW i \in 1 .. n PROVE stack[i].part # "exit"
      <3>1. CASE i = n
        BY <1>1, <1>4, <3>1, Before DEF Place
      <3>2. CASE i # n
        <4>1. i \in 1 .. n - 1 /\ i + 1 \in 1 .. n
          BY <3>2
        <4>2. Over(stack[i], stack[i + 1]) /\ stack[i + 1].kind # "trap"
          BY <1>4, <1>7, <4>1, JumpBefore DEF Sound, Built, NoTraps
        <4> QED BY <4>2 DEF Over
      <3> QED BY <3>1, <3>2
    <2>2. ASSUME NEW i \in 1 .. n, \A j \in i .. n : stack[j].kind \notin {"fun", "source"}
          PROVE  stack[i].part # "cond"
      <3>1. \A j \in 1 .. n : i <= j => j \in i .. n
        OBVIOUS
      <3>2. i \in left
        BY <1>4, <1>5, <2>2, <3>1
      <3> QED BY <1>2, <3>2
    <2> QED BY <1>4, <2>1, <2>2 DEF Leaves
  <1>9. cmd'.op = "return" /\ cmd'.n = v
    BY <1>3
  <1>10. Returned(stack, v, cmd')
    BY <1>9 DEF Returned
  <1>11. loops = Cardinality(LoopsOf(stack)) /\ Last(stack).kind # "trap"
    BY <1>6, JumpBefore
  <1>12. Returning(stack, loops, "chain", v, cmd')
    BY <1>8, <1>10, <1>11 DEF Returning
  <1>13. trapreturn' = 0
    BY <1>3, JumpBefore
  <1>14. Trapped(stack', contflag') /\ ~contflag' /\ ~errflag'
         /\ Returning(stack', breaks', pc', lastval', cmd')
    BY <1>1, <1>3, <1>7, <1>12, TrappedPlain
  <1> QED BY <1>13, <1>14, Zenon DEF JumpInv

----------------------------------------------------------------------------
(* Constructs.                                                             *)

\* No jump is pending where a construct is entered.
LEMMA EnteringCarries ==
  ASSUME Plain, IInv, JumpInv, NEW k, MayEnter(k), NEW g \in Frames, g.kind # "trap",
         stack' = Append(stack, g), UNCHANGED <<contflag, retflag>>, trapreturn' = 0
  PROVE  JumpInv'
  <1>1. Executing /\ Compounds
    BY DEF MayEnter
  <1> QED BY <1>1, NothingPending, QuietMoves

\* for, select, while, until.
LEMMA StartLoopCarries == ASSUME Plain, IInv, JumpInv, NEW k \in LoopKinds, StartLoop(k) PROVE JumpInv'
  <1>1. /\ MayEnter(k) /\ stack' = Append(stack, Frame(k, noerrexit))
        /\ UNCHANGED <<contflag, retflag, trapreturn>>
    BY DEF StartLoop, Enter, control, traps
  <1>2. k \in PlainKinds /\ k # "trap" /\ noerrexit \in BOOLEAN
    BY Before DEF LoopKinds, PlainKinds, Scalars
  <1>3. Frame(k, noerrexit) \in Frames /\ Frame(k, noerrexit).kind = k
    BY <1>2, NewFrame
  <1>4. trapreturn' = 0
    BY <1>1, JumpBefore
  <1> QED BY <1>1, <1>2, <1>3, <1>4, EnteringCarries

\* case, eval and . likewise.
LEMMA StartListCarries ==
  ASSUME Plain, IInv, JumpInv, StartCase \/ bin_eval \/ bin_dot PROVE JumpInv'
  <1>1. PICK k \in {"case", "eval", "source"} :
          /\ MayEnter(k) /\ stack' = Append(stack, Frame(k, noerrexit))
          /\ UNCHANGED <<contflag, retflag, trapreturn>>
    BY DEF StartCase, bin_eval, bin_dot, Enter, control, traps
  <1>2. k \in PlainKinds /\ k # "trap" /\ noerrexit \in BOOLEAN
    BY Before DEF PlainKinds, Scalars
  <1>3. Frame(k, noerrexit) \in Frames /\ Frame(k, noerrexit).kind = k
    BY <1>2, NewFrame
  <1>4. trapreturn' = 0
    BY <1>1, JumpBefore
  <1> QED BY <1>1, <1>2, <1>3, <1>4, EnteringCarries

\* if.
LEMMA StartIfCarries == ASSUME Plain, IInv, JumpInv, StartIf PROVE JumpInv'
  <1> DEFINE g == [Frame("if", TRUE) EXCEPT !.part = "cond", !.save = noerrexit]
  <1>1. /\ MayEnter("if") /\ stack' = Append(stack, g) /\ UNCHANGED <<contflag, retflag, trapreturn>>
    BY Zenon DEF StartIf, Enter, control, traps
  <1>2. g \in Frames /\ g.kind = "if"
    BY Before, NewIf DEF Scalars
  <1> HIDE DEF g
  <1>3. trapreturn' = 0
    BY <1>1, JumpBefore
  <1> QED BY <1>1, <1>2, <1>3, EnteringCarries

\* A function.
LEMMA DoshfuncCarries == ASSUME Plain, IInv, JumpInv, doshfunc PROVE JumpInv'
  <1> DEFINE g == FunFrame(FALSE, noerrexit)
  <1>1. /\ MayEnter("fun") /\ stack' = Append(stack, g) /\ UNCHANGED <<contflag, retflag>>
        /\ trapreturn' = IF trapreturn < 0 THEN trapreturn - 1 ELSE trapreturn
    BY Zenon DEF doshfunc, Enter, control
  <1>2. g \in Frames /\ g.kind = "fun"
    BY Before, NewFun DEF Scalars
  <1> HIDE DEF g
  <1>3. trapreturn' = 0
    BY <1>1, JumpBefore
  <1> QED BY <1>1, <1>2, <1>3, EnteringCarries

\* Between the turns of a loop no jump is pending.
LEMMA TurnCarries == ASSUME IInv, JumpInv, TurnFor \/ NoTurnFor \/ TurnWhile PROVE JumpInv'
  <1>1. pc = "turn" /\ UNCHANGED <<contflag, retflag, trapreturn>>
    BY Zenon DEF TurnFor, NoTurnFor, TurnWhile, control, traps
  <1>2. ~contflag /\ ~retflag
    BY <1>1 DEF JumpInv, Returning
  <1>3. trapreturn' = 0
    BY <1>1, JumpBefore
  <1>4. CASE TurnFor
    <2>1. stack' = stack
      BY <1>4 DEF TurnFor
    <2> QED BY <1>1, <1>2, <1>3, <2>1, QuietMoves
  <1>5. CASE NoTurnFor
    <2>1. stack' = Under /\ Top.kind \in {"for", "select"}
      BY <1>5 DEF NoTurnFor, Pop
    <2> QED BY <1>1, <1>2, <1>3, <2>1, QuietMoves
  <1>6. CASE TurnWhile
    <2> DEFINE f == [Top EXCEPT !.part = "cond", !.ne = TRUE]
    <2>1. SetTop(f) /\ Top.kind \in {"while", "until"}
      BY <1>6 DEF TurnWhile
    <2>2. Top \in PlainFrames
      BY <2>1, Before, FrameFields DEF PlainKinds
    <2>3. f \in Frames /\ Same(f, Top)
      BY <2>2, PartChanges
    <2> HIDE DEF f
    <2> QED BY <1>1, <1>2, <1>3, <2>1, <2>3, QuietMoves
  <1> QED BY <1>4, <1>5, <1>6

\* No return comes out of a condition that is on top.
LEMMA NoReturnTested ==
  ASSUME IInv, JumpInv, Top.part = "cond", Top.kind \notin {"fun", "source"} PROVE ~retflag
  <1>1. PICK n \in Nat : n = Len(stack) /\ n >= 1 /\ Top = stack[n] /\ stack \in Seq(Frames)
    BY JumpBefore, StackFrames DEF Top
  <1>2. \A j \in n .. n : j = n
    OBVIOUS
  <1>3. ASSUME Leaves(stack) PROVE FALSE
    BY <1>1, <1>2, <1>3 DEF Leaves
  <1> QED BY <1>3 DEF JumpInv, Returning

\* A loop's condition is done; the loop that goes on is not this one.
LEMMA WhileTestedCarries == ASSUME IInv, JumpInv, WhileTested PROVE JumpInv'
  <1>1. /\ pc = "left" /\ Top.kind \in {"while", "until"} /\ Top.part = "cond"
        /\ UNCHANGED <<contflag, retflag, trapreturn, errflag>>
    BY DEF WhileTested, traps
  <1>2. ~retflag /\ Top.kind \in LoopKinds
    BY <1>1, NoReturnTested DEF LoopKinds
  <1>3. CASE (lastval = 0) = (Top.kind = "until")
    <2>1. stack' = Under /\ pc' = "chain" /\ breaks' = IF breaks # 0 THEN breaks - 1 ELSE breaks
      BY <1>3, Zenon DEF WhileTested, Pop
    <2>2. contflag => breaks # 1
      BY <1>1, <1>2, JumpBefore, GoesOnPop
    <2> QED BY <1>1, <1>2, <2>1, <2>2, JumpReturns
  <1>4. CASE ~((lastval = 0) = (Top.kind = "until"))
    <2> DEFINE f == [Top EXCEPT !.part = "body", !.ne = Top.save]
    <2>1. SetTop(f) /\ pc' = "next" /\ UNCHANGED <<lastval, breaks>>
      BY <1>4, Zenon DEF WhileTested
    <2>2. Top \in PlainFrames /\ Top.save \in BOOLEAN
      BY <1>1, Before, FrameFields DEF PlainKinds, PlainFrames
    <2>3. f \in Frames /\ Same(f, Top) /\ f.part = "body"
      BY <2>2, PartChanges
    <2> HIDE DEF f
    <2> QED BY <1>1, <1>2, <2>1, <2>3, JumpSets
  <1> QED BY <1>3, <1>4

\* A loop's body is done; contflag is reset by the loop that goes on.
LEMMA LoopBodyDoneCarries == ASSUME IInv, JumpInv, LoopBodyDone PROVE JumpInv'
  <1>1. /\ pc = "left" /\ Top.kind \in LoopKinds /\ Top.part = "body"
        /\ breaks' = IF breaks # 0 THEN breaks - 1 ELSE breaks
        /\ UNCHANGED <<retflag, trapreturn, errflag, cmd>>
    BY Zenon DEF LoopBodyDone, traps
  <1>2. Top.kind \notin {"top", "trap", "source", "fun"}
    BY <1>1 DEF LoopKinds
  <1>3. CASE LeavesLoop
    <2>1. stack' = Under /\ pc' = "chain" /\ UNCHANGED <<lastval, contflag>>
      BY <1>3, Zenon DEF LoopBodyDone, Pop
    <2>2. contflag => breaks # 1
      BY <1>3 DEF LeavesLoop
    <2> QED BY <1>1, <1>2, <2>1, <2>2, JumpReturns
  <1>4. CASE ~LeavesLoop
    <2>1. contflag' = (IF breaks # 0 THEN FALSE ELSE contflag)
      BY <1>4, Zenon DEF LoopBodyDone
    <2>2. NoTraps(stack) /\ Len(stack) >= 2 /\ Top = Last(stack) /\ stack \in Seq(Frames)
      BY <1>2, JumpBefore
    <2>3. contflag' = FALSE
      <3>1. contflag => breaks # 0
        BY <1>2, JumpBefore
      <3>2. CASE contflag
        BY <2>1, <3>1, <3>2
      <3>3. CASE ~contflag
        <4>1. contflag = FALSE
          BY <3>3, JumpBefore
        <4> QED BY <2>1, <4>1
      <3> QED BY <3>2, <3>3
    <2>4. ~retflag
      <3>1. ASSUME retflag PROVE FALSE
        <4>1. Returning(stack, breaks, pc, lastval, cmd) /\ ~contflag
          BY <3>1 DEF JumpInv
        <4>2. breaks >= 1
          BY <1>1, <1>2, <2>2, <4>1, JumpBefore, ReturningPop
        <4> QED BY <1>4, <4>1, <4>2, JumpBefore DEF LeavesLoop
      <3> QED BY <3>1
    <2>5. Trapped(stack', FALSE)
      <3>1. CASE errflag
        <4>1. stack' = Front(stack)
          BY <1>4, <3>1, Zenon DEF LoopBodyDone, Pop, Under
        <4>2. Trapped(stack, FALSE)
          BY <2>2, TrappedPlain
        <4> QED BY <2>2, <4>1, <4>2, TrappedPop
      <3>2. CASE ~errflag
        <4> DEFINE f == IF Top.kind \in {"while", "until"} THEN [Top EXCEPT !.val = lastval] ELSE Top
        <4>1. stack' = Append(Front(stack), f)
          BY <1>4, <3>2, Zenon DEF LoopBodyDone, SetTop, Under
        <4>2. Top \in PlainFrames /\ lastval \in Int /\ Top \in Frames
          BY <1>1, Before, FrameFields DEF LoopKinds, PlainKinds, Scalars
        <4>3. f \in Frames /\ Same(f, Top)
          <5>1. CASE Top.kind \in {"while", "until"}
            BY <4>2, <5>1, ValChanges
          <5>2. CASE Top.kind \notin {"while", "until"}
            BY <4>2, <5>2 DEF Same
          <5> QED BY <5>1, <5>2
        <4> HIDE DEF f
        <4>4. Trapped(stack, FALSE)
          BY <2>2, TrappedPlain
        <4> QED BY <2>2, <4>1, <4>3, <4>4, JumpBefore, TrappedSet
      <3> QED BY <3>1, <3>2
    <2>6. ~retflag' /\ trapreturn' = 0
      BY <1>1, <2>4, JumpBefore
    <2> QED BY <2>3, <2>5, <2>6, Quiet
  <1> QED BY <1>3, <1>4

\* A condition of if is done.
LEMMA IfTestedCarries == ASSUME IInv, JumpInv, IfBranch \/ Elif \/ NoBranch PROVE JumpInv'
  <1>1. /\ pc = "left" /\ Top.kind = "if" /\ Top.part = "cond"
        /\ UNCHANGED <<breaks, contflag, retflag, trapreturn, errflag>>
    BY Zenon DEF IfBranch, Elif, NoBranch, IfTested, control, traps
  <1>2. ~retflag /\ Top.kind \notin LoopKinds
    BY <1>1, NoReturnTested DEF LoopKinds
  <1>3. CASE IfBranch
    <2> DEFINE f == [Top EXCEPT !.part = "body", !.ne = Top.save]
    <2>1. SetTop(f) /\ pc' = "next" /\ UNCHANGED lastval
      BY <1>3, Zenon DEF IfBranch
    <2>2. Top \in PlainFrames /\ Top.save \in BOOLEAN
      BY <1>1, Before, FrameFields DEF PlainKinds, PlainFrames
    <2>3. f \in Frames /\ Same(f, Top) /\ f.part = "body"
      BY <2>2, PartChanges
    <2> HIDE DEF f
    <2> QED BY <1>1, <1>2, <2>1, <2>3, JumpSets
  <1>4. CASE Elif
    <2>1. pc' = "next" /\ stack' = stack
      BY <1>4 DEF Elif
    <2> QED BY <1>1, <1>2, <2>1, JumpStays
  <1>5. CASE NoBranch
    <2>1. stack' = Under /\ pc' = "chain"
      BY <1>5 DEF NoBranch, Pop
    <2> QED BY <1>1, <1>2, <2>1, JumpReturns
  <1> QED BY <1>3, <1>4, <1>5

\* The end of if, case and eval: a jump passes.
LEMMA BlockDoneCarries == ASSUME IInv, JumpInv, BlockDone \/ EvalDone PROVE JumpInv'
  <1>1. /\ pc = "left" /\ pc' = "chain" /\ Top.kind \in {"if", "case", "eval"} /\ stack' = Under
        /\ UNCHANGED <<breaks, contflag, retflag, trapreturn, cmd>>
    BY Zenon DEF BlockDone, EvalDone, Pop, control, traps
  <1>2. ~errflag => lastval' = lastval
    BY DEF BlockDone, EvalDone
  <1>3. ~errflag => ~errflag'
    BY Zenon DEF BlockDone, EvalDone
  <1>4. contflag \/ retflag => ~errflag
    BY DEF JumpInv
  <1>5. Top.kind \notin LoopKinds
    BY <1>1 DEF LoopKinds
  <1>6. contflag \/ retflag => errflag' = errflag
    <2>1. errflag \in BOOLEAN
      BY JumpBefore
    <2>2. errflag' \in BOOLEAN
      <3>1. CASE BlockDone
        BY <2>1, <3>1 DEF BlockDone
      <3>2. CASE EvalDone
        <4>1. errflag' = FALSE
          BY <3>2, Zenon DEF EvalDone
        <4> QED BY <4>1
      <3> QED BY <3>1, <3>2
    <2> QED BY <1>3, <1>4, <2>1, <2>2
  <1> QED BY <1>1, <1>2, <1>4, <1>5, <1>6, JumpReturns

----------------------------------------------------------------------------
(* Functions, traps, and what is read.                                     *)

\* The body of a function is done, and so is the return.
LEMMA FunctionDoneCarries == ASSUME IInv, JumpInv, FunctionDone PROVE JumpInv'
  <1> DEFINE f == [Top EXCEPT !.part = "exit", !.newexit = exittrap]
  <1>1. /\ pc = "left" /\ Top.kind = "fun" /\ retflag' = FALSE /\ SetTop(f)
        /\ breaks' = IF retflag THEN Top.ob ELSE breaks
        /\ UNCHANGED <<pc, contflag, errflag, trapreturn>>
    BY Zenon DEF FunctionDone
  <1>2. Top \in FunFrames /\ exittrap \in BOOLEAN
    BY <1>1, Before, FrameFields DEF Scalars
  <1>3. f \in Frames /\ Same(f, Top)
    BY <1>2, ExitChanges
  <1> HIDE DEF f
  <1>4. stack' = Append(Front(stack), f) /\ Same(f, Last(stack))
    BY <1>1, <1>3, JumpBefore DEF SetTop, Under
  <1>5. Trapped(stack', contflag)
    BY <1>3, <1>4, JumpBefore, TrappedSet DEF JumpInv
  <1>6. ASSUME contflag PROVE Continuing(stack', breaks') /\ ~errflag
    <2>1. Continuing(stack, breaks) /\ ~retflag /\ ~errflag
      BY <1>6 DEF JumpInv
    <2>2. breaks' = breaks
      BY <1>1, <2>1
    <2>3. Last(stack).kind \notin LoopKinds
      BY <1>1, JumpBefore DEF LoopKinds
    <2> QED BY <1>3, <1>4, <2>1, <2>2, <2>3, JumpBefore, ContinuingSet
  <1>7. ~retflag' /\ trapreturn' = 0 /\ pc' # "turn"
    <2>1. pc' # "turn"
      BY <1>1
    <2>2. ~retflag'
      BY <1>1, Zenon
    <2>3. trapreturn' = 0
      BY <1>1, JumpBefore
    <2> QED BY <2>1, <2>2, <2>3
  <1>8. contflag' = contflag /\ errflag' = errflag
    BY <1>1
  <1> QED BY <1>5, <1>6, <1>7, <1>8 DEF JumpInv

\* Where a function has returned no return is pending.
LEMMA NoReturnOver == ASSUME IInv, JumpInv, Top.part = "exit" PROVE ~retflag
  <1>1. PICK n \in Nat : n = Len(stack) /\ n >= 1 /\ Top = stack[n] /\ n \in 1 .. n
    BY JumpBefore, StackFrames DEF Top
  <1> QED BY <1>1 DEF JumpInv, Returning, Leaves

\* The EXIT trap of the function delays a continue of its caller's loop.
LEMMA FunctionExitTrapCarries == ASSUME IInv, JumpInv, FunctionExitTrap PROVE JumpInv'
  <1> DEFINE f == [Top EXCEPT !.newexit = FALSE]
             g == TrapFrame("none", "left", noerrexit)
  <1>1. /\ pc = "left" /\ Top.kind = "fun" /\ Top.newexit
        /\ UNCHANGED <<contflag, retflag, errflag, trapreturn, lastval>>
    BY Zenon DEF FunctionExitTrap, traps
  <1>2. Top \in FunFrames /\ Top.part = "exit"
    BY <1>1, Before, FrameFields DEF Whole
  <1>3. f \in Frames /\ Same(f, Top)
    BY <1>2, ExitChanges
  <1>4. ~retflag
    BY <1>2, NoReturnOver
  <1>5. /\ g.kind = "trap" /\ g.part = "body" /\ g.ob = breaks /\ g.tr = trapreturn /\ g.oc = contflag
    BY DEF TrapFrame
  <1>6. g \in Frames
    BY Before, NewTrap DEF Scalars, Signals, Backs
  <1>7. Same(f, Last(stack)) /\ Last(stack).kind \notin LoopKinds /\ Under = Front(stack)
    BY <1>1, <1>3, JumpBefore DEF LoopKinds, Under
  <1> DEFINE s == Append(Front(stack), f)
  <1>8. s \in Seq(Frames) /\ s # << >>
    BY <1>3, JumpBefore, Setting
  <1>9. CASE errflag
    <2>1. SetTop(f) /\ pc' = pc /\ breaks' = breaks
      BY <1>9, Zenon DEF FunctionExitTrap
    <2>2. ~contflag
      BY <1>9 DEF JumpInv
    <2>3. trapreturn' = 0
      BY <1>1, JumpBefore
    <2> HIDE DEF f, g
    <2> QED BY <1>1, <1>3, <1>4, <2>1, <2>2, <2>3, QuietMoves
  <1>10. CASE ~errflag
    <2>1. stack' = Under \o <<f, g>> /\ breaks' = 0 /\ pc' = "next"
      BY <1>10, Zenon DEF FunctionExitTrap
    <2>2. Under \in Seq(Frames)
      <3>1. Len(stack) >= 2
        BY <1>1, JumpBefore
      <3> QED BY <1>7, <3>1, JumpBefore, Popping
    <2> HIDE DEF f, g
    <2>3. stack' = Append(s, g)
      BY <1>3, <1>6, <1>7, <2>1, <2>2, Twice
    <2>4. Trapped(s, contflag)
      BY <1>3, <1>7, JumpBefore, TrappedSet DEF JumpInv
    <2>5. ASSUME contflag PROVE Continuing(s, breaks)
      BY <1>3, <1>7, <2>5, JumpBefore, ContinuingSet DEF JumpInv
    <2> HIDE DEF s
    <2>6. Trapped(stack', contflag)
      BY <1>5, <1>6, <1>8, <2>3, <2>4, JumpBefore, TrappedTrap
    <2>7. ASSUME contflag PROVE Continuing(stack', breaks')
      BY <1>5, <1>6, <1>8, <2>1, <2>3, <2>5, <2>7, ContinuingPush
    <2>8. trapreturn' = 0 /\ ~retflag' /\ contflag' = contflag /\ errflag' = errflag /\ pc' # "turn"
      BY <1>1, <1>4, <2>1, JumpBefore
    <2> QED BY <1>10, <2>6, <2>7, <2>8 DEF JumpInv
  <1> QED BY <1>9, <1>10

\* A function returns.
LEMMA FunctionReturnsCarries == ASSUME IInv, JumpInv, FunctionReturns PROVE JumpInv'
  <1>1. /\ pc = "left" /\ Top.kind = "fun" /\ Top.part = "exit" /\ stack' = Under
        /\ UNCHANGED <<breaks, contflag, retflag, errflag>>
        /\ pc' = (IF Top.noreturnval THEN "left" ELSE "chain")
        /\ trapreturn' = IF trapreturn < -1 THEN trapreturn + 1 ELSE trapreturn
    BY Zenon DEF FunctionReturns, Pop, control
  <1>2. ~retflag /\ Top.kind \notin LoopKinds /\ pc' # "turn"
    BY <1>1, NoReturnOver DEF LoopKinds
  <1>3. trapreturn' = trapreturn
    BY <1>1, JumpBefore
  <1> QED BY <1>1, <1>2, <1>3, JumpReturns

\* A trap gives back the jump that it delayed.
LEMMA TrapDoneCarries == ASSUME IInv, JumpInv, TrapDone PROVE JumpInv'
  <1>1. /\ pc = "left" /\ Top.kind = "trap" /\ stack' = Under /\ pc' = Top.back
        /\ lastval' = Top.val /\ trapreturn' = Top.tr
        /\ UNCHANGED <<contflag, retflag, cmd>>
    BY Zenon DEF TrapDone, Pop
  <1>2. PICK n \in Nat : /\ n = Len(stack) /\ n >= 2 /\ Top = stack[n] /\ n \in 1 .. n
                         /\ stack' = Front(stack) /\ Top = Last(stack) /\ stack \in Seq(Frames)
    BY <1>1, JumpBefore, StackFrames DEF Under
  <1>3. Trapped(stack, contflag) /\ trapreturn = 0
    BY DEF JumpInv
  <1>4. Trapped(stack', contflag) /\ trapreturn' = 0
    <2>1. Trapped(stack', contflag)
      BY <1>2, <1>3, TrappedPop
    <2>2. stack[n].tr = 0
      BY <1>1, <1>2, <1>3 DEF Trapped
    <2> QED BY <1>1, <1>2, <2>1, <2>2
  <1>5. CASE errflag
    <2>1. ~contflag /\ ~retflag
      BY <1>5 DEF JumpInv
    <2>2. Top.kind # "top"
      BY <1>1
    <2> QED BY <1>1, <1>4, <2>1, <2>2, QuietMoves
  <1>6. CASE ~errflag
    <2>1. ~(trapreturn > 0)
      BY <1>3
    <2>2. breaks' = Least(breaks + Top.ob, loops) /\ errflag' = errflag
      BY <1>6, <2>1, Zenon DEF TrapDone
    <2>3. LoopsOf(stack') = LoopsOf(stack) /\ loops = Cardinality(LoopsOf(stack)) /\ loops \in Nat
      BY <1>1, <1>2, JumpBefore, LoopsPop DEF LoopKinds
    <2>4. Top.back \in Backs
      BY <1>1, Before, FrameFields DEF TrapFrames
    <2>5. pc' # "turn"
      BY <1>1, <2>4 DEF Backs
    <2>6. ASSUME contflag PROVE Continuing(stack', breaks')
      <3>1. breaks = 0 /\ Continuing(stack', Top.ob) /\ Top.ob \in Nat /\ Top.ob <= loops
        BY <1>1, <1>2, <2>3, <2>6, ContinuingPop DEF JumpInv
      <3>2. breaks' = Top.ob
        BY <2>2, <2>3, <3>1 DEF Least
      <3> QED BY <3>1, <3>2
    <2>7. ASSUME retflag PROVE Returning(stack', breaks', pc', lastval', cmd')
      <3>1. /\ Returning(stack', Top.ob, Top.back, Top.val, cmd)
            /\ breaks = 0 /\ Top.ob \in Nat /\ Top.ob = loops
        BY <1>1, <1>2, <2>3, <2>7, JumpBefore, ReturningPopTrap DEF JumpInv
      <3>2. breaks' = Top.ob
        BY <2>2, <2>3, <3>1 DEF Least
      <3> QED BY <1>1, <3>1, <3>2
    <2> QED BY <1>1, <1>4, <1>6, <2>2, <2>5, <2>6, <2>7 DEF JumpInv
  <1> QED BY <1>5, <1>6

\* A script's or a terminal's list has been read: a return that is left is one of the
\* read loop.
LEMMA ReadLineCarries == ASSUME IInv, JumpInv, ReadLine PROVE JumpInv'
  <1> DEFINE f == [Top EXCEPT !.ne = noerrexit]
  <1>1. /\ pc = "line" /\ pc' = "next" /\ SetTop(f) /\ UNCHANGED <<lastval, breaks, contflag, trapreturn>>
        /\ (retflag' => retflag) /\ errflag' = FALSE
    BY Zenon DEF ReadLine, traps
  <1>2. Top.kind \in {"top", "source"} /\ noerrexit \in BOOLEAN
    BY <1>1, Before DEF Place, Scalars
  <1>3. Top \in PlainFrames
    BY <1>2, Before, FrameFields DEF PlainKinds
  <1>4. f \in Frames /\ Same(f, Top) /\ f.part = Top.part
    BY <1>2, <1>3, NeChanges
  <1> HIDE DEF f
  <1>5. ~contflag /\ trapreturn' = 0 /\ stack' = Append(Front(stack), f) /\ Same(f, Last(stack))
        /\ Top = Last(stack) /\ contflag' = contflag
    BY <1>1, <1>2, <1>4, JumpBefore DEF SetTop, Under
  <1>6. Trapped(stack', contflag)
    BY <1>4, <1>5, JumpBefore, TrappedSet DEF JumpInv
  <1>7. ASSUME retflag' PROVE ~errflag' /\ Returning(stack', breaks', pc', lastval', cmd')
    <2>1. retflag
      BY <1>1, <1>7
    <2>2. Returning(stack, breaks, pc, lastval, cmd) /\ Top.kind = "top"
      BY <1>1, <1>5, <2>1 DEF JumpInv, Returning
    <2>3. Len(stack) = 1
      BY <1>5, <2>2, JumpBefore, NoLoopsOnTop
    <2>4. Len(stack') = 1 /\ stack'[1] = f
      BY <1>4, <1>5, <2>3, JumpBefore, Setting
    <2>5. f.kind = "top"
      BY <1>4, <2>2 DEF Same
    <2>6. Returned(stack', lastval', cmd')
      BY <2>4, <2>5 DEF Returned
    <2>7. Returning(stack', breaks, "next", lastval, cmd)
      BY <1>1, <1>4, <1>5, <2>2, JumpBefore, ReturningSet
    <2>8. Last(stack') = f
      BY <1>4, <1>5, JumpBefore, Setting
    <2>9. Returning(stack', breaks, "next", lastval', cmd')
      BY <2>5, <2>6, <2>7, <2>8 DEF Returning
    <2>10. ~errflag'
      BY <1>1, Zenon
    <2> QED BY <1>1, <2>9, <2>10
  <1> QED BY <1>5, <1>6, <1>7 DEF JumpInv

\* A list that was read is done.
LEMMA LineDoneCarries == ASSUME IInv, JumpInv, LineDone PROVE JumpInv'
  <1>1. /\ pc = "left" /\ Top.kind \in {"top", "source"} /\ UNCHANGED <<stack, breaks, contflag, retflag, errflag, cmd>>
    BY DEF LineDone, control
  <1>2. ~contflag /\ trapreturn = 0 /\ lastval \in Int
    BY <1>1, JumpBefore
  <1>3. trapreturn' = trapreturn /\ lastval' = lastval
    BY <1>2 DEF LineDone
  <1>4. ASSUME retflag PROVE Returning(stack, breaks, pc', lastval', cmd')
    <2>1. Returning(stack, breaks, pc, lastval, cmd)
      BY <1>4 DEF JumpInv
    <2>2. pc' = (IF Top.kind = "top" THEN "line" ELSE "eof")
      BY <1>4 DEF LineDone
    <2>3. Top = Last(stack) /\ Top.kind # "trap"
      BY <1>1, JumpBefore
    <2> QED BY <1>1, <1>3, <2>1, <2>2, <2>3 DEF Returning
  <1> QED BY <1>1, <1>2, <1>3, <1>4, JumpStays

\* The end of a script, or of what is typed.
LEMMA EndOfFileCarries == ASSUME IInv, JumpInv, EndOfFile PROVE JumpInv'
  <1>1. pc = "line" /\ UNCHANGED <<lastval, contflag, retflag, errflag>>
    BY DEF EndOfFile
  <1>2. CASE Top.kind = "source"
    <2>1. pc' = "eof" /\ UNCHANGED <<stack, breaks, trapreturn, cmd>>
      BY <1>2 DEF EndOfFile, traps
    <2> QED BY <1>1, <2>1, PassingCarries
  <1>3. CASE Top.kind # "source"
    <2>1. LeaveShell
      BY <1>3, Zenon DEF EndOfFile
    <2> QED BY <1>1, <2>1, JumpLeaves
  <1> QED BY <1>2, <1>3

\* A script returns.
LEMMA SourceDoneCarries == ASSUME IInv, JumpInv, SourceDone PROVE JumpInv'
  <1>1. /\ pc = "eof" /\ stack' = Under /\ retflag' = FALSE /\ UNCHANGED <<contflag, trapreturn>>
    BY Zenon DEF SourceDone, Pop, traps
  <1>2. Top.kind = "source"
    BY <1>1, Before DEF Place
  <1>3. contflag = FALSE /\ trapreturn' = 0 /\ Len(stack) >= 2
    BY <1>1, <1>2, JumpBefore
  <1>4. Trapped(stack', contflag)
    BY <1>1, <1>3, JumpBefore, TrappedPop DEF JumpInv, Under
  <1>5. ~retflag' /\ contflag' = contflag
    BY <1>1, Zenon
  <1> QED BY <1>3, <1>4, <1>5, Quiet

----------------------------------------------------------------------------
(* The invariant.                                                          *)

\* The shell reads its first list, and nothing is pending.
LEMMA InitIsQuiet == ASSUME Init PROVE JumpInv
  <1>1. /\ stack = <<Frame("top", FALSE)>> /\ contflag = FALSE /\ retflag = FALSE /\ trapreturn = 0
    BY Zenon DEF Init
  <1> DEFINE f == Frame("top", FALSE)
  <1>2. f.kind = "top"
    BY DEF Frame
  <1>3. stack = <<f>>
    BY <1>1
  <1> HIDE DEF f
  <1>4. Len(stack) = 1 /\ stack[1] = f
    BY <1>3
  <1>5. NoTraps(stack)
    BY <1>2, <1>4 DEF NoTraps
  <1>6. Trapped(stack, contflag)
    BY <1>5, TrappedPlain
  <1>7. ~contflag /\ ~retflag /\ trapreturn = 0
    BY <1>1, Zenon
  <1> QED BY <1>6, <1>7 DEF JumpInv

\* Every step carries a jump on.
LEMMA StepsCarry == ASSUME Plain, IInv, JumpInv, Next PROVE JumpInv'
  <1>1. Progress \/ Interrupted
    BY DEF Next
  <1>2. CASE Execlist
    <2>1. ASSUME NEW type \in {"END", "ANDNEXT", "ORNEXT"}, ChainTo(type) PROVE JumpInv'
      <3>1. type \in Ops
        BY DEF Ops
      <3> QED BY <2>1, <3>1, ChainToCarries
    <2> QED BY <1>2, <2>1, NextSublistCarries, ListEndsCarries, SkippedCarries, ChainEndsCarries,
               SublistDoneCarries, CheckStatusCarries, TrapToldCarries DEF Execlist
  <1>3. CASE Commands
    BY <1>3, SimpleCarries, FailsCarries, BinExitCarries, BinTrapCarries, BinBreakCarries,
       BinContinueCarries, BinReturnCarries DEF Commands
  <1>4. CASE Compound
    BY <1>4, StartLoopCarries, TurnCarries, WhileTestedCarries, LoopBodyDoneCarries, StartIfCarries,
       IfTestedCarries, StartListCarries, BlockDoneCarries DEF Compound
  <1>5. CASE CallsAndReads
    BY <1>5, DoshfuncCarries, FunctionDoneCarries, FunctionExitTrapCarries, FunctionReturnsCarries,
       TrapDoneCarries, StartListCarries, ReadLineCarries, LineDoneCarries, EndOfFileCarries,
       SourceDoneCarries DEF CallsAndReads
  <1> QED BY <1>1, <1>2, <1>3, <1>4, <1>5, InterruptedCarries DEF Progress

\* In such a shell every jump is carried on as it was meant, at every step.
THEOREM JumpsAreCarried == Plain => (Spec => []JumpInv)
  <1> SUFFICES ASSUME Plain PROVE Spec => []JumpInv
    OBVIOUS
  <1>1. Init => JumpInv
    BY InitIsQuiet
  <1>2. IInv /\ JumpInv /\ [Next]_<<vars, setup>> => JumpInv'
    <2>1. ASSUME IInv, JumpInv, UNCHANGED <<vars, setup>> PROVE JumpInv'
      BY <2>1 DEF vars, control, traps, error, JumpInv
    <2> QED BY <2>1, StepsCarry
  <1>3. Spec => []IInv
    BY Invariance
  <1> QED BY <1>1, <1>2, <1>3, PTL DEF Spec

\* contflag is never left over: a continue is being counted, or a trap delays one.
THEOREM ContinueBelongs == Plain => (Spec => []ContinueIsPending)
  <1> SUFFICES ASSUME Plain PROVE Spec => []ContinueIsPending
    OBVIOUS
  <1>1. IInv /\ JumpInv => ContinueIsPending
    <2>1. ASSUME IInv, JumpInv, contflag, ~(breaks > 0) PROVE \E i \in TrapsRunning : stack[i].oc
      <3>1. PICK n \in Nat : n = Len(stack) /\ n >= 1 /\ Top = stack[n] /\ DOMAIN stack = 1 .. n
        BY <2>1, JumpBefore, StackFrames DEF Top
      <3>2. Top.kind = "trap"
        BY <2>1, JumpBefore
      <3>3. n \in TrapsRunning
        BY <3>1, <3>2 DEF TrapsRunning
      <3>4. stack[n].oc
        BY <2>1, <3>1, <3>2 DEF JumpInv, Trapped
      <3> QED BY <3>3, <3>4
    <2> QED BY <2>1 DEF ContinueIsPending
  <1>2. Spec => []IInv
    BY Invariance
  <1>3. Spec => []JumpInv
    BY JumpsAreCarried
  <1> QED BY <1>1, <1>2, <1>3, PTL

\* The caller of a function sees the status that return was given, whatever else was
\* executed on the way: lists that were skipped, traps, the ends of other constructs.
THEOREM StatusIsReturned == Plain => (Spec => ReturnStatus)
  <1> SUFFICES ASSUME Plain PROVE Spec => ReturnStatus
    OBVIOUS
  <1> DEFINE Told == pc = "left" /\ Top.kind = "fun" /\ Top.part = "body" /\ retflag /\ ~errflag
                       => cmd.op = "return" /\ lastval = cmd.n
  <1>1. IInv /\ JumpInv => Told
    <2>1. ASSUME IInv, JumpInv, pc = "left", Top.kind = "fun", retflag
          PROVE  cmd.op = "return" /\ lastval = cmd.n
      <3>1. PICK n \in Nat : n = Len(stack) /\ n >= 1 /\ Top = stack[n] /\ n \in 1 .. n /\ Top = Last(stack)
        BY <2>1, JumpBefore, StackFrames
      <3>2. Returned(stack, lastval, cmd)
        BY <2>1, <3>1 DEF JumpInv, Returning
      <3> QED BY <2>1, <3>1, <3>2 DEF Returned
    <2> QED BY <2>1
  <1>2. Spec => []IInv
    BY Invariance
  <1>3. Spec => []JumpInv
    BY JumpsAreCarried
  <1>4. Told => [Told]_vars
    OBVIOUS
  <1> QED BY <1>1, <1>2, <1>3, <1>4, PTL DEF ReturnStatus
=============================================================================
