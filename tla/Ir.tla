--------------------------------- MODULE Ir ---------------------------------
(***************************************************************************)
(* The infrared examples: ir_tx sends a frame, its edges at absolute times *)
(* of one run of the counter; ir_rx captures the rising edges of frames,   *)
(* over any number of wraps; ir_learn captures four edges and plays them   *)
(* back.  The other end is a sender on pad 3 or an observer of pad 8.      *)
(***************************************************************************)
EXTENDS Iop
CONSTANT CapMod  \* 2^16: ir_learn keeps the low half of a capture
F == INSTANCE Functions
IN_PAD == 3
OUT_PAD == 8
High == <<Store("GPIO_OUT_SET", {OUT_PAD})>>
LowOut == <<Store("GPIO_OUT_CLR", {OUT_PAD})>>
SumTo(f, k) == F!FoldFunction(+, 0, [i \in 1..k |-> f[i]])
-----------------------------------------------------------------------------
(* ir_tx.  Bound: a tenth of the header and three bits. *)
TxFrame == <<1, 0, 1>>
HeaderMark == 450
HeaderSpace == 225
BitMark == 280
BitSpace(b) == IF b = 1 THEN 845 ELSE 280
\* Marks and spaces in turn, the trailer last.
TxTimes == LET n == Len(TxFrame)
           IN [i \in 1..(2 * n + 3) |->
                 CASE i = 1 -> HeaderMark [] i = 2 -> HeaderSpace
                   [] i > 2 /\ i % 2 = 1 -> BitMark [] OTHER -> BitSpace(TxFrame[i \div 2 - 1])]
\* Mutant: every time is counted from the edge before.
EdgeAt_Relative(i) == (IF i % 2 = 1 THEN High ELSE LowOut) \o <<Call("delay", TxTimes[i])>>
EdgeAt(i) == (IF i % 2 = 1 THEN High ELSE LowOut) \o <<Call("until", SumTo(TxTimes, i))>>
TxMain == <<Publish(0, 0), Publish(1, 1)>> \o LowOut
          \o <<Store("GPIO_OE_SET", {OUT_PAD}), Started, Cmp(0, CmpOff), Ctl(TRUE, FALSE)>>
          \o [i \in DOMAIN TxTimes |-> Call("edgeAt", i)] \o LowOut \o <<TimerOff, Publish(0, 1)>>
-----------------------------------------------------------------------------
(* ir_rx.  Bound: thresholds and times a fifth of the real ones, frames of    *)
(* four bits.                                                                 *)
NBits == 4
HeaderMin == 400
BitThresh == 168
HeaderDelta == 1350
RxMain == <<Let("frame", 0), Let("bits", 0), Let("last", 0), Let("collecting", FALSE),
            Let("edges", 0), Let("frames", 0), Publish(0, 0), Publish(1, 0), Publish(4, 0),
            Store("GPIO_OE_CLR", {IN_PAD}), EnableIrq, CtlCapture(IN_PAD, "rise"),
            W1C({CAPTURED}), Started>>
\* Mutant: a difference over a wrap of the counter is not taken modulo 2^24.
Delta_NoMask(cap) == IF cap < var.last THEN 2 * CountMod ELSE cap - var.last
Delta(cap) == (cap - var.last) % CountMod
Frame(bit) ==
    LET frame == 2 * var.frame + bit
        n == var.bits + 1
    IN <<Let("frame", frame), Let("bits", n), Publish(1, n)>>
       \o IF n < NBits THEN <<>>
          ELSE <<Publish(4, frame), Let("frames", var.frames + 1), Let("collecting", FALSE),
                 Publish(0, var.frames + 1)>>
RxEdge(cap) ==
    <<Let("edges", var.edges + 1), Let("last", cap)>>
    \o (CASE var.edges = 0 -> <<>>
          [] var.edges > 0 /\ Delta(cap) >= HeaderMin ->
                <<Let("frame", 0), Let("bits", 0), Let("collecting", TRUE)>>
          [] var.edges > 0 /\ Delta(cap) < HeaderMin /\ var.collecting /\ var.bits < NBits ->
                Frame(IF Delta(cap) >= BitThresh THEN 1 ELSE 0)
          [] OTHER -> <<>>)
    \o <<W1C({CAPTURED})>>
-----------------------------------------------------------------------------
(* ir_learn. *)
NEdges == 4
LearnMain == <<Let("cap", <<>>), Let("state", 0), Publish(0, 0), Store("GPIO_OE_CLR", {IN_PAD})>>
             \o LowOut
             \o <<Store("GPIO_OE_SET", {OUT_PAD}), EnableIrq, CtlCapture(IN_PAD, "both"),
                  W1C({CAPTURED}), Started, Call("learn", 0)>>
\* while (!capture_done) wfi();
Learn == IF Len(var.cap) < NEdges THEN <<Call("learn", 0)>>
         ELSE <<Publish(0, 1), Ctl(TRUE, FALSE), W1C({0, CAPTURED}), Let("t", 0)>>
              \o Each("replay", <<1, 2, 3, 4>>) \o <<TimerOff, Publish(0, 2)>>
Keep(cap) == <<Let("cap", Append(var.cap, cap % CapMod))>>
\* Mutant: the last edge is not kept.
LearnEdge_OneLess(cap) ==
    (IF Len(var.cap) < NEdges - 1 THEN Keep(cap) ELSE <<>>) \o <<W1C({CAPTURED})>>
LearnEdge(cap) ==
    (IF Len(var.cap) < NEdges THEN Keep(cap) ELSE <<>>) \o <<W1C({CAPTURED})>>
\* A difference of two uint16_t is an int; below zero it sets every bit of CMP0
\* above the value.
Target(t) == IF t > 0 THEN CmpOn(t - 1)
             ELSE [val |-> (t - 1) % CountMod, pad |-> 15, en |-> TRUE, irq |-> TRUE, toggle |-> TRUE]
WaitTarget(t) == <<Cmp(0, Target(t)), W1C({0})>> \o WaitMatch(0)
Replay(i) ==
    LET t == var.t + IF i > 1 THEN var.cap[i] - var.cap[i - 1] ELSE 0
    IN <<Let("t", t)>> \o (IF i > 1 THEN WaitTarget(t) ELSE <<>>)
       \o <<Let("state", 1 - var.state)>> \o (IF var.state = 1 THEN LowOut ELSE High)
-----------------------------------------------------------------------------
Main == CASE image = "ir_tx" -> TxMain [] image = "ir_rx" -> RxMain
          [] image = "ir_learn" -> LearnMain
Paces == {4}
Captured(cap) == IF image = "ir_rx" THEN RxEdge(cap) ELSE LearnEdge(cap)
Body(f, x) ==
    CASE f = "edgeAt" -> EdgeAt(x) [] f = "learn" -> Learn [] f = "replay" -> Replay(x)
      [] f = "__isr" -> <<Load("TIMER_STATUS"), Call("isCaptured", 0)>>
      [] f = "isCaptured" ->
            IF CAPTURED \in acc THEN <<Load("TIMER_CAP"), Call("captured", 0)>> ELSE <<>>
      [] f = "captured" -> Captured(acc)
-----------------------------------------------------------------------------
(* The sender toggles pad 3 after each of these times, the first one since    *)
(* the image has started; ir_rx looks at every other edge.                    *)
RxFrames == <<<<1, 0, 1, 1>>, <<0, 1, 1, 0>>>>
Marks(f) == <<20, HeaderDelta - 20>>
            \o [i \in 1..(2 * NBits) |-> IF i % 2 = 1 THEN 20
                                         ELSE IF f[i \div 2] = 1 THEN 205 ELSE 92]
            \o <<20>>
Signal == IF image = "ir_rx" THEN <<2200>> \o Marks(RxFrames[1]) \o <<500>> \o Marks(RxFrames[2])
          ELSE <<200, 310, 250, 420>>
Fresh == {Quiet @@ [edges |-> 0, w |-> 0]}
Sends == 2 \in DOMAIN mail /\ image # "ir_tx" /\ dev.edges < Len(Signal)
Send(d) == CASE Sends /\ d.w + 1 < Signal[d.edges + 1] -> [d EXCEPT !.w = @ + 1]
             [] Sends /\ d.w + 1 >= Signal[d.edges + 1] -> [d EXCEPT !.w = 0, !.edges = @ + 1]
             [] OTHER -> d
Device == Send(IF image = "ir_rx" THEN dev ELSE Watch(OUT_PAD))
Up == IF dev.edges % 2 = 1 THEN {IN_PAD} ELSE {}
Over == image = "ir_rx" => dev.edges = Len(Signal)

\* What is played: the edges of the frame, or those that were captured.
Schedule == IF image = "ir_tx" THEN TxTimes ELSE Tail(Signal)
\* Edge k + 1 is due when the counter reaches the sum of the first k times.
EdgesKept ==
    (image # "ir_rx" /\ dev.n \in DOMAIN Schedule /\ ctl.en) =>
        /\ cnt <= SumTo(Schedule, dev.n) + 8 * (pace + 1)
        /\ Edge(OUT_PAD) => cnt >= SumTo(Schedule, dev.n)
FrameOf(f) == SumTo([i \in 1..NBits |-> f[i] * 2^(NBits - i)], NBits)
\* The frame is there when its number is stored.
Served == Stores("MAIL") /\ core.op.i = 0 /\ image = "ir_rx" /\ core.op.v > 0
             => mail[4] = FrameOf(RxFrames[core.op.v])
Counted == image = "ir_rx" => mail[0] = Len(RxFrames)
=============================================================================
