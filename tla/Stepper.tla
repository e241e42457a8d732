------------------------------- MODULE Stepper ------------------------------
(***************************************************************************)
(* sw/stepper/main.c: a step of a motor at every match of CMP0, the time   *)
(* to the next one set by the handler of the last.                         *)
(***************************************************************************)
EXTENDS Iop
STEP == 8
DIR == 9
\* Bound: every third of the thirty.
Intervals == <<200, 140, 85, 65, 60, 60, 60, 75, 120, 180>>
NSteps == Len(Intervals)
Main == <<Let("step", 0)>> \o Zero(<<0, 1, 3>>)
        \o <<Store("GPIO_OUT_CLR", {STEP, DIR}), Store("GPIO_OE_SET", {STEP, DIR}), EnableIrq,
             Cmp(0, CmpIrq(Intervals[1] - 1)), Ctl(TRUE, FALSE), W1C({0}), Started>>
Step(s) ==
    <<Store("GPIO_OUT_SET", {STEP}), Store("GPIO_OUT_CLR", {STEP}), Let("step", s), Publish(0, s),
      W1C({0})>>
    \o IF s < NSteps THEN <<Publish(3, Intervals[s + 1]), Cmp(0, CmpIrq(Intervals[s + 1] - 1)),
                            Ctl(TRUE, FALSE)>>
       ELSE <<Cmp(0, CmpOff), TimerOff, Publish(1, 1)>>
Paces == {3, 5}
Body(f, x) ==
    CASE f = "__isr" -> <<Load("TIMER_STATUS"), Call("step", 0)>>
      [] f = "step" -> IF 0 \in acc THEN Step(var.step + 1) ELSE <<>>
-----------------------------------------------------------------------------
Fresh == {Quiet}
Device == Watch(STEP)
Steps == (dev.n + 1) \div 2
Over == 1 \in DOMAIN mail /\ mail[1] = 1
\* Between two steps lies the interval, the work of one handler and the entry of
\* the next; the time of a step is that of a falling and a rising edge.
EdgesKept == STEP \in Rising /\ Steps > 0 =>
                dev.t \in Intervals[Steps + 1]..(Intervals[Steps + 1] + 12 * TrapEntry)
Counted == Steps = NSteps
=============================================================================
