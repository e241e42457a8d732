-------------------------------- MODULE Wakes -------------------------------
(***************************************************************************)
(* The examples that answer to edges of pads: wake_test and bldc6, then    *)
(* irq_aggregate and dc_tacho, whose handler also serves the timer.        *)
(***************************************************************************)
EXTENDS Iop
\* WAKE_FLAGS is read once, and what was read is cleared.
\* Mutant: everything is cleared.
AckFlags_All(seen) == Store("WAKE_FLAGS", Pins)
AckFlags(seen) == Store("WAKE_FLAGS", seen)
C2H == 32  \* DOORBELL_C2H comes after the words of the mailbox
Doorbell == Publish(C2H, 1)
-----------------------------------------------------------------------------
WakeTestMain == <<Let("wakes", 0), Publish(0, 0), EnableIrq>>
                \o WakeEdge(5, "rise") \o WakeEdge(9, "fall") \o WakeEnable(5) \o WakeEnable(9)
                \o <<Started>>
Report(seen) == <<Publish(4, seen), Let("wakes", var.wakes + 1), Publish(0, var.wakes + 1),
                  AckFlags(seen)>>
-----------------------------------------------------------------------------
(* bldc6: an edge of any Hall sensor commutates the six gates. *)
Hall == {0, 1, 2}
Gates == 4..9
UH == 4
UL == 5
VH == 6
VL == 7
WH == 8
WL == 9
CommSeq == <<{VH, WL}, {WH, UL}, {VH, UL}, {UH, VL}, {UH, WL}, {WH, VL}>>
BldcMain == <<Let("count", 0), Let("idx", 5)>> \o Zero(<<0, 1>>)
            \o <<Publish(3, {}), Store("GPIO_OE_CLR", Hall), Store("GPIO_OUT_CLR", Gates),
                 Store("GPIO_OE_SET", Gates), EnableIrq>>
            \o WakeEdge(0, "both") \o WakeEdge(1, "both") \o WakeEdge(2, "both")
            \o WakeEnable(0) \o WakeEnable(1) \o WakeEnable(2) \o <<Started>>
\* Mutant: the new gates go on before the old ones go off.
Commutate_OnFirst(gate) == <<Store("GPIO_OUT_SET", gate), Store("GPIO_OUT_CLR", Gates \ gate)>>
Commutate(gate) == <<Store("GPIO_OUT_CLR", Gates), Store("GPIO_OUT_SET", gate)>>
BldcIsr(seen) ==
    LET idx == (var.idx + 1) % 6
        gate == CommSeq[idx + 1]
    IN IF seen \cap Hall = {} THEN <<>>
       ELSE Commutate(gate)
            \o <<Let("count", var.count + 1), Let("idx", idx), Publish(1, idx), Publish(3, gate),
                 AckFlags(seen \cap Hall), Publish(0, var.count + 1)>>
-----------------------------------------------------------------------------
(* irq_aggregate.  Bound: a tick every 300 cycles. *)
Period == 300
AggregateMain == <<Let("timers", 0), Let("wakes", 0), Publish(0, 0), Publish(1, 0), EnableIrq,
                   Cmp(0, CmpIrq(Period - 1)), Ctl(TRUE, TRUE), W1C({0})>>
                 \o WakeEdge(5, "rise") \o WakeEnable(5) \o <<Started>>
PollTimer(ts) == (IF 0 \in ts THEN <<Let("timers", var.timers + 1), Publish(5, ts),
                                     Publish(0, var.timers + 1), W1C({0})>> ELSE <<>>)
                 \o <<Load("WAKE_FLAGS"), Call("pollWake", 0 \in ts)>>
PollWake(wf, handled) ==
    (IF wf # {} THEN <<Let("wakes", var.wakes + 1), Publish(4, wf), Publish(1, var.wakes + 1),
                       AckFlags(wf)>> ELSE <<>>)
    \o IF handled \/ wf # {} THEN <<Doorbell>> ELSE <<>>
-----------------------------------------------------------------------------
(* dc_tacho: the capture counts pulses, the ticks of a PWM end its windows.   *)
(* Bound: two ticks in a window.                                              *)
TACHO == 0
PWM == 8
DIR == 9
TickCycles == 200
PwmPeriod == 2
PwmDuty == 1
TachoMain ==
    <<Let("tick", 0), Let("tacho", 0)>> \o Zero(<<0, 1>>)
    \o <<Store("GPIO_OUT_CLR", {PWM, DIR}), Store("GPIO_OE_SET", {PWM, DIR}),
         Store("GPIO_OE_CLR", {TACHO}), EnableIrq, Cmp(0, CmpIrq(TickCycles - 1)),
         Store("TIMER_CTL", [reset |-> TRUE,
               ctl |-> [CtlOff EXCEPT !.en = TRUE, !.auto = TRUE, !.pad = TACHO,
                                      !.edge = "rise", !.irq = TRUE]]),
         W1C({0, CAPTURED}), Started>>
TachoIsr(st) ==
    (IF CAPTURED \in st THEN <<Let("tacho", var.tacho + 1), W1C({CAPTURED})>> ELSE <<>>)
    \o IF 0 \in st THEN <<Call("pwmTick", (var.tick + 1) % PwmPeriod)>> ELSE <<>>
PwmTick(t) ==
    (IF t = 0 THEN <<Publish(0, var.tacho), Let("tacho", 0)>> ELSE <<>>)
    \o <<Let("tick", t), Store(IF t < PwmDuty THEN "GPIO_OUT_SET" ELSE "GPIO_OUT_CLR", {PWM}),
         Publish(1, t), W1C({0})>>
-----------------------------------------------------------------------------
Main == CASE image = "wake_test" -> WakeTestMain [] image = "bldc6" -> BldcMain
          [] image = "irq_aggregate" -> AggregateMain [] image = "dc_tacho" -> TachoMain
Paces == {4}
Isr == CASE image = "wake_test" -> <<Load("WAKE_FLAGS"), Call("report", 0)>>
         [] image = "bldc6" -> <<Load("WAKE_FLAGS"), Call("commutate", 0)>>
         [] image = "irq_aggregate" -> <<Load("TIMER_STATUS"), Call("pollTimer", 0)>>
         [] image = "dc_tacho" -> <<Load("TIMER_STATUS"), Call("tacho", 0)>>
Body(f, x) ==
    CASE f = "__isr" -> Isr [] f = "report" -> Report(acc) [] f = "commutate" -> BldcIsr(acc)
      [] f = "pollTimer" -> PollTimer(acc) [] f = "pollWake" -> PollWake(acc, x)
      [] f = "tacho" -> TachoIsr(acc) [] f = "pwmTick" -> PwmTick(x)
-----------------------------------------------------------------------------
(* Outside: the k-th pad of a plan changes between Soonest and Latest cycles  *)
(* after the one before, the first since the image has started.  Counted are  *)
(* the ticks, and the flags in the snapshots or the pulses that are published.*)
Plan == CASE image = "wake_test" -> <<9, 5, 9>>
          [] image = "bldc6" -> <<0, 1, 2, 0, 1, 2, 0>>
          [] image = "irq_aggregate" -> <<5>>
          [] image = "dc_tacho" -> <<TACHO, TACHO, TACHO, TACHO>>
\* Bounds.  bldc6 counts handlers and dc_tacho has one capture flag: their edges
\* leave time for a handler.
Soonest(k) == CASE image = "wake_test" /\ k = 3 -> 1
                [] image = "irq_aggregate" -> 150
                [] image = "dc_tacho" /\ k = 3 -> 150
                [] OTHER -> 201
Latest(k) == CASE image = "wake_test" /\ k = 3 -> 99
               [] image = "irq_aggregate" -> 450
               [] image = "dc_tacho" /\ k = 3 -> 351
               [] OTHER -> 201
Step == 3
Fresh == {[high |-> {}, k |-> 0, w |-> 0, ticks |-> 0, seen |-> 0]}
Waits == 2 \in DOMAIN mail /\ dev.k < Len(Plan)
Noted == [dev EXCEPT !.ticks = IF 0 \in Matches THEN @ + 1 ELSE @,
                     !.seen = CASE Stores("MAIL") /\ core.op.i = 4 -> @ + Cardinality(core.op.v)
                                 [] Stores("MAIL") /\ core.op.i = 0 /\ image = "dc_tacho"
                                       -> @ + core.op.v
                                 [] OTHER -> @]
Later == IF Waits THEN [Noted EXCEPT !.w = @ + 1] ELSE Noted
Changed == LET p == Plan[dev.k + 1]
           IN [Noted EXCEPT !.w = 0, !.k = @ + 1,
                            !.high = IF p \in @ THEN @ \ {p} ELSE @ \cup {p}]
Devices == (IF Waits /\ dev.w >= Soonest(dev.k + 1) /\ dev.w % Step = 0 THEN {Changed} ELSE {})
           \cup (IF Waits /\ dev.w = Latest(dev.k + 1) THEN {} ELSE {Later})
Up == dev.high
Over == /\ dev.k = Len(Plan)
        /\ image = "irq_aggregate" => dev.ticks >= 2
        /\ image = "dc_tacho" => dev.ticks >= 5

\* A flag is in one snapshot; a tick, an edge and a pulse are counted once each.
Counted ==
    CASE image = "wake_test" -> dev.seen = 2
      [] image = "bldc6" -> mail[0] = Len(Plan) /\ PadOut \cap Gates = CommSeq[mail[1] + 1]
      [] image = "irq_aggregate" -> mail[0] = dev.ticks /\ mail[1] = 1
      [] image = "dc_tacho" -> /\ 2 * (dev.seen + var.tacho) = Len(Plan)
                               /\ mail[1] = dev.ticks % PwmPeriod
                               /\ (PWM \in PadOut) = (mail[1] < PwmDuty)
\* No gate goes on before its opposite is off.
GatesApart == image = "bldc6" => \A h \in {UH, VH, WH} : ~({h, h + 1} \subseteq PadOut)
=============================================================================
