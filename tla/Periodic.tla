------------------------------ MODULE Periodic ------------------------------
(***************************************************************************)
(* The examples that live in the handler of a periodic match: pwm_dac,     *)
(* pdm_dac, psg3, pwm4, tone_melody and irq_timer, and timer_pwm, which    *)
(* needs no handler.  main() arms the timer, the handler plays.            *)
(***************************************************************************)
EXTENDS Iop
F == INSTANCE Functions
PAD == 8
High(pads) == Store("GPIO_OUT_SET", pads)
Down(pads) == Store("GPIO_OUT_CLR", pads)
Stop == <<Cmp(0, CmpOff), TimerOff>>
\* What the mains have in common.
Arm(words, level, pads, channels, flag) ==
    Zero(words) \o <<level, Store("GPIO_OE_SET", pads), EnableIrq>> \o channels
    \o <<Ctl(TRUE, TRUE), W1C(flag), Started>>
Done(count) == <<Publish(3, 1), Publish(0, count), W1C({0})>>
-----------------------------------------------------------------------------
(* pwm_dac: the pad rises at CMP0, falls at CMP1.  Bound: half the period and *)
(* half of each duty, four of the eight samples.                              *)
Period == 1024
Duty == <<128, 512, 896, 128>>
HoldPeriods == 1
PwmDacMain == <<Let("count", 0), Let("idx", 0), Let("hold", HoldPeriods)>>
              \o Arm(<<0, 1, 3>>, High({PAD}), {PAD},
                     <<Cmp(0, CmpIrq(Period - 1)), Cmp(1, CmpIrq(Duty[1]))>>, {0, 1})
DutyPoint(st) == IF 1 \in st THEN <<Down({PAD}), W1C({1})>> ELSE <<>>
PeriodStart(st) ==
    LET n == var.idx + 1
        pc == var.count + 1
    IN <<High({PAD}), Let("count", pc)>>
       \o IF var.hold <= 1 /\ n >= Len(Duty)
          THEN <<Cmp(0, CmpOff), Cmp(1, CmpOff), TimerOff, Down({PAD}), Publish(1, n)>> \o Done(pc)
          ELSE (IF var.hold > 1 THEN <<Let("hold", var.hold - 1)>>
                ELSE <<Let("idx", n), Let("hold", HoldPeriods), Cmp(1, CmpIrq(Duty[n + 1])),
                       Publish(1, n)>>)
               \o <<Publish(0, pc), W1C({0})>> \o DutyPoint(st)
PwmDacIsr(st) == IF 0 \in st THEN PeriodStart(st) ELSE DutyPoint(st)
-----------------------------------------------------------------------------
(* pdm_dac: a first-order sigma-delta modulator.  Bound: a threshold of 16,   *)
(* three samples of six pulses.                                               *)
PdmPeriod == 250
Threshold == 16
Samples == <<4, 9, 15>>
PulsesPerSample == 6
PdmMain == <<Let("sum", 0), Let("pc", 0), Let("pis", 0), Let("idx", 1)>>
           \o Arm(<<0, 1, 3>>, Down({PAD}), {PAD}, <<Cmp(0, CmpIrq(PdmPeriod - 1))>>, {0})
\* Mutant: the accumulator starts again with each sample.
Remainder_Lost(sum) == IF sum >= Threshold THEN 0 ELSE sum
Remainder(sum) == IF sum >= Threshold THEN sum - Threshold ELSE sum
PdmIsr ==
    LET sum == var.sum + Samples[var.idx]
        pc == var.pc + 1
        pis == var.pis + 1
    IN <<IF sum >= Threshold THEN High({PAD}) ELSE Down({PAD}),
         Let("sum", Remainder(sum)), Let("pc", pc)>>
       \o IF pis >= PulsesPerSample /\ var.idx = Len(Samples)
          THEN Stop \o <<Down({PAD}), Publish(1, var.idx)>> \o Done(pc)
          ELSE (IF pis < PulsesPerSample THEN <<Let("pis", pis)>>
                ELSE <<Let("idx", var.idx + 1), Let("pis", 0), Publish(1, var.idx)>>)
               \o <<Publish(0, pc), W1C({0})>>
-----------------------------------------------------------------------------
(* psg3: three square waves of whole sample periods.  Bound: 24 samples.      *)
SamplePeriod == 250
NSamples == 24
Half == <<10, 5, 2>>
Voice(v) == 7 + v
PsgMain == <<Let("phase", <<0, 0, 0>>), Let("out", {}), Let("count", 0)>>
           \o Arm(<<0, 3>>, Down({8, 9, 10}), {8, 9, 10},
                  <<Cmp(0, CmpIrq(SamplePeriod - 1))>>, {0})
\* A voice whose half period is over changes its level.
PlayVoice(v) ==
    LET p == var.phase[v] + 1
        pad_ == {Voice(v)}
    IN IF p < Half[v] THEN <<Let("phase", [var.phase EXCEPT ![v] = p])>>
       ELSE <<Let("phase", [var.phase EXCEPT ![v] = 0]),
              Let("out", (var.out \ pad_) \cup (pad_ \ var.out)),
              IF Voice(v) \in var.out THEN Down(pad_) ELSE High(pad_)>>
PsgEnd ==
    LET sc == var.count + 1
    IN <<Let("count", sc)>>
       \o IF sc < NSamples THEN <<Publish(0, sc), W1C({0})>>
          ELSE Stop \o <<Down({8, 9, 10})>> \o Done(sc)
PsgIsr == <<Call("voice", 1), Call("voice", 2), Call("voice", 3), Call("psgEnd", 0)>>
-----------------------------------------------------------------------------
(* pwm4: four software PWM channels.  Bound: a period of 8 ticks, two periods.*)
TickCycles == 200
Duties == <<2, 4, 6, 8>>
Ticks == 8
Pads4 == {8, 9, 10, 11}
Pwm4Main == <<Let("tick", 0)>>
            \o Arm(<<0>>, Down(Pads4), Pads4, <<Cmp(0, CmpIrq(TickCycles - 1))>>, {0})
OnAt(t) == {p \in Pads4 : t < Duties[p - 7]}
Pwm4Isr == LET t == (var.tick + 1) % Ticks
           IN <<Let("tick", t), Publish(0, t)>>
              \o (IF OnAt(t) # {} THEN <<High(OnAt(t))>> ELSE <<>>)
              \o (IF OnAt(t) # Pads4 THEN <<Down(Pads4 \ OnAt(t))>> ELSE <<>>) \o <<W1C({0})>>
-----------------------------------------------------------------------------
(* tone_melody: the timer toggles the pad, the handler counts and changes the *)
(* pitch.  Bound: three notes of four matches, a quarter of each half period. *)
HalfPeriod == <<312, 260, 208>>
BeatToggles == 4
Pitch(n) == [CmpToggle(HalfPeriod[n] - 1, PAD) EXCEPT !.irq = TRUE]
ToneMain == <<Let("count", 0), Let("note", 1)>>
            \o Arm(<<0, 3>>, Down({PAD}), {PAD}, <<Cmp(0, Pitch(1))>>, {0})
ToneIsr == IF var.count + 1 < BeatToggles THEN <<Let("count", var.count + 1), W1C({0})>>
           ELSE <<Let("note", var.note + 1), Let("count", 0)>>
                \o (IF var.note < Len(HalfPeriod) THEN <<Cmp(0, Pitch(var.note + 1))>>
                    ELSE Stop \o <<Publish(3, 1)>>)
                \o <<Publish(0, var.note), W1C({0})>>
-----------------------------------------------------------------------------
(* irq_timer: a tick every 100 cycles.  timer_pwm: a square wave from the     *)
(* timer alone.  Bound: six ticks, eight edges.                               *)
TimerMain == <<Let("tick", 0), Publish(0, 0), EnableIrq, Cmp(0, CmpIrq(99)),
               Ctl(TRUE, TRUE), W1C({0}), Started>>
PwmPad == 3
PwmMain == <<Store("GPIO_OE_SET", {PwmPad}), Cmp(0, CmpToggle(39, PwmPad)), Publish(0, 1),
             Ctl(FALSE, TRUE)>>
TimerIsr == <<Let("tick", var.tick + 1), Publish(0, var.tick + 1), W1C({0})>>
-----------------------------------------------------------------------------
Paces == IF image = "irq_timer" THEN {3, 5} ELSE {5}
Main == CASE image = "pwm_dac" -> PwmDacMain [] image = "pdm_dac" -> PdmMain
          [] image = "psg3" -> PsgMain [] image = "pwm4" -> Pwm4Main
          [] image = "tone_melody" -> ToneMain [] image = "irq_timer" -> TimerMain
          [] image = "timer_pwm" -> PwmMain
Handle(st) == IF image = "pwm_dac" THEN PwmDacIsr(st)
              ELSE IF 0 \notin st THEN <<>>
              ELSE CASE image = "pdm_dac" -> PdmIsr [] image = "psg3" -> PsgIsr
                     [] image = "pwm4" -> Pwm4Isr [] image = "tone_melody" -> ToneIsr
                     [] image = "irq_timer" -> TimerIsr
Body(f, x) == CASE f = "__isr" -> <<Load("TIMER_STATUS"), Call("handle", 0)>>
                [] f = "handle" -> Handle(acc)
                [] f = "voice" -> PlayVoice(x) [] f = "psgEnd" -> PsgEnd
-----------------------------------------------------------------------------
(* What is heard: the observer of the pad, the matches of CMP0 and those that *)
(* found the pad high.                                                        *)
Observed == IF image = "timer_pwm" THEN PwmPad ELSE PAD
Fresh == {Quiet @@ [ticks |-> 0, ones |-> 0]}
Tick == 0 \in Matches
Over == CASE image = "pwm4" -> dev.ticks > 2 * Ticks
          [] image = "irq_timer" -> dev.ticks = 6
          [] image = "timer_pwm" -> dev.n = 9
          [] OTHER -> 3 \in DOMAIN mail /\ mail[3] = 1
Device == IF Over THEN dev
          ELSE [Watch(Observed) EXCEPT !.ticks = IF Tick THEN @ + 1 ELSE @,
                                       !.ones = IF Tick /\ PAD \in pad THEN @ + 1 ELSE @]

\* The sum of the samples of the first k pulses.
Played(k) == F!FoldFunction(+, 0, [i \in 1..k |-> Samples[1 + (i - 1) \div PulsesPerSample]])
Near(x, y) == y - 2 * TrapEntry <= x /\ x <= y + 2 * TrapEntry

\* A pulse of the DAC is as wide as its sample's duty; a pulse train has as many
\* ones as its samples add up to; a voice changes after every half period; a
\* channel is on for its duty.
Levels ==
    CASE image = "pwm_dac" -> PAD \in Falling /\ dev.n \div 2 \in 1..(Len(Duty) - 1)
                                 => Near(dev.t, Duty[dev.n \div 2 + 1])
      [] image = "pdm_dac" -> Tick => Threshold * (dev.ones + IF PAD \in pad THEN 1 ELSE 0)
                                      + var.sum = Played(dev.ticks)
      [] image = "psg3" -> Tick => \A v \in 1..3 :
                              (Voice(v) \in pad) = ((dev.ticks \div Half[v]) % 2 = 1)
      [] image = "pwm4" -> Tick /\ dev.ticks > 0 => PadOut \cap Pads4 = OnAt(dev.ticks % Ticks)
      [] OTHER -> TRUE

\* Edges the timer makes come after exactly the half period of their note.
NoteOf(edge) == HalfPeriod[1 + (edge - 1) \div BeatToggles]
EdgesKept ==
    CASE image = "tone_melody" -> Edge(PAD) /\ dev.n > 0 /\ mail[3] = 0
                                     => dev.t = NoteOf(dev.n + 1)
      [] image = "timer_pwm" -> Edge(PwmPad) /\ dev.n > 0 => dev.t = 40
      [] OTHER -> TRUE
Counted == image = "irq_timer" => mail[0] = dev.ticks
=============================================================================
