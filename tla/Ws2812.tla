------------------------------- MODULE Ws2812 -------------------------------
(***************************************************************************)
(* sw/ws2812/main.c: a bit of an LED is a pulse, high until CMP1 toggles   *)
(* the pad and low until CMP0 toggles it again and reloads the counter.    *)
(***************************************************************************)
EXTENDS Iop
DIN == 8
BitPeriod == 62
T0H == 20
T1H == 40
Width(bit) == IF bit = 1 THEN T1H ELSE T0H

\* Bound: two bytes instead of nine.
HTable == LET bits == MsbFirst(255, 8) \o MsbFirst(90, 8)
          IN [i \in DOMAIN bits |-> Width(bits[i])]
Total == Len(HTable)
ToggleAt(v) == CmpToggle(v, DIN)
Main ==
    <<Store("GPIO_OE_SET", {DIN}), Publish(0, 0),
      Cmp(1, ToggleAt(0)), Cmp(0, [CmpOff EXCEPT !.val = CountMod - 1]), Ctl(TRUE, FALSE), Spin(4),
      TimerOff, W1C({0, 1}),
      Cmp(1, ToggleAt(HTable[1] - 1)), Cmp(0, ToggleAt(BitPeriod - 1)), Ctl(TRUE, TRUE),
      W1C({0, 1})>>
    \o [i \in 1..Total |-> Call("pulse", i)]
    \o <<TimerOff, Cmp(0, CmpOff), Cmp(1, CmpOff), Store("GPIO_OUT_CLR", {DIN}), Publish(0, 1)>>
\* The next width goes in while the counter runs between the two matches.
NextWidth(i) == IF i < Total THEN <<Cmp(1, ToggleAt(HTable[i + 1] - 1))>> ELSE <<>>
\* Mutant: as soon as the bit has started.
NextPulse_Early(i) == NextWidth(i) \o WaitMatch(1)
NextPulse(i) == WaitMatch(1) \o NextWidth(i)
Body(f, i) == NextPulse(i) \o WaitMatch(0)
Paces == {3, 4}
-----------------------------------------------------------------------------
Fresh == {Quiet}
Device == Watch(DIN)
\* The first pulse starts with the bootstrap and is longer; after it every pulse
\* has the width of its bit, and every bit the same period.
EdgesKept == LET k == dev.n \div 2
             IN /\ DIN \in Falling /\ k \in 1..(Total - 1) => dev.t = HTable[k + 1]
                /\ DIN \in Rising /\ k \in 1..Total => dev.t = BitPeriod - HTable[k]
=============================================================================
