------------------------------ MODULE Hd44780 -------------------------------
(***************************************************************************)
(* sw/hd44780/main.c, the 4-bit master of a character display, and what    *)
(* sim/hd44780_model.v latches from its pads.                              *)
(***************************************************************************)
EXTENDS Iop
RS == 9
E == 10
Data == 11..14  \* D4 to D7

PulseE == <<Store("GPIO_OUT_SET", {E}), Call("delay", 16),
            Store("GPIO_OUT_CLR", {E}), Call("delay", 16)>>
DriveNibble(n) == <<Store("GPIO_OUT_CLR", Data),
                    Store("GPIO_OUT_SET", {p \in Data : BitOf(n, p - 11) = 1})>>
LcdSend(b, rs) ==
    <<Store(IF rs = 1 THEN "GPIO_OUT_SET" ELSE "GPIO_OUT_CLR", {RS})>>
    \o DriveNibble(b \div 16) \o PulseE \o DriveNibble(b % 16) \o PulseE
    \o <<Call("delay", 32)>>

Commands == <<40, 12, 1, 6, 128>>
Text == <<65, 116, 116, 111, 73, 79, 33>>
Paces == {5, 8}
Main == <<Store("GPIO_OUT_CLR", Data \cup {RS, E}), Store("GPIO_OE_SET", Data \cup {RS, E}),
          Publish(0, 0)>>
        \o Each("cmd", SubSeq(Commands, 1, 3)) \o <<Call("delay", 64)>>
        \o Each("cmd", SubSeq(Commands, 4, 5)) \o Each("data", Text) \o <<Publish(0, 1)>>
Body(f, x) == CASE f = "cmd" -> LcdSend(x, 0) [] f = "data" -> LcdSend(x, 1)
-----------------------------------------------------------------------------
Fresh == {[high |-> <<>>, bytes |-> <<>>]}
Weight(p) == IF p \in pad THEN 2^(p - 11) ELSE 0
Nibble == Weight(11) + Weight(12) + Weight(13) + Weight(14)
\* A byte has the RS of its high nibble.
Device ==
    CASE E \in Falling /\ dev.high = <<>> ->
            [dev EXCEPT !.high = <<Nibble, IF RS \in pad THEN 1 ELSE 0>>]
      [] E \in Falling /\ dev.high # <<>> ->
            [dev EXCEPT !.high = <<>>,
                        !.bytes = Append(@, <<16 * dev.high[1] + Nibble, dev.high[2]>>)]
      [] OTHER -> dev
Served == dev.bytes = [i \in 1..12 |-> IF i <= 5 THEN <<Commands[i], 0>>
                                       ELSE <<Text[i - 5], 1>>]
=============================================================================
