------------------------------- MODULE Ht1621 -------------------------------
(***************************************************************************)
(* sw/ht1621/main.c, the three-wire master of an LCD driver, and the       *)
(* frames sim/ht1621_model.v takes from its pads.                          *)
(***************************************************************************)
EXTENDS Iop
CS == 9
WR == 10
DATA == 11
THalf == 32

High(p) == Store("GPIO_OUT_SET", {p})
LowPad(p) == Store("GPIO_OUT_CLR", {p})
Half == Call("delay", THalf)

\* Mutant: the clock rises before the data is there.
SendBit_Late(b) ==
    <<LowPad(WR), Half, High(WR), IF b = 1 THEN High(DATA) ELSE LowPad(DATA), Half>>
SendBit(b) == <<LowPad(WR), IF b = 1 THEN High(DATA) ELSE LowPad(DATA), Half, High(WR), Half>>
SendBits(bits, n) == Each("sendBit", MsbFirst(bits, n))
Select == <<LowPad(CS), Half>>
Deselect == <<High(CS), Half>>
HtCmd(cmd) == Select \o SendBits(7 * 2^9 + cmd * 2, 12) \o Deselect
HtWrite(addr6, payload, nnibs) ==
    Select \o SendBits(4 * 2^6 + (addr6 % 64), 9) \o SendBits(payload, 4 * nnibs) \o Deselect
Paces == {5}
Main == <<Store("GPIO_OUT_CLR", {CS, WR, DATA}), Store("GPIO_OUT_SET", {CS, WR}),
          Store("GPIO_OE_SET", {CS, WR, DATA}), Publish(0, 0),
          Call("cmd", 3), Call("cmd", 7), Call("write", 0), Publish(0, 1)>>
Body(f, x) == CASE f = "cmd" -> HtCmd(x) [] f = "write" -> HtWrite(x, 4660, 4)
                [] f = "sendBit" -> SendBit(x)
-----------------------------------------------------------------------------
Fresh == {[on |-> FALSE, cur |-> <<>>, frames |-> <<>>, csHigh |-> FALSE]}
Device ==
    CASE CS \in Falling /\ dev.csHigh -> [dev EXCEPT !.on = TRUE, !.cur = <<>>]
      [] CS \in Rising /\ dev.on -> [dev EXCEPT !.on = FALSE, !.frames = Append(@, dev.cur)]
      [] CS \in Rising /\ ~dev.on -> [dev EXCEPT !.csHigh = TRUE]
      [] WR \in Rising /\ CS \notin pad /\ dev.on ->
            [dev EXCEPT !.cur = Append(@, IF DATA \in pad THEN 1 ELSE 0)]
      [] OTHER -> dev
\* 111, the command, a bit nobody reads; 100, the address, four nibbles.
Command(cmd) == <<1, 1, 1>> \o MsbFirst(cmd, 8) \o <<0>>
Served == dev.frames = <<Command(3), Command(7),
                         <<1, 0, 0>> \o MsbFirst(0, 6) \o MsbFirst(1, 4) \o MsbFirst(2, 4)
                         \o MsbFirst(3, 4) \o MsbFirst(4, 4)>>
=============================================================================
