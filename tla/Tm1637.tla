------------------------------- MODULE Tm1637 -------------------------------
(***************************************************************************)
(* sw/tm1637/main.c, the two-wire master of a display, paced by the timer, *)
(* and its slave as sim/tm1637_slave_model.v has it.  Both lines are open  *)
(* drain; bytes go out low bit first.                                      *)
(***************************************************************************)
EXTENDS Iop
DIO == 9
CLK == 10
QuarterCycles == 25

DioLow == Store("GPIO_OE_SET", {DIO})
DioRel == Store("GPIO_OE_CLR", {DIO})
ClkLow == Store("GPIO_OE_SET", {CLK})
ClkRel == Store("GPIO_OE_CLR", {CLK})
Qtr == Call("delay", QuarterCycles)

TmStart == <<DioRel, ClkRel, Qtr, DioLow, Qtr, ClkLow, Qtr>>
TmStop == <<ClkLow, DioLow, Qtr, ClkRel, Qtr, DioRel, Qtr>>
Pulse == <<Qtr, ClkRel, Qtr, Qtr, ClkLow, Qtr>>
\* Mutant: the data changes after the clock has risen.
WriteBit_Late(b) == <<ClkRel, IF b = 1 THEN DioRel ELSE DioLow, Qtr, Qtr, ClkLow, Qtr>>
WriteBit(b) == <<IF b = 1 THEN DioRel ELSE DioLow>> \o Pulse
TmWrite(b) == Each("writeBit", LsbFirst(b, 8)) \o <<DioRel>> \o Pulse

\* Bound: the first two of the four digits.
Transfers == <<<<64>>, <<192, 6, 91>>, <<143>>>>
Transfer(bytes) == <<Call("start", 0)>> \o Each("write", bytes) \o <<Call("stop", 0)>>
Paces == {5}
Main == <<Store("GPIO_OUT_CLR", {DIO, CLK}), Store("GPIO_OE_CLR", {DIO, CLK}), Publish(0, 0)>>
        \o Each("transfer", Transfers) \o <<Publish(0, 1)>>
Body(f, x) ==
    CASE f = "start" -> TmStart [] f = "stop" -> TmStop [] f = "transfer" -> Transfer(x)
      [] f = "write" -> TmWrite(x) [] f = "writeBit" -> WriteBit(x)
-----------------------------------------------------------------------------
(* The slave: a byte, then an acknowledgement for one clock. *)
Up == {DIO, CLK}
Low == dev.low
Fresh == {[st |-> "idle", n |-> 0, b |-> 0, low |-> {}, bytes |-> <<>>]}

Framing == CLK \in pad \cap sync1 /\ DIO \in Rising \cup Falling
Device ==
    CASE Framing /\ DIO \in Falling -> [dev EXCEPT !.st = "recv", !.n = 0, !.b = 0, !.low = {}]
      [] Framing /\ DIO \in Rising -> [dev EXCEPT !.st = "idle", !.low = {}]
      [] dev.st = "recv" /\ CLK \in Rising ->
            [dev EXCEPT !.b = @ + (IF DIO \in pad THEN 2^dev.n ELSE 0), !.n = @ + 1,
                        !.st = IF dev.n = 7 THEN "full" ELSE "recv"]
      [] dev.st = "full" /\ CLK \in Falling -> [dev EXCEPT !.st = "ack", !.low = {DIO}]
      [] dev.st = "ack" /\ CLK \in Falling ->
            [dev EXCEPT !.st = "recv", !.n = 0, !.b = 0, !.low = {},
                        !.bytes = Append(@, dev.b)]
      [] OTHER -> dev

Clean == Framing => dev.n \in {0, 1} \/ dev.st = "idle"
Served == dev.st = "idle" /\ dev.bytes = Transfers[1] \o Transfers[2] \o Transfers[3]
=============================================================================
