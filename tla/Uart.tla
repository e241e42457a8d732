-------------------------------- MODULE Uart --------------------------------
(***************************************************************************)
(* sw/uart_tx/main.c and sw/uart_echo/main.c: eight data bits framed by a  *)
(* start and a stop bit, timed by matches of the timer; and the two ends   *)
(* of the testbenches, a receiver that samples in the middle of a bit, as  *)
(* sim/uart_rx_model.v does, and a sender.                                 *)
(***************************************************************************)
EXTENDS Iop
TXD == 0
RXD == 1
BitCycles == 217
Message == <<72, 101>>  \* bound: two characters, and two bytes to echo
Bytes == <<85, 163>>

DriveTx(v) == <<Store(IF v = 1 THEN "GPIO_OUT_SET" ELSE "GPIO_OUT_CLR", {TXD})>>
BitTime == Cmp(0, CmpOn(BitCycles - 1))
SendBit(v) == DriveTx(v) \o WaitMatch(0)
Frame(b) == Each("sendBit", <<0>> \o LsbFirst(b, 8) \o <<1>>)
IdleHigh == <<Store("GPIO_OE_SET", {TXD}), Store("GPIO_OUT_SET", {TXD})>>
TxMain == IdleHigh \o <<BitTime, W1C({0}), Ctl(FALSE, TRUE)>> \o WaitMatch(0)
          \o Each("txByte", Message) \o <<Publish(0, Len(Message))>>

EchoByte(b) == <<Ctl(TRUE, TRUE), BitTime, W1C({0})>> \o Frame(b)

AwaitStart == <<Load("GPIO_IN"), Call("start", 0)>>
Start == IF RXD \in acc THEN AwaitStart ELSE <<>>
Sample(i) == <<Load("GPIO_IN"), Call("bit", i)>>
Bit(i) == <<Let("b", var.b + IF RXD \in acc THEN 2^i ELSE 0)>>
RxByte ==
    <<Let("b", 0)>> \o AwaitStart
    \o <<Cmp(0, CmpOff), Ctl(TRUE, TRUE), Cmp(1, CmpOn(BitCycles + BitCycles \div 2 - 1)),
         W1C({0, 1})>> \o WaitMatch(1) \o <<Cmp(1, CmpOff)>> \o Sample(0)
    \o <<BitTime, Ctl(TRUE, TRUE), W1C({0})>>
    \o Each("nextBit", <<1, 2, 3, 4, 5, 6, 7>>) \o WaitMatch(0)
Echo(n) == <<Publish(1, var.b), Call("echoByte", var.b), Publish(0, n)>>
EchoMain == IdleHigh \o Zero(<<0, 1>>)
            \o [i \in 1..(2 * Len(Bytes)) |-> IF i % 2 = 1 THEN Call("rxByte", 0)
                                              ELSE Call("echo", i \div 2)]
Main == IF image = "uart_tx" THEN TxMain ELSE EchoMain
Paces == {4}
Body(f, x) ==
    CASE f = "sendBit" -> SendBit(x) [] f = "txByte" -> Frame(x)
      [] f = "echoByte" -> EchoByte(x) [] f = "rxByte" -> RxByte
      [] f = "start" -> Start [] f = "bit" -> Bit(x)
      [] f = "nextBit" -> WaitMatch(0) \o Sample(x) [] f = "echo" -> Echo(x)
-----------------------------------------------------------------------------
(* Outside: what has been heard on TXD since it was high for a bit time, and  *)
(* the sender, which starts a byte when the last has come back and its stop   *)
(* bit is over.                                                               *)
Fresh == {[st |-> "deaf", t |-> 0, b |-> 0, n |-> 0, heard |-> <<>>, bad |-> FALSE,
           sent |-> 0, s |-> 0]}
Level == IF TXD \in pad THEN 1 ELSE 0
Hear(d) ==
    CASE d.st = "deaf" -> IF Level = 0 THEN [d EXCEPT !.t = 0]
                          ELSE IF d.t < BitCycles THEN [d EXCEPT !.t = @ + 1]
                          ELSE [d EXCEPT !.st = "idle"]
      [] d.st = "idle" -> IF Level = 1 THEN d
                          ELSE [d EXCEPT !.st = "frame", !.t = BitCycles \div 2, !.n = 0, !.b = 0]
      [] d.st = "frame" ->
            IF d.t + 1 < BitCycles THEN [d EXCEPT !.t = @ + 1]
            ELSE CASE d.n = 0 -> [d EXCEPT !.t = 0, !.n = 1, !.bad = @ \/ Level = 1]
                   [] d.n \in 1..8 -> [d EXCEPT !.t = 0, !.n = @ + 1, !.b = @ + Level * 2^(d.n - 1)]
                   [] d.n = 9 -> [d EXCEPT !.t = 0, !.st = "idle", !.bad = @ \/ Level = 0,
                                           !.heard = Append(@, d.b)]
Ready4Next == dev.st = "idle" /\ dev.sent < Len(Bytes) /\ Len(dev.heard) = dev.sent
Send(d) ==
    CASE d.s > 0 -> [d EXCEPT !.s = IF @ = 11 * BitCycles THEN 0 ELSE @ + 1]
      [] d.s = 0 /\ Ready4Next -> [d EXCEPT !.s = 1, !.sent = @ + 1]
      [] OTHER -> d
Device == IF image = "uart_tx" THEN Hear(dev) ELSE Send(Hear(dev))
\* A byte goes out half a bit late, for the stop bit of the echo.
Line(d) == IF d.s = 0 THEN 1
           ELSE LET k == (2 * (d.s - 1) + BitCycles) \div (2 * BitCycles)
                IN CASE k = 1 -> 0 [] k \in 2..9 -> BitOf(Bytes[d.sent], k - 2) [] OTHER -> 1
Up == IF image = "uart_echo" /\ Line(dev) = 1 THEN {RXD} ELSE {}

\* What is heard is what was to be said, and at least what is counted.
Served == LET said == IF image = "uart_tx" THEN Message ELSE Bytes
          IN dev.heard = SubSeq(said, 1, Len(dev.heard)) /\ mail[0] <= Len(dev.heard) /\ ~dev.bad
=============================================================================
