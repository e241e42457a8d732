------------------------------ MODULE I2cEeprom -----------------------------
(***************************************************************************)
(* sw/i2c_eeprom/main.c, a bit-banged I2C master, and its EEPROM as        *)
(* sim/i2c_eeprom_model.v has it.  Both lines are open drain.              *)
(***************************************************************************)
EXTENDS Iop
SDA == 6
SCL == 7
Quarter == 4  \* bound: cycles of qtr()

SdaLow == Store("GPIO_OE_SET", {SDA})
SdaRel == Store("GPIO_OE_CLR", {SDA})
SclLow == Store("GPIO_OE_SET", {SCL})
SclRel == Store("GPIO_OE_CLR", {SCL})
Qtr == Spin(Quarter)
-----------------------------------------------------------------------------
I2cStart == <<SdaRel, SclRel, Qtr, SdaLow, Qtr, SclLow, Qtr>>
I2cStop == <<SdaLow, SclLow, Qtr, SclRel, Qtr, SdaRel, Qtr>>
Pulse == <<Qtr, SclRel, Qtr, Qtr, SclLow, Qtr>>
WriteBit(b) == <<IF b = 1 THEN SdaRel ELSE SdaLow>> \o Pulse
I2cWrite(b) == Each("writeBit", MsbFirst(b, 8)) \o <<SdaRel>> \o Pulse

ReadBit == <<Qtr, SclRel, Qtr, Load("GPIO_IN"), Call("shift", 0), Qtr, SclLow, Qtr>>
Shift == <<Let("b", 2 * var.b + IF SDA \in acc THEN 1 ELSE 0)>>
I2cRead(nak) ==
    <<Let("b", 0), SdaRel>> \o [i \in 1..8 |-> Call("readBit", 0)]
    \o <<IF nak THEN SdaRel ELSE SdaLow>> \o Pulse \o <<SdaRel>>

Payload == <<90, 165, 222, 173>>
WriteAll(bytes) == <<Call("start", 0)>> \o Each("write", bytes) \o <<Call("stop", 0)>>
ReadAll == [i \in 1..8 |-> IF i % 2 = 1 THEN Call("read", i = 7) ELSE Call("keep", 15 + i \div 2)]
Paces == {5}
Main == <<Store("GPIO_OUT_CLR", {SDA, SCL}), Store("GPIO_OE_CLR", {SDA, SCL}), Publish(0, 0)>>
        \o WriteAll(<<160, 0>> \o Payload) \o WriteAll(<<160, 0>>)
        \o <<Call("start", 0), Call("write", 161)>> \o ReadAll
        \o <<Call("stop", 0), Publish(0, 1)>>

Body(f, x) ==
    CASE f = "start" -> I2cStart [] f = "stop" -> I2cStop
      [] f = "write" -> I2cWrite(x) [] f = "writeBit" -> WriteBit(x)
      [] f = "read" -> I2cRead(x) [] f = "readBit" -> ReadBit [] f = "shift" -> Shift
      [] f = "keep" -> <<Publish(x, var.b)>>
-----------------------------------------------------------------------------
(* The EEPROM: a byte of some kind comes in and is acknowledged, or a byte of *)
(* memory goes out until the master does not acknowledge.                     *)
Slave == 80
Up == {SDA, SCL}
Low == dev.low
Fresh == {[st |-> "idle", kind |-> "device", n |-> 0, b |-> 0, low |-> {},
          addr |-> 0, mem |-> [a \in 0..3 |-> 0]]}

Framing == SCL \in pad \cap sync1 /\ SDA \in Rising \cup Falling
Receive(d, kind) == [d EXCEPT !.st = "recv", !.kind = kind, !.n = 0, !.b = 0, !.low = {}]
Present(d, n) == [d EXCEPT !.st = "send", !.n = n,
                           !.low = IF BitOf(d.mem[d.addr], 7 - n) = 0 THEN {SDA} ELSE {}]
Sampled(d) == [d EXCEPT !.b = 2 * @ + (IF SDA \in pad THEN 1 ELSE 0), !.n = @ + 1,
                        !.st = IF d.n = 7 THEN "full" ELSE "recv"]
Taken(d) ==
    CASE d.kind = "device" -> [d EXCEPT !.st = IF d.b \div 2 = Slave THEN "ack" ELSE "deaf",
                                        !.low = IF d.b \div 2 = Slave THEN {SDA} ELSE {}]
      [] d.kind = "word" -> [d EXCEPT !.st = "ack", !.low = {SDA}, !.addr = d.b]
      [] d.kind = "data" -> [d EXCEPT !.st = "ack", !.low = {SDA}, !.addr = @ + 1,
                                      !.mem = (d.addr :> d.b) @@ @]
Acknowledged(d) ==
    CASE d.kind = "device" /\ d.b % 2 = 1 -> Present(d, 0)
      [] d.kind = "device" /\ d.b % 2 = 0 -> Receive(d, "word")
      [] OTHER -> Receive(d, "data")
Device ==
    CASE Framing /\ SDA \in Falling -> Receive(dev, "device")
      [] Framing /\ SDA \in Rising -> [dev EXCEPT !.st = "idle", !.low = {}]
      [] dev.st = "recv" /\ SCL \in Rising -> Sampled(dev)
      [] dev.st = "full" /\ SCL \in Falling -> Taken(dev)
      [] dev.st = "ack" /\ SCL \in Falling -> Acknowledged(dev)
      [] dev.st = "send" /\ SCL \in Rising -> [dev EXCEPT !.st = "sent"]
      [] dev.st = "sent" /\ SCL \in Falling ->
            IF dev.n < 7 THEN Present(dev, dev.n + 1)
            ELSE [dev EXCEPT !.st = "ackIn", !.low = {}]
      [] dev.st = "ackIn" /\ SCL \in Rising ->
            IF SDA \in pad THEN [dev EXCEPT !.st = "deaf", !.addr = @ + 1]
            ELSE Present([dev EXCEPT !.addr = @ + 1], 0)
      [] OTHER -> dev
-----------------------------------------------------------------------------
\* Data moves under a high clock only to frame a transfer, never inside a byte.
Clean == Framing => dev.n \in {0, 1} \/ dev.st \in {"idle", "deaf"}

\* What the image publishes is what the memory holds and what it had written, and
\* the bus is free.
Served == /\ dev.st = "idle"
          /\ \A a \in 0..3 : mail[16 + a] = Payload[a + 1] /\ dev.mem[a] = Payload[a + 1]
=============================================================================
