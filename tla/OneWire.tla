------------------------------ MODULE OneWire -------------------------------
(***************************************************************************)
(* sw/onewire/main.c, a 1-Wire master paced by the timer, and its slave as *)
(* sim/ds18b20_slave_model.v has it, with the times of both in cycles of   *)
(* 40 ns.  A slave may be absent.                                          *)
(***************************************************************************)
EXTENDS Iop
DQ == 3
Release == Store("GPIO_OE_CLR", {DQ})
DriveLow == Store("GPIO_OE_SET", {DQ})
Delay(n) == Call("delay", n)
Sample == Load("GPIO_IN")

OwReset == <<DriveLow, Delay(1200), Release, Delay(150), Sample, Call("presence", 0),
             Delay(1500)>>
Presence == <<Let("present", DQ \notin acc)>>
WriteBit(b) ==
    (IF b = 1 THEN <<DriveLow, Delay(25), Release, Delay(150)>>
     ELSE <<DriveLow, Delay(150), Release, Delay(25)>>) \o <<Delay(15)>>
ReadBit(i) == <<DriveLow, Delay(12), Release, Delay(25), Sample, Call("take", i),
                Delay(138), Delay(15)>>
Take(i) == <<Let("b", var.b + IF DQ \in acc THEN 2^i ELSE 0)>>
WriteByte(b) == Each("writeBit", LsbFirst(b, 8))
ReadByte == <<Let("b", 0)>> \o [i \in 1..8 |-> Call("readBit", i - 1)]

ScratchBytes == 2  \* bound: of the nine bytes
ReadAll == [i \in 1..(2 * ScratchBytes) |->
              IF i % 2 = 1 THEN Call("readByte", 0) ELSE Call("keep", 0)]
Present == IF ~var.present THEN <<Publish(1, 0)>>
           ELSE <<Publish(1, 1), Call("writeByte", 190), Let("scratch", <<>>)>>
                \o ReadAll \o <<Call("scratch", 0)>>
Scratch == <<Publish(5, var.scratch[1]), Publish(6, var.scratch[2]),
             Publish(4, 256 * var.scratch[2] + var.scratch[1])>>
Paces == {6}
Main == <<Publish(0, 0), Publish(1, 0), Publish(4, 0), Publish(5, 0), Publish(6, 0),
          Store("GPIO_OUT_CLR", {DQ}), Release, Call("reset", 0), Call("present", 0),
          Started, Publish(0, 1)>>
Body(f, x) ==
    CASE f = "reset" -> OwReset [] f = "presence" -> Presence [] f = "present" -> Present
      [] f = "writeBit" -> WriteBit(x) [] f = "writeByte" -> WriteByte(x)
      [] f = "readBit" -> ReadBit(x) [] f = "take" -> Take(x) [] f = "readByte" -> ReadByte
      [] f = "keep" -> <<Let("scratch", Append(var.scratch, var.b))>>
      [] f = "scratch" -> Scratch
-----------------------------------------------------------------------------
(* The slave waits for a time t or for an edge. *)
Memory == <<145, 1>>
ResetMin == 500
PresenceWait == 37
PresenceLen == 200
SlotTotal == 250
ReadSample == 125
ReadDrive == 175

Up == {DQ}
Low == dev.low
Fresh == {[st |-> s, t |-> 0, n |-> 0, cmd |-> 0, low |-> {}] : s \in {"idle", "absent"}}
\* Cycles in a state; the count stops where nobody looks at it.
Stay == [dev EXCEPT !.t = @ + 1]
Go(d, st) == [d EXCEPT !.st = st, !.t = 0]
Sent(n) == BitOf(Memory[n \div 8 + 1], n % 8)
NextBit(d) == IF d.n = 8 * ScratchBytes - 1 THEN Go(d, "idle")
              ELSE Go([d EXCEPT !.n = @ + 1], "send")
Device ==
    CASE dev.st = "absent" -> dev
      [] dev.st = "idle" -> IF DQ \in Falling THEN Go(dev, "low") ELSE dev
      [] dev.st = "low" -> IF DQ \notin Rising THEN Stay
                           ELSE Go(dev, IF dev.t >= ResetMin THEN "wait" ELSE "idle")
      [] dev.st = "wait" -> IF dev.t < PresenceWait THEN Stay
                            ELSE Go([dev EXCEPT !.low = {DQ}], "presence")
      [] dev.st = "presence" -> IF dev.t < PresenceLen THEN Stay
                                ELSE Go([dev EXCEPT !.low = {}, !.n = 0, !.cmd = 0], "recv")
      [] dev.st = "recv" -> IF DQ \in Falling THEN Go(dev, "slot") ELSE dev
      [] dev.st = "slot" ->
            IF dev.t = ReadSample
            THEN [Stay EXCEPT !.cmd = @ + IF DQ \in pad THEN 2^dev.n ELSE 0]
            ELSE IF dev.t < SlotTotal THEN Stay
            ELSE IF dev.n < 7 THEN Go([dev EXCEPT !.n = @ + 1], "recv")
            ELSE Go([dev EXCEPT !.n = 0], IF dev.cmd = 190 THEN "send" ELSE "idle")
      [] dev.st = "send" ->
            IF DQ \notin Falling THEN dev
            ELSE IF Sent(dev.n) = 0 THEN Go([dev EXCEPT !.low = {DQ}], "drive")
            ELSE Go(dev, "rest")
      [] dev.st = "drive" -> IF dev.t < ReadDrive THEN Stay
                             ELSE Go([dev EXCEPT !.low = {}], "rest")
      [] dev.st = "rest" -> IF dev.t < SlotTotal THEN Stay ELSE NextBit(dev)

\* The scratchpad is published if the slave answered, and nothing if it is absent.
Served == IF dev.st = "absent" THEN mail[1] = 0 /\ mail[4] = 0
          ELSE mail[1] = 1 /\ mail[4] = 256 * Memory[2] + Memory[1]
=============================================================================
