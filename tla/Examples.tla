------------------------------ MODULE Examples ------------------------------
(***************************************************************************)
(* The examples of sw/, each alone on the processor of Iop with the device *)
(* it was written for.  Which one runs is chosen at the start and kept in  *)
(* image; a module per group of them says what its program is (Main and    *)
(* the bodies of its calls), what is outside the pads (Fresh, Device, Up   *)
(* and Low) and when enough has been seen (Over).                          *)
(***************************************************************************)
EXTENDS Iop
CONSTANTS Images,  \* the images that are run
          CapMod   \* 2^16, see Ir

exVars == <<phase, apb, coreVars, pad, syncVars, timerVars, gpioVars, wakeVars, pace, dev, image>>
I2c == INSTANCE I2cEeprom
Tm == INSTANCE Tm1637
Ht == INSTANCE Ht1621
Hd == INSTANCE Hd44780
Ow == INSTANCE OneWire
Cap == INSTANCE CapTouch
Ua == INSTANCE Uart
Ws == INSTANCE Ws2812
Ir == INSTANCE Ir
Stp == INSTANCE Stepper
Wk == INSTANCE Wakes
Pe == INSTANCE Periodic

\* The module of the image.
Of(i2c, tm, ht, hd, ow, cap, ua, ws, ir, stp, wk, pe) ==
    CASE image = "i2c_eeprom" -> i2c [] image = "tm1637" -> tm [] image = "ht1621" -> ht
      [] image = "hd44780" -> hd [] image = "onewire" -> ow [] image = "cap_touch" -> cap
      [] image \in {"uart_tx", "uart_echo"} -> ua [] image = "ws2812" -> ws
      [] image \in {"ir_tx", "ir_rx", "ir_learn"} -> ir [] image = "stepper" -> stp
      [] image \in {"wake_test", "bldc6", "irq_aggregate", "dc_tacho"} -> wk [] OTHER -> pe
Main ==
    Of(I2c!Main, Tm!Main, Ht!Main, Hd!Main, Ow!Main, Cap!Main, Ua!Main,
       Ws!Main, Ir!Main, Stp!Main, Wk!Main, Pe!Main)
Paces ==
    Of(I2c!Paces, Tm!Paces, Ht!Paces, Hd!Paces, Ow!Paces, Cap!Paces, Ua!Paces,
       Ws!Paces, Ir!Paces, Stp!Paces, Wk!Paces, Pe!Paces)
Body(f, x) ==
    IF f \in Idioms THEN Idiom(f, x)
    ELSE Of(I2c!Body(f, x), Tm!Body(f, x), Ht!Body(f, x), Hd!Body(f, x),
       Ow!Body(f, x), Cap!Body(f, x), Ua!Body(f, x), Ws!Body(f, x),
       Ir!Body(f, x), Stp!Body(f, x), Wk!Body(f, x), Pe!Body(f, x))
Fresh ==
    Of(I2c!Fresh, Tm!Fresh, Ht!Fresh, Hd!Fresh, Ow!Fresh, Cap!Fresh, Ua!Fresh,
       Ws!Fresh, Ir!Fresh, Stp!Fresh, Wk!Fresh, Pe!Fresh)
Devices ==
    Of({I2c!Device}, {Tm!Device}, {Ht!Device}, {Hd!Device}, {Ow!Device},
       {Cap!Device}, {Ua!Device}, {Ws!Device}, {Ir!Device}, {Stp!Device},
       Wk!Devices, {Pe!Device})
Up ==
    Of(I2c!Up, Tm!Up, {}, {}, Ow!Up, Cap!Up, Ua!Up, {}, Ir!Up, {}, Wk!Up, {})
Low ==
    Of(I2c!Low, Tm!Low, {}, {}, Ow!Low, {}, {}, {}, {}, {}, {}, {})
Over ==
    Of(TRUE, TRUE, TRUE, TRUE, TRUE, TRUE, TRUE, TRUE, Ir!Over, Stp!Over,
       Wk!Over, Pe!Over)
-----------------------------------------------------------------------------
\* Nothing is left to run, to be interrupted by or to wait for outside.
Ended == todo = <<>> /\ Ready /\ ~Interrupted /\ Over /\ Settled

Init == /\ image \in Images /\ pace \in Paces
        /\ IopInit(Main) /\ pad = {} /\ dev \in Fresh
Clock == /\ ~Ended /\ UNCHANGED <<pace, image>>
         /\ Registers /\ Core(Body(Head(todo).call, Head(todo).arg))
         /\ dev' \in Devices /\ pad' = Lines(Up, Low)'
Finished == Ended /\ UNCHANGED exVars
Next == Clock \/ Finished
Spec == Init /\ [][Next]_exVars /\ WF_exVars(Clock)
-----------------------------------------------------------------------------
\* On the two-wire busses data changes while the clock is low, and under a high
\* clock only to begin or end a transfer: the master never frames one by mistake,
\* whichever of its stores and of the slave's answers comes first.
CleanBus ==
    Of(I2c!Clean, Tm!Clean, TRUE, TRUE, TRUE, TRUE, TRUE, TRUE, TRUE, TRUE,
       TRUE, TRUE)

\* Once the image has published that it is done, both sides agree: what the device
\* decoded from the pads is what the program meant to send, and what the program
\* published is what the device holds.
Sentinel == 0 \in DOMAIN mail /\ mail[0] # 0
DeviceServed ==
    Sentinel =>
        Of(I2c!Served, Tm!Served, Ht!Served, Hd!Served, Ow!Served, Cap!Served,
           Ua!Served, TRUE, Ir!Served, TRUE, TRUE, TRUE)

\* A delay of n cycles is over n cycles after its start and a few accesses later:
\* its match is never missed for a wrap of the counter.
DelayKept ==
    ("delay" \in DOMAIN var /\ var.delay > 0) => cnt <= var.delay + 6 * (pace + 2)

\* What a handler plays on its pads is what its samples say, tick for tick: the
\* width of a pulse, the density of a pulse train, the pitch of three voices, the
\* duty of four channels.
LevelsPlayed ==
    Of(TRUE, TRUE, TRUE, TRUE, TRUE, TRUE, TRUE, TRUE, TRUE, TRUE, TRUE,
       Pe!Levels)

\* An edge of a waveform comes at its time: the pulses of an LED strip at their
\* widths, a frame or a recording at absolute times, a step after its interval, a
\* tone after exactly half its period although the pitch changes under way.
EdgesOnTime ==
    Of(TRUE, TRUE, TRUE, TRUE, TRUE, TRUE, TRUE, Ws!EdgesKept, Ir!EdgesKept,
       Stp!EdgesKept, TRUE, Pe!EdgesKept)

\* When all is quiet every edge and every tick has been counted once, by handlers
\* that serve several sources and clear flags of which more may have come.
EventsCounted ==
    Ended =>
        Of(TRUE, TRUE, TRUE, TRUE, TRUE, TRUE, TRUE, TRUE, Ir!Counted, Stp!Counted,
           Wk!Counted, Pe!Counted)

\* The two gates of a half bridge are never on together, between the stores of a
\* commutation either.
GatesApart == Wk!GatesApart

\* Every image comes to its end: no busy wait and no wait for an interrupt is left
\* without what ends it.
Ends == <>Ended
=============================================================================
