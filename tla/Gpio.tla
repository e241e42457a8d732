-------------------------------- MODULE Gpio --------------------------------
(***************************************************************************)
(* The outputs of attoio_gpio.v with their set and clear aliases.  A       *)
(* vector with a bit per pad is a set of pads.                             *)
(***************************************************************************)
EXTENDS PadSync
VARIABLES out,  \* GPIO_OUT
          oe    \* GPIO_OE
gpioVars == <<out, oe>>
GpioReset == out = {} /\ oe = {}

\* A register written as a whole or through its aliases.
Written(old, reg, set, clr) ==
    CASE Stores(reg) -> core.op.v
      [] Stores(set) -> old \cup core.op.v
      [] Stores(clr) -> old \ core.op.v
      [] OTHER -> old
GpioStep == /\ out' = Written(out, "GPIO_OUT", "GPIO_OUT_SET", "GPIO_OUT_CLR")
            /\ oe' = Written(oe, "GPIO_OE", "GPIO_OE_SET", "GPIO_OE_CLR")

\* The levels driven when another peripheral takes some of the pads.
Overridden(levels, pads, by) == (levels \ pads) \cup (by \cap pads)
=============================================================================
