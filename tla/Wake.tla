-------------------------------- MODULE Wake --------------------------------
(***************************************************************************)
(* The inputs of attoio_gpio.v: the two-flop synchroniser of every pad and *)
(* the wake system behind it.  Synchroniser, edge detector and WAKE_FLAGS  *)
(* run on sysclk; WAKE_MASK, WAKE_EDGE and the clear lines are registers   *)
(* of clk_iop, so a clear stands for N edges of sysclk.  A vector of one   *)
(* bit per pad is the set of the pads whose bit is 1.                      *)
(***************************************************************************)
EXTENDS AttoBus
CONSTANT Pins
VARIABLES pad,          \* the levels outside
          sync1, sync2, \* the synchroniser; GPIO_IN reads sync2
          prev,         \* sync2 one edge earlier
          flags,        \* WAKE_FLAGS
          mask,         \* WAKE_MASK
          mode,         \* WAKE_EDGE
          clear         \* wake_clear_mask, all pads for wake_clear_all
wakeRegisters == <<sync1, sync2, prev, flags, mask, mode, clear>>

Modes == {"off", "rise", "fall", "both"}

WakeReset == /\ sync1 = {} /\ sync2 = {} /\ prev = {}
             /\ flags = {} /\ mask = {} /\ clear = {}
             /\ mode = [p \in Pins |-> "off"]

Synchronise == sync1' = pad /\ sync2' = sync1 /\ prev' = sync2

RiseEvents == sync2 \ prev
FallEvents == prev \ sync2
WakeEvents == {p \in RiseEvents : mode[p] \in {"rise", "both"}}
              \cup {p \in FallEvents : mode[p] \in {"fall", "both"}}

\* Mutant: the clear wins over an edge that arrives with it.
WakeFlags_ClearWins == flags' = (flags \cup WakeEvents) \ clear
WakeFlags == flags' = (flags \ clear) \cup WakeEvents
WakeLatch == flags \cap mask # {}

\* Mutant: WAKE_FLAGS clears as the legacy register does.
Clear_All ==
    clear' = IF ~ClkIop THEN clear
             ELSE IF Stores("WAKE_LATCH") \/ Stores("WAKE_FLAGS") THEN Pins ELSE {}
Clear ==
    clear' = IF ~ClkIop THEN clear
             ELSE IF Stores("WAKE_LATCH") THEN Pins
             ELSE IF Stores("WAKE_FLAGS") THEN core.op.v ELSE {}

Configure ==
    /\ mask' = IF Stores("WAKE_MASK") THEN core.op.v ELSE mask
    /\ mode' = IF Stores("WAKE_EDGE") THEN core.op.v ELSE mode

WakeStep == Synchronise /\ WakeFlags /\ Clear /\ Configure

\* Combinational reads.
WakeRead(reg) == CASE reg = "GPIO_IN" -> sync2
                   [] reg = "WAKE_FLAGS" -> flags
                   [] reg = "WAKE_MASK" -> mask
=============================================================================
