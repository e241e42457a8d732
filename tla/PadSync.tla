------------------------------- MODULE PadSync ------------------------------
(***************************************************************************)
(* The two flops of attoio_macro.v that bring the pads to clk_iop, for the *)
(* timer and the SPI helper.  A vector with a bit per pad is a set of pads.*)
(***************************************************************************)
EXTENDS AttoBus
CONSTANT Pins
VARIABLES pad,    \* the levels outside
          sync1,  \* pad_in_iop_sync1
          sync2   \* pad_in_iop_sync
syncVars == <<sync1, sync2>>
SyncReset == sync1 = {} /\ sync2 = {}
Synchronise == sync1' = pad /\ sync2' = sync1
=============================================================================
