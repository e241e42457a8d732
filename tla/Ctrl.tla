-------------------------------- MODULE Ctrl --------------------------------
(***************************************************************************)
(* attoio_ctrl.v: the two doorbells, the reset bit and the NMI pulse.  All *)
(* its registers are on sysclk.  A write of the host lasts one edge.  The  *)
(* core drives a write for a whole clk_iop cycle, so it is applied on each *)
(* of the N sysclk edges of that cycle, and it comes after the host's      *)
(* assignment in the source, so it wins on all of them.                    *)
(*                                                                         *)
(* A host write to a doorbell carries its data bit v; one to IOP_CTRL the  *)
(* bits reset and nmi.  Byte strobes are not looked at by these registers. *)
(***************************************************************************)
EXTENDS AttoBus
VARIABLES h2c,       \* doorbell_h2c
          c2h,       \* doorbell_c2h
          iopReset,  \* ctrl_reset
          nmi,       \* ctrl_nmi, the request line to the core
          nmiPulse   \* ctrl_nmi_pulse
ctrlVars == <<h2c, c2h, iopReset, nmi, nmiPulse>>

HostWrites(reg) == Access({reg}) /\ apb.op.wr
IopWrites(reg) == Active({reg}) /\ core.op.wr

CtrlInit == /\ h2c = FALSE /\ c2h = FALSE
            /\ iopReset = TRUE
            /\ nmi = FALSE /\ nmiPulse = FALSE

\* Set by the host's 1, cleared by the core's 1.
H2C ==
    h2c' = IF IopWrites("H2C") /\ core.op.v = 1 THEN FALSE
           ELSE IF HostWrites("H2C") /\ apb.op.v = 1 THEN TRUE ELSE h2c

\* Set to what the core writes, cleared by the host's 1.
C2H ==
    c2h' = IF IopWrites("C2H") THEN core.op.v = 1
           ELSE IF HostWrites("C2H") /\ apb.op.v = 1 THEN FALSE ELSE c2h

ResetRegister ==
    iopReset' = IF HostWrites("IOP_CTRL") THEN apb.op.reset ELSE iopReset

\* The line rises with a host write and falls at the first edge that finds
\* nmiPulse low again, a write at that very edge included.
NmiFires == HostWrites("IOP_CTRL") /\ apb.op.nmi
Nmi ==
    /\ nmiPulse' = NmiFires
    /\ nmi' = IF nmi /\ ~nmiPulse THEN FALSE ELSE nmi \/ NmiFires

CtrlStep == H2C /\ C2H /\ ResetRegister /\ Nmi

\* Combinational reads.
Doorbell(reg) == IF reg = "H2C" THEN h2c ELSE c2h
=============================================================================
