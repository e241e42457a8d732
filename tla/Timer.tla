-------------------------------- MODULE Timer -------------------------------
(***************************************************************************)
(* attoio_timer.v, all of it on clk_iop: the 24-bit counter with           *)
(* auto-reload, four compare channels that raise a flag and may toggle a   *)
(* pad, and the capture channel.  Where the source assigns a register      *)
(* twice in one cycle the later assignment, the store, wins.               *)
(*                                                                         *)
(* TIMER_STATUS is the set of its bits that are 1: a channel's number for  *)
(* its match flag, CAPTURED for the capture flag.  A vector with a bit per *)
(* pad is a set of pads.                                                   *)
(***************************************************************************)
EXTENDS PadSync
CONSTANTS CountMod,  \* 2^24
          Channels   \* 0..3 or those of them in use
CAPTURED == 4
ASSUME ChannelAssumption == Channels \subseteq 0..3 /\ CountMod \in Nat \ {0}

VARIABLES cnt,
          ctl,     \* TIMER_CTL without its reset bit
          cmp,     \* TIMER_CMP0..3
          status,  \* TIMER_STATUS
          capVal,  \* TIMER_CAP
          padPrev, \* pad_in_prev
          padVal   \* pad_val_r
timerVars == <<cnt, ctl, cmp, status, capVal, padPrev, padVal>>

CtlOff == [en |-> FALSE, auto |-> FALSE, pad |-> CHOOSE p \in Pins : TRUE,
           edge |-> "off", irq |-> FALSE]
CmpOff == [val |-> 0, pad |-> CHOOSE p \in Pins : TRUE, en |-> FALSE,
           irq |-> FALSE, toggle |-> FALSE]

\* rst_n, and IOP_CTRL.reset with it.
TimerReset ==
    /\ cnt = 0 /\ ctl = CtlOff /\ cmp = [i \in Channels |-> CmpOff]
    /\ status = {} /\ capVal = 0 /\ padPrev = {} /\ padVal = {}

Matches == {i \in Channels : ctl.en /\ cmp[i].en /\ cnt = cmp[i].val}

\* Mutant: the reload is one count late.
Count_LateReload ==
    cnt' = IF Stores("TIMER_CTL") /\ core.op.v.reset THEN 0
           ELSE IF ~ctl.en THEN cnt
           ELSE IF ctl.auto /\ 0 \in Channels /\ cnt > cmp[0].val THEN 0
           ELSE (cnt + 1) % CountMod
Count ==
    cnt' = IF Stores("TIMER_CTL") /\ core.op.v.reset THEN 0
           ELSE IF ~ctl.en THEN cnt
           ELSE IF ctl.auto /\ 0 \in Matches THEN 0 ELSE (cnt + 1) % CountMod

Rises == ctl.pad \in sync2 \ padPrev
Falls == ctl.pad \in padPrev \ sync2
CapEvent == \/ ctl.edge \in {"rise", "both"} /\ Rises
            \/ ctl.edge \in {"fall", "both"} /\ Falls
Capture == capVal' = (IF CapEvent THEN cnt ELSE capVal) /\ padPrev' = sync2

\* The bits a store of TIMER_STATUS clears.  Mutant: all of them.
Cleared_All == IF Stores("TIMER_STATUS") THEN Channels \cup {CAPTURED} ELSE {}
Cleared == IF Stores("TIMER_STATUS") THEN core.op.v ELSE {}
Events == Matches \cup (IF CapEvent THEN {CAPTURED} ELSE {})
Status == status' = (status \cup Events) \ Cleared

\* Two channels that match on one pad in one cycle toggle it once.
Toggled == {cmp[i].pad : i \in {j \in Matches : cmp[j].toggle}}
Toggle == padVal' = (padVal \ Toggled) \cup (Toggled \ padVal)

Configure ==
    /\ ctl' = IF Stores("TIMER_CTL") THEN core.op.v.ctl ELSE ctl
    /\ cmp' = IF Stores("TIMER_CMP") /\ core.op.i \in Channels
              THEN [cmp EXCEPT ![core.op.i] = core.op.v] ELSE cmp

TimerStep ==
    IF ClkIop THEN Count /\ Capture /\ Status /\ Toggle /\ Configure
    ELSE UNCHANGED timerVars

TimerIrq == \/ \E i \in status \cap Channels : cmp[i].irq
            \/ CAPTURED \in status /\ ctl.irq

\* timer_pad_sel: the pads taken from GPIO_OUT.
TimerPads == {cmp[i].pad : i \in {j \in Channels : cmp[j].en /\ cmp[j].toggle}}
=============================================================================
