--------------------------------- MODULE Wdt --------------------------------
(***************************************************************************)
(* attoio_wdt.v: the 16-bit watchdog, all of it on clk_iop.  Where the     *)
(* source assigns a register twice in one cycle the later assignment, the  *)
(* store, wins; a store to WDT_COUNT is the pet.                           *)
(***************************************************************************)
EXTENDS AttoBus
CONSTANT CountMod  \* 2^16
VARIABLES cnt,
          en, alertEn,  \* WDT_CTL
          expired,      \* WDT_STATUS
          expirePulse
wdtVars == <<cnt, en, alertEn, expired, expirePulse>>

\* rst_n, and IOP_CTRL.reset with it (attoio_macro.v).
WdtReset == /\ cnt = 0 /\ en = FALSE /\ alertEn = FALSE
            /\ expired = FALSE /\ expirePulse = FALSE

\* Mutants: a pet does not stop the expiry it comes with; it comes at 0, not 1.
WillExpire_NoGate == en /\ cnt = 1
WillExpire_AtZero == en /\ cnt = 0 /\ ~Stores("WDT_COUNT")
WillExpire == en /\ cnt = 1 /\ ~Stores("WDT_COUNT")

\* Mutant: the count goes on from 0.
Count_NoFloor ==
    cnt' = IF Stores("WDT_COUNT") THEN core.op.v % CountMod
           ELSE IF en THEN (cnt + CountMod - 1) % CountMod ELSE cnt
Count ==
    cnt' = IF Stores("WDT_COUNT") THEN core.op.v % CountMod
           ELSE IF en /\ cnt # 0 THEN cnt - 1 ELSE cnt

Expire ==
    /\ expirePulse' = WillExpire
    /\ expired' = IF Stores("WDT_STATUS") /\ core.op.v = 1 THEN FALSE
                  ELSE expired \/ WillExpire

Control ==
    /\ en' = IF Stores("WDT_CTL") THEN core.op.v.en ELSE en
    /\ alertEn' = IF Stores("WDT_CTL") THEN core.op.v.alert ELSE alertEn

WdtStep == IF ClkIop THEN Count /\ Expire /\ Control ELSE UNCHANGED wdtVars

\* Held, not a pulse: the core takes an NMI between instructions only.  Mutant:
\* one cycle, as the head of the source says.
WdtNmi_Pulse == expirePulse
WdtNmi == expired
HostAlert == expirePulse /\ alertEn
=============================================================================
