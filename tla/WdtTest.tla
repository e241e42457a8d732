------------------------------ MODULE WdtTest -------------------------------
(***************************************************************************)
(* The watchdog and firmware that arms it, sw/wdt_test/main.c: main() pets *)
(* three times and then spins; __isr(), entered by the NMI, reports to the *)
(* mailbox.  main() may stop or be slow anywhere, which is what a watchdog *)
(* is for; an NMI and its handler are not slow, which stands for a Reload  *)
(* much longer than the handler.  The host may reset the core and let it   *)
(* boot again at any edge.  The mailbox is atomic (Memmux).                *)
(***************************************************************************)
EXTENDS Wdt
CONSTANTS Reload,   \* the value main() pets with
          Reboots   \* how often the host resets the core at most
ASSUME WdtAssumption ==
    CountMod \in Nat \ {0} /\ Reload \in 1..(CountMod - 1) /\ Reboots \in Nat

VARIABLES ipc,      \* the next access
          ret,      \* where main() goes on after the handler
          mbox,     \* mailbox words 0, 4 and 6
          nmiCount, \* nmi_count
          reboots,
          idle,     \* clk_iop edges counted since the last pet, Reload at most
          alerted   \* the host has seen irq_to_host since the boot
testVars == <<phase, apb, core, wdtVars, ipc, ret, mbox, nmiCount, reboots,
              idle, alerted>>

Mail(w, v) == [sel |-> "B", wr |-> TRUE, w |-> w, v |-> v]
Pet == [sel |-> "WDT_COUNT", wr |-> TRUE, v |-> Reload]
\* Mutant: wdt_enable(0).
Enable_Silent == [sel |-> "WDT_CTL", wr |-> TRUE, v |-> [en |-> TRUE, alert |-> FALSE]]
Enable == [sel |-> "WDT_CTL", wr |-> TRUE, v |-> [en |-> TRUE, alert |-> TRUE]]
Disable == [sel |-> "WDT_CTL", wr |-> TRUE, v |-> [en |-> FALSE, alert |-> FALSE]]
ReadStatus == [sel |-> "WDT_STATUS", wr |-> FALSE]
Acknowledge == [sel |-> "WDT_STATUS", wr |-> TRUE, v |-> 1]

Main == <<"mark0", "zero4", "zero6", "pet", "enable", "pet1", "pet2", "pet3",
          "mark1", "spin">>
\* Mutants: the sentinel first; no acknowledgement.
Isr_SentinelFirst == <<"mark2", "count", "status", "log", "ack", "disable", "return">>
Isr_NoAck == <<"count", "status", "log", "disable", "mark2", "return">>
Isr == <<"count", "status", "log", "ack", "disable", "mark2", "return">>
InIsr == \E i \in DOMAIN Isr : ipc = Isr[i]

IopOp(pc) ==
    CASE pc = "mark0" -> {Mail(0, 0)} [] pc = "mark1" -> {Mail(0, 1)}
      [] pc = "zero4" -> {Mail(4, 0)} [] pc = "zero6" -> {Mail(6, 0)}
      [] pc \in {"pet", "pet1", "pet2", "pet3"} -> {Pet}
      [] pc = "enable" -> {Enable}
      [] pc = "count" -> {Mail(4, nmiCount)}
      [] pc = "status" -> {ReadStatus}
      [] pc = "log" -> {Mail(6, ret.status)}
      [] pc = "ack" -> {Acknowledge} [] pc = "disable" -> {Disable}
      [] pc = "mark2" -> {Mail(0, 2)}
      [] pc \in {"spin", "return"} -> {}

Loaded == ClkIop /\ core.st = "wait"
Stored == ClkIop /\ core.st = "req" /\ core.op.wr
CoreDone == Loaded \/ Stored

TakeNmi == /\ ClkIop /\ core.st = "idle" /\ WdtNmi /\ ~InIsr
           /\ core' = Idle
           /\ ret' = [pc |-> ipc, status |-> 0] /\ ipc' = Isr[1]
           /\ nmiCount' = nmiCount + 1 /\ UNCHANGED mbox
Return == /\ ClkIop /\ core.st = "idle" /\ ipc = "return" /\ ipc' = ret.pc
          /\ UNCHANGED <<ret, nmiCount, mbox>>
AccessDone ==
    /\ CoreDone
    /\ \E prog \in {Main, Isr} : \E i \in DOMAIN prog :
           ipc = prog[i] /\ i + 1 \in DOMAIN prog /\ ipc' = prog[i + 1]
    /\ ret' = IF ipc = "status" THEN [ret EXCEPT !.status = IF expired THEN 1 ELSE 0]
              ELSE ret
    /\ mbox' = IF Stores("B") THEN [mbox EXCEPT ![core.op.w] = core.op.v] ELSE mbox
    /\ UNCHANGED nmiCount
Firmware == TakeNmi \/ Return \/ AccessDone
MayRest == ~WdtNmi /\ ~InIsr
-----------------------------------------------------------------------------
TestInit ==
    /\ BusInit /\ WdtReset
    /\ ipc = Main[1] /\ ret = [pc |-> "spin", status |-> 0] /\ nmiCount = 0
    /\ mbox \in [{0, 4, 6} -> {0, 2}]
    /\ reboots = 0 /\ idle = 0 /\ alerted = FALSE

Idle1 == IF idle < Reload THEN idle + 1 ELSE idle
History ==
    /\ idle' = IF ~ClkIop THEN idle
               ELSE IF Stores("WDT_COUNT") THEN 0 ELSE IF en THEN Idle1 ELSE idle
    /\ alerted' = (HostAlert \/ (alerted /\ ~(Stored /\ ipc = "mark0")))

Clock ==
    /\ ClockStep /\ WdtStep
    /\ CoreStep(IF core.st = "idle" THEN IopOp(ipc) ELSE {}, FALSE, FALSE)
    /\ \/ Firmware
       \/ /\ ~CoreDone /\ (~ClkIop \/ core'.st # "idle" \/ MayRest)
          /\ UNCHANGED <<ipc, ret, mbox, nmiCount>>
    /\ History
    /\ UNCHANGED <<apb, reboots>>

\* IOP_CTRL.reset set and cleared again; .bss, and nmi_count with it, is zeroed
\* by crt0.S, the mailbox is not.
Reboot ==
    /\ reboots < Reboots /\ reboots' = reboots + 1
    /\ cnt' = 0 /\ en' = FALSE /\ alertEn' = FALSE
    /\ expired' = FALSE /\ expirePulse' = FALSE
    /\ core' = Idle /\ ipc' = Main[1] /\ nmiCount' = 0
    /\ UNCHANGED <<phase, apb, ret, mbox, idle, alerted>>

TestNext == Clock \/ Reboot

\* The clock runs; main() may hang anywhere.
TestSpec == TestInit /\ [][TestNext]_testVars /\ WF_testVars(Clock)
-----------------------------------------------------------------------------
TestTypeOK ==
    /\ phase \in 0..(N - 1) /\ apb = Idle
    /\ core = Idle \/ core.st \in {"req", "wait"}
    /\ cnt \in 0..Reload
    /\ <<en, alertEn, expired, expirePulse, alerted>>
       \in BOOLEAN \X BOOLEAN \X BOOLEAN \X BOOLEAN \X BOOLEAN
    /\ ret.status \in {0, 1} /\ mbox[4] \in Nat /\ mbox[6] \in 0..2
    /\ idle \in 0..Reload /\ nmiCount \in Nat

\* The watchdog expires Reload edges after the last pet, neither earlier nor
\* later, and a pet at the very edge it would have expired at is in time.
ExpiresOnTime == expirePulse => idle = Reload /\ cnt = 0
NeverLate == (en /\ idle = Reload) => expired \/ ipc = "disable"

\* The handler's W1C and disable leave nothing behind that enters it again,
\* also where main() pets as the count expires: tb_wdt.v, "nmi_count".
ReportsOnce == nmiCount <= 1

\* The host finds the handler's report complete: tb_wdt.v, "Observe that
\* irq_to_host pulsed", "mailbox[4] (nmi_count) = 1 and mailbox[6] & 1".
ReportComplete ==
    (mbox[0] = 2 /\ ipc # "mark0") => mbox[4] = 1 /\ mbox[6] = 1 /\ alerted

\* A hang is caught: once enabled, the watchdog has the handler report unless
\* main() is started again.
HangCaught == en ~> (mbox[0] = 2 \/ ipc = "mark0")
=============================================================================
