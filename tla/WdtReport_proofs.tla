-------------------------- MODULE WdtReport_proofs --------------------------
(***************************************************************************)
(* Proofs about the handler of sw/wdt_test/main.c: it is entered once and  *)
(* its report is complete, for every value the firmware pets with that is  *)
(* longer than the handler's way from the last pet to wdt_enable(0).       *)
(***************************************************************************)
EXTENDS Wdt_proofs

\* clk_iop edges from a pet to the line the firmware stands at, when the
\* watchdog's NMI is pending and nothing on the way rests.
Latest(pc) ==
    CASE pc \in Pets \cup {"mark1"} -> 0 [] pc = "spin" -> 2 [] pc = "count" -> 3
      [] pc = "status" -> 5 [] pc = "log" -> 8 [] pc = "ack" -> 10
      [] pc = "disable" -> 12 [] OTHER -> 14
\* and from there to the bus cycle it is in.
Under(st) == CASE st = "idle" -> 0 [] st = "req" -> 1 [] OTHER -> 2

\* The handler has reported and main() goes on.
Handled == ipc \in Running /\ nmiCount = 1

\* The flag stands until the handler's W1C and never after it.
EntryOK ==
    /\ ipc \in Unarmed \cup {"enable"} => nmiCount = 0
    /\ ipc \in Running => nmiCount = 0 \/ (nmiCount = 1 /\ ~en /\ ~expired)
    /\ ipc \in Handler => nmiCount = 1
    /\ ipc \in {"count", "status", "log", "ack"} => expired
    /\ ipc \in {"disable", "mark2", "return"} => ~expired
    /\ ipc \in {"mark2", "return"} => ~en

\* A count that a pet started again after the expiry does not end before the
\* handler has disabled the watchdog; without such a pet it stands at 0.
Racing == (expired /\ ipc \in Running) \/ ipc \in Handler \ {"mark2", "return"}
Prompt == cnt = 0 \/ idle <= Latest(ipc) + Under(core.st)
PromptOK == Racing => Prompt

MailOK ==
    /\ mbox[0] = 2 => ipc \in {"mark0", "return"} \/ Handled
    /\ ipc \in Handler \ {"count"} \/ Handled => mbox[4] = 1
    /\ ipc \in {"ack", "disable", "mark2", "return"} \/ Handled => mbox[6] = 1
    /\ ipc = "log" => ret.status = 1

\* The host is alerted at the expiry, before the handler runs.
AlertOK ==
    /\ en => alertEn
    /\ expired => alerted \/ (expirePulse /\ alertEn)
    /\ ipc \in Handler \/ Handled => alerted

ReportInv == WdtInv /\ EntryOK /\ PromptOK /\ MailOK /\ AlertOK

LEMMA ReportImplies == ReportInv => ReportsOnce /\ ReportComplete
  <1> SUFFICES ASSUME ReportInv PROVE ReportsOnce /\ ReportComplete
    OBVIOUS
  <1> USE DEF ReportInv, EntryOK, MailOK, AlertOK
  <1>1. ipc \in Unarmed \cup {"enable"} \cup Running \cup Handler
    BY DEF WdtInv, ProgramOK, Pcs
  <1>2. ReportsOnce
    BY <1>1 DEF ReportsOnce
  <1>3. ReportComplete
    BY DEF ReportComplete, Handler, Handled
  <1> QED
    BY <1>2, <1>3

LEMMA ReportInit == TestInit => ReportInv
  <1> SUFFICES ASSUME TestInit PROVE ReportInv
    OBVIOUS
  <1>1. ipc = "mark0" /\ nmiCount = 0 /\ ~en /\ ~expired
    BY DEF TestInit, WdtReset, Main
  <1> QED
    BY <1>1, InvInit
    DEF ReportInv, EntryOK, PromptOK, Racing, MailOK, AlertOK, Handled, Running,
        Handler, Unarmed
-----------------------------------------------------------------------------
\* One access is followed by the next, line by line.
Follows ==
    {<<"mark0", "zero4">>, <<"zero4", "zero6">>, <<"zero6", "pet">>,
     <<"pet", "enable">>, <<"enable", "pet1">>, <<"pet1", "pet2">>,
     <<"pet2", "pet3">>, <<"pet3", "mark1">>, <<"mark1", "spin">>,
     <<"count", "status">>, <<"status", "log">>, <<"log", "ack">>,
     <<"ack", "disable">>, <<"disable", "mark2">>, <<"mark2", "return">>}

LEMMA NextLine == ASSUME AccessDone PROVE <<ipc, ipc'>> \in Follows
  <1>1. CASE \E i \in DOMAIN Main : ipc = Main[i] /\ i + 1 \in DOMAIN Main /\ ipc' = Main[i + 1]
    <2>1. PICK i \in 1..9 : ipc = Main[i] /\ ipc' = Main[i + 1]
      BY <1>1 DEF Main
    <2> QED
      BY <2>1 DEF Main, Follows
  <1>2. CASE \E i \in DOMAIN Isr : ipc = Isr[i] /\ i + 1 \in DOMAIN Isr /\ ipc' = Isr[i + 1]
    <2>1. PICK i \in 1..6 : ipc = Isr[i] /\ ipc' = Isr[i + 1]
      BY <1>2 DEF Isr
    <2> QED
      BY <2>1 DEF Isr, Follows
  <1> QED
    BY <1>1, <1>2 DEF AccessDone

\* The line that completes is a load of WDT_STATUS or the store it names.
LEMMA LineDone ==
  ASSUME WdtInv, AccessDone
  PROVE  /\ ClkIop /\ core.op \in IopOp(ipc)
         /\ ipc = "status" => core.st = "wait"
         /\ ipc # "status" => core.st = "req" /\ core.op.wr
  <1>1. ClkIop /\ (core.st = "wait" \/ (core.st = "req" /\ core.op.wr))
    BY DEF AccessDone, CoreDone, Loaded, Stored
  <1>2. core.op \in IopOp(ipc) /\ (core.st = "wait" => ~core.op.wr)
    BY <1>1 DEF WdtInv, ProgramOK, Idle
  <1>3. ipc = "status" => ~core.op.wr
    <2>1. ipc = "status" => IopOp(ipc) = {ReadStatus}
      BY DEF IopOp
    <2> QED
      BY <1>2, <2>1 DEF ReadStatus
  <1>4. ipc # "status" => core.op.wr
    <2>1. <<ipc, ipc'>> \in Follows
      BY NextLine
    <2>2. ipc # "status" =>
            \/ \E w \in {0, 4, 6}, v \in {0, 1, 2, nmiCount, ret.status} :
                   IopOp(ipc) = {Mail(w, v)}
            \/ IopOp(ipc) \in {{Pet}, {Enable}, {Disable}, {Acknowledge}}
      BY <2>1 DEF Follows, IopOp
    <2> QED
      BY <1>2, <2>2 DEF Mail, Pet, Enable, Disable, Acknowledge
  <1> QED
    BY <1>1, <1>2, <1>3, <1>4

LEMMA LineStores ==
  ASSUME WdtInv, AccessDone
  PROVE  /\ Stores("WDT_COUNT") <=> ipc \in Pets
         /\ Stores("WDT_CTL") <=> ipc \in {"enable", "disable"}
         /\ Stores("WDT_STATUS") <=> ipc = "ack"
  <1>1. /\ ClkIop /\ core.op \in IopOp(ipc) /\ (ipc = "status" => core.st = "wait")
        /\ ipc # "status" => core.st = "req" /\ core.op.wr
    BY LineDone
  <1>2. ipc # "status" => \A reg : Stores(reg) <=> core.op.sel = reg
    BY <1>1 DEF Stores, Active
  <1>3. ipc = "status" => \A reg : ~Stores(reg)
    BY <1>1 DEF Stores, Active
  <1>4. <<ipc, ipc'>> \in Follows
    BY NextLine
  <1>5. CASE ipc \in Pets
    <2>1. core.op = Pet
      BY <1>1, <1>5 DEF IopOp, Pets
    <2> QED
      BY <1>2, <1>5, <2>1 DEF Pet, Pets
  <1>6. CASE ipc \in {"enable", "disable"}
    <2>1. core.op \in {Enable, Disable}
      BY <1>1, <1>6 DEF IopOp
    <2> QED
      BY <1>2, <1>6, <2>1 DEF Enable, Disable, Pets
  <1>7. CASE ipc = "ack"
    <2>1. core.op = Acknowledge
      BY <1>1, <1>7 DEF IopOp
    <2> QED
      BY <1>2, <1>7, <2>1 DEF Acknowledge, Pets
  <1>8. CASE ipc = "status"
    BY <1>3, <1>8 DEF Pets
  <1>9. CASE ipc \in {"mark0", "zero4", "zero6", "mark1", "count", "log", "mark2"}
    <2>1. \E w, v : core.op = Mail(w, v)
      BY <1>1, <1>9 DEF IopOp
    <2> QED
      BY <1>2, <1>9, <2>1 DEF Mail, Pets
  <1> QED
    BY <1>4, <1>5, <1>6, <1>7, <1>8, <1>9 DEF Follows, Pets

LEMMA MailStored ==
  ASSUME WdtInv, AccessDone
  PROVE  /\ mbox'[0] = IF ipc = "mark0" THEN 0 ELSE IF ipc = "mark1" THEN 1
                       ELSE IF ipc = "mark2" THEN 2 ELSE mbox[0]
         /\ mbox'[4] = IF ipc = "zero4" THEN 0 ELSE IF ipc = "count" THEN nmiCount
                       ELSE mbox[4]
         /\ mbox'[6] = IF ipc = "zero6" THEN 0 ELSE IF ipc = "log" THEN ret.status
                       ELSE mbox[6]
  <1>1. /\ ClkIop /\ core.op \in IopOp(ipc) /\ (ipc = "status" => core.st = "wait")
        /\ ipc # "status" => core.st = "req" /\ core.op.wr
    BY LineDone
  <1>2. mbox \in [{0, 4, 6} -> Nat]
    BY DEF WdtInv, RegistersOK
  <1>3. mbox' = IF Stores("B") THEN [mbox EXCEPT ![core.op.w] = core.op.v] ELSE mbox
    BY DEF AccessDone
  <1>4. <<ipc, ipc'>> \in Follows
    BY NextLine
  <1>5. ASSUME NEW w \in {0, 4, 6}, NEW v, core.op = Mail(w, v), ipc # "status"
        PROVE  mbox' = [mbox EXCEPT ![w] = v]
    <2>1. core.op.sel = "B" /\ core.op.w = w /\ core.op.v = v
      BY <1>5 DEF Mail
    <2>2. Stores("B")
      BY <1>1, <1>5, <2>1 DEF Stores, Active
    <2> QED
      BY <1>3, <2>1, <2>2
  <1>6. CASE ipc = "mark0"
    <2>1. core.op = Mail(0, 0)
      BY <1>1, <1>6 DEF IopOp
    <2> QED
      BY <1>2, <1>5, <1>6, <2>1
  <1>7. CASE ipc = "mark1"
    <2>1. core.op = Mail(0, 1)
      BY <1>1, <1>7 DEF IopOp
    <2> QED
      BY <1>2, <1>5, <1>7, <2>1
  <1>8. CASE ipc = "mark2"
    <2>1. core.op = Mail(0, 2)
      BY <1>1, <1>8 DEF IopOp
    <2> QED
      BY <1>2, <1>5, <1>8, <2>1
  <1>9. CASE ipc = "zero4"
    <2>1. core.op = Mail(4, 0)
      BY <1>1, <1>9 DEF IopOp
    <2> QED
      BY <1>2, <1>5, <1>9, <2>1
  <1>10. CASE ipc = "count"
    <2>1. core.op = Mail(4, nmiCount)
      BY <1>1, <1>10 DEF IopOp
    <2> QED
      BY <1>2, <1>5, <1>10, <2>1
  <1>11. CASE ipc = "zero6"
    <2>1. core.op = Mail(6, 0)
      BY <1>1, <1>11 DEF IopOp
    <2> QED
      BY <1>2, <1>5, <1>11, <2>1
  <1>12. CASE ipc = "log"
    <2>1. core.op = Mail(6, ret.status)
      BY <1>1, <1>12 DEF IopOp
    <2> QED
      BY <1>2, <1>5, <1>12, <2>1
  <1>13. CASE ipc \in Pets \cup {"enable", "disable", "ack", "status"}
    <2>1. ~Stores("B")
      <3>1. ipc # "status" => Stores("WDT_COUNT") \/ Stores("WDT_CTL") \/ Stores("WDT_STATUS")
        BY <1>13, LineStores
      <3> QED
        BY <1>1, <1>13, <3>1 DEF Stores, Active
    <2> QED
      BY <1>3, <1>13, <2>1 DEF Pets
  <1> QED
    BY <1>4, <1>6, <1>7, <1>8, <1>9, <1>10, <1>11, <1>12, <1>13 DEF Follows, Pets
-----------------------------------------------------------------------------
LEMMA InHandler == ASSUME ipc \in Handler PROVE InIsr
  <1>1. /\ Isr[1] = "count" /\ Isr[2] = "status" /\ Isr[3] = "log" /\ Isr[4] = "ack"
        /\ Isr[5] = "disable" /\ Isr[6] = "mark2" /\ Isr[7] = "return"
        /\ DOMAIN Isr = 1..7
    BY DEF Isr
  <1> QED
    BY <1>1 DEF Handler, InIsr

\* Without a store to it, the flag is set by an expiry alone and the count
\* goes down by one at most.
LEMMA FlagStep ==
  ASSUME ReportInv, ClkIop, WdtStep, History, ~Stores("WDT_STATUS")
  PROVE  /\ expired => expired'
         /\ expired' => expired \/ WillExpire
         /\ WillExpire => expirePulse' /\ en /\ cnt = 1
  BY DEF WdtStep, Expire, WillExpire

LEMMA CountStep ==
  ASSUME ReportInv, ClkIop, WdtStep, History, ~Stores("WDT_COUNT")
  PROVE  (cnt = 0 => cnt' = 0) /\ idle' <= idle + 1 /\ (WillExpire => cnt' = 0)
  <1>1. cnt' = IF en /\ cnt # 0 THEN cnt - 1 ELSE cnt
    BY DEF WdtStep, Count
  <1>2. cnt \in 0..Reload /\ idle \in 0..Reload
    BY DEF ReportInv, WdtInv, CountOK
  <1>3. idle' = IF en THEN Idle1 ELSE idle
    BY DEF History
  <1>4. idle' <= idle + 1
    BY <1>2, <1>3 DEF Idle1
  <1>5. WillExpire => cnt' = 0
    BY <1>1 DEF WillExpire
  <1> QED
    BY <1>1, <1>4, <1>5

\* The firmware loads nothing but WDT_STATUS.
LEMMA LoadsStatus == ASSUME WdtInv, core.st = "wait" PROVE ipc = "status"
  <1>1. core.op \in IopOp(ipc) /\ ~core.op.wr
    BY DEF WdtInv, ProgramOK, Idle
  <1>2. ipc \in Pcs
    BY DEF WdtInv, ProgramOK
  <1>3. ipc \in {"mark0", "zero4", "zero6", "mark1", "count", "log", "mark2"} =>
            \E w, v : IopOp(ipc) = {Mail(w, v)}
    BY DEF IopOp
  <1>4. ipc \in Pets => IopOp(ipc) = {Pet}
    BY DEF IopOp, Pets
  <1>5. ipc = "enable" => IopOp(ipc) = {Enable}
    BY DEF IopOp
  <1>6. ipc = "ack" => IopOp(ipc) = {Acknowledge}
    BY DEF IopOp
  <1>7. ipc = "disable" => IopOp(ipc) = {Disable}
    BY DEF IopOp
  <1>8. ipc \in {"spin", "return"} => IopOp(ipc) = {}
    BY DEF IopOp
  <1> QED
    BY <1>1, <1>2, <1>3, <1>4, <1>5, <1>6, <1>7, <1>8
    DEF Mail, Pet, Enable, Disable, Acknowledge, Pcs, Unarmed, Running, Handler, Pets

\* While the handler has not disabled it, the watchdog does not expire again.
LEMMA NotAgain ==
  ASSUME Reload >= 15, ReportInv, ipc \in Handler PROVE ~WillExpire
  <1>1. CASE ipc \in {"mark2", "return"}
    BY <1>1 DEF ReportInv, EntryOK, WillExpire
  <1>2. CASE ipc \notin {"mark2", "return"}
    <2>1. Prompt
      BY <1>2 DEF ReportInv, PromptOK, Racing
    <2>2. cnt + idle = Reload /\ cnt \in Nat /\ idle \in Nat /\ Reload \in Nat
      <3>1. ipc \notin Unarmed
        BY DEF Handler, Unarmed
      <3> QED
        BY <3>1, WdtAssumption DEF ReportInv, WdtInv, CountOK
    <2>3. core.st \in {"idle", "req", "wait"} /\ WdtInv
      BY DEF ReportInv, WdtInv, ProgramOK, Idle
    <2>4. Latest(ipc) <= 12 /\ Latest(ipc) \in Nat
      BY <1>2 DEF Latest, Handler, Pets
    <2>5. Latest(ipc) + Under(core.st) <= 13
      <3>1. core.st # "wait" \/ Latest(ipc) = 5
        BY <2>3, LoadsStatus DEF Latest, Pets
      <3> QED
        BY <2>3, <2>4, <3>1 DEF Under
    <2>6. Under(core.st) \in Nat
      BY DEF Under
    <2> QED
      BY <2>1, <2>2, <2>4, <2>5, <2>6 DEF Prompt, WillExpire
  <1> QED
    BY <1>1, <1>2

\* The host's line follows the pulse and stays up until main() starts again.
LEMMA AlertStep ==
  ASSUME ReportInv, Clock, ipc # "mark0" \/ ~CoreDone
  PROVE  alerted \/ HostAlert => alerted'
  BY DEF Clock, History, CoreDone
-----------------------------------------------------------------------------
\* An edge at which the program stays where it is.
LEMMA ReportRest ==
  ASSUME Reload >= 15, ReportInv, WdtInv', Clock, ~ClkIop \/ ~Firmware
  PROVE  ReportInv'
  <1> USE DEF ReportInv
  <1>1. ~CoreDone /\ UNCHANGED <<ipc, ret, mbox, nmiCount>>
    BY DEF Clock, Firmware, TakeNmi, Return, AccessDone, CoreDone, Loaded, Stored
  <1>2. \A reg : ~Stores(reg)
    BY <1>1 DEF CoreDone, Stored, Stores, Active
  <1>3. (en' <=> en) /\ (alertEn' <=> alertEn)
    BY <1>2 DEF Clock, WdtStep, Control, wdtVars
  <1>4. /\ expired => expired'
        /\ expired' => expired \/ (ClkIop /\ WillExpire)
        /\ expired' /\ ~expired => expirePulse' /\ en /\ cnt' = 0
    <2>1. CASE ~ClkIop
      BY <2>1 DEF Clock, WdtStep, wdtVars
    <2>2. CASE ClkIop
      BY <1>2, <2>2, FlagStep, CountStep DEF Clock
    <2> QED
      BY <2>1, <2>2
  <1>5. EntryOK'
    <2>1. ipc \in Handler /\ ClkIop => ~WillExpire
      BY NotAgain
    <2>2. WillExpire => en
      BY DEF WillExpire
    <2>3. ipc \in {"disable", "mark2", "return"} => ipc \in Handler
      BY DEF Handler
    <2> QED
      BY <1>1, <1>3, <1>4, <2>1, <2>2, <2>3 DEF EntryOK
  <1>6. PromptOK'
    <2> SUFFICES ASSUME Racing' PROVE Prompt'
      BY DEF PromptOK
    <2>1. CASE ~Racing
      <3>1. ~expired /\ expired'
        BY <1>1, <2>1 DEF Racing
      <3> QED
        BY <1>4, <3>1 DEF Prompt
    <2>2. CASE Racing /\ ~ClkIop
      <3>1. core' = core /\ cnt' = cnt /\ idle' = idle
        BY <2>2 DEF Clock, CoreStep, WdtStep, wdtVars, History
      <3> QED
        BY <1>1, <2>2, <3>1 DEF PromptOK, Prompt
    <2>3. CASE Racing /\ ClkIop
      <3>1. (cnt = 0 => cnt' = 0) /\ idle' <= idle + 1
        BY <1>2, <2>3, CountStep DEF Clock
      <3>2. ~MayRest
        BY <2>3, InHandler DEF Racing, MayRest, WdtNmi
      <3>3. core.st \in {"idle", "req", "wait"}
        BY DEF WdtInv, ProgramOK, Idle
      <3>4. \/ core.st = "idle" /\ core'.st = "req"
            \/ core.st = "req" /\ core'.st = "wait"
        BY <1>1, <2>3, <3>2, <3>3
        DEF Clock, Firmware, CoreStep, CoreBegin, CoreReset, Request, Await, Idle,
            CoreDone, Loaded, Stored, TakeNmi, Return, AccessDone
      <3>5. Under(core'.st) = Under(core.st) + 1
        BY <3>4 DEF Under
      <3>6. idle \in Nat /\ idle' \in Nat
        BY DEF WdtInv, CountOK
      <3>7. Latest(ipc) \in Nat /\ Under(core.st) \in Nat
        BY DEF Latest, Under
      <3> QED
        BY <1>1, <2>3, <3>1, <3>5, <3>6, <3>7 DEF PromptOK, Prompt
    <2> QED
      BY <2>1, <2>2, <2>3
  <1>7. MailOK'
    BY <1>1 DEF MailOK, Handled
  <1>8. AlertOK'
    <2>1. (alerted \/ HostAlert) => alerted'
      BY <1>1, AlertStep
    <2> QED
      BY <1>1, <1>3, <1>4, <2>1 DEF AlertOK, HostAlert, Handled
  <1> QED
    BY <1>5, <1>6, <1>7, <1>8

\* The core takes the NMI.
LEMMA ReportNmi ==
  ASSUME Reload >= 15, ReportInv, WdtInv', Clock, TakeNmi PROVE ReportInv'
  <1> USE DEF ReportInv
  <1>1. ipc \in Running /\ ipc' = "count" /\ ClkIop /\ core.st = "idle" /\ expired
    BY ProgramNmi DEF TakeNmi, WdtNmi
  <1>2. nmiCount = 0 /\ nmiCount' = 1 /\ mbox' = mbox
    BY <1>1 DEF TakeNmi, EntryOK
  <1>3. \A reg : ~Stores(reg)
    BY <1>1 DEF Stores, Active
  <1>4. (en' <=> en) /\ (alertEn' <=> alertEn)
    BY <1>1, <1>3 DEF Clock, WdtStep, Control
  <1>5. expired'
    BY <1>1, <1>3, FlagStep DEF Clock
  <1>6. EntryOK'
    BY <1>1, <1>2, <1>5 DEF EntryOK, Unarmed, Running, Handler
  <1>7. PromptOK'
    <2>1. Prompt
      BY <1>1 DEF PromptOK, Racing
    <2>2. (cnt = 0 => cnt' = 0) /\ idle' <= idle + 1
      BY <1>1, <1>3, CountStep DEF Clock
    <2>3. Latest(ipc) + Under(core.st) <= 2 /\ Latest(ipc) + Under(core.st) \in Nat
      BY <1>1 DEF Latest, Under, Running, Pets
    <2>4. Latest(ipc') + Under(core'.st) >= 3
      <3>1. Latest(ipc') = 3
        BY <1>1 DEF Latest, Pets
      <3>2. Under(core'.st) \in Nat
        BY DEF Under
      <3> QED
        BY <3>1, <3>2
    <2>5. Latest(ipc') + Under(core'.st) \in Nat
      BY DEF Latest, Under
    <2>6. idle \in Nat /\ idle' \in Nat
      BY DEF WdtInv, CountOK
    <2> QED
      BY <2>1, <2>2, <2>3, <2>4, <2>5, <2>6 DEF PromptOK, Prompt
  <1>8. MailOK'
    BY <1>1, <1>2 DEF MailOK, Handled, Running, Handler
  <1>9. AlertOK'
    <2>1. alerted'
      <3>1. ipc # "mark0"
        BY <1>1 DEF Running
      <3> QED
        BY <1>1, <3>1, AlertStep DEF AlertOK, HostAlert
    <2> QED
      BY <1>4, <2>1 DEF AlertOK
  <1> QED
    BY <1>6, <1>7, <1>8, <1>9

\* The handler returns, the watchdog disabled.
LEMMA ReportReturn ==
  ASSUME Reload >= 15, ReportInv, WdtInv', Clock, Return PROVE ReportInv'
  <1> USE DEF ReportInv
  <1>1. ipc = "return" /\ ipc' \in Running /\ ClkIop /\ core.st = "idle"
    BY DEF Return, WdtInv, ProgramOK
  <1>2. nmiCount' = nmiCount /\ mbox' = mbox /\ nmiCount = 1 /\ ~en /\ ~expired
    BY <1>1 DEF Return, EntryOK, Handler
  <1>3. \A reg : ~Stores(reg)
    BY <1>1 DEF Stores, Active
  <1>4. (en' <=> en) /\ (alertEn' <=> alertEn)
    BY <1>1, <1>3 DEF Clock, WdtStep, Control
  <1>5. ~expired'
    BY <1>1, <1>2, <1>3, FlagStep DEF Clock
  <1>6. EntryOK'
    BY <1>1, <1>2, <1>4, <1>5 DEF EntryOK, Unarmed, Running, Handler
  <1>7. PromptOK'
    BY <1>1, <1>5 DEF PromptOK, Racing, Running, Handler
  <1>8. MailOK'
    BY <1>1, <1>2 DEF MailOK, Handled, Running, Handler
  <1>9. AlertOK'
    <2>1. alerted'
      BY <1>1, AlertStep DEF AlertOK, Handler
    <2> QED
      BY <1>2, <1>4, <2>1 DEF AlertOK
  <1> QED
    BY <1>6, <1>7, <1>8, <1>9
-----------------------------------------------------------------------------
\* An access completes: what it leaves in the flags,
LEMMA EntryAccess ==
  ASSUME Reload >= 15, ReportInv, Clock, AccessDone PROVE EntryOK'
  <1> USE DEF ReportInv
  <1>1. <<ipc, ipc'>> \in Follows /\ ClkIop /\ nmiCount' = nmiCount
    BY NextLine, LineDone DEF AccessDone
  <1>2. ipc # "ack" => (expired => expired') /\ (expired' => expired \/ WillExpire)
    BY <1>1, LineStores, FlagStep DEF Clock
  <1>3. ipc = "ack" => ~expired'
    <2>1. ipc = "ack" => Stores("WDT_STATUS") /\ core.op = Acknowledge
      BY LineStores, LineDone DEF IopOp
    <2>2. ipc = "ack" => Stores("WDT_STATUS") /\ core.op.v = 1
      BY <2>1 DEF Acknowledge
    <2> QED
      BY <1>1, <2>2 DEF Clock, WdtStep, Expire
  <1>4. ipc \notin {"enable", "disable"} => (en' <=> en)
    BY <1>1, LineStores, EnableStep DEF Clock
  <1>5. ipc = "disable" => ~en'
    <2>1. ipc = "disable" => Stores("WDT_CTL") /\ ~core.op.v.en
      BY LineStores, StoreOfLine DEF StoreOK
    <2> QED
      BY <1>1, <2>1 DEF Clock, WdtStep, Control
  <1>6. ipc \in Handler => ~WillExpire
    BY NotAgain
  <1>7. WillExpire => en
    BY DEF WillExpire
  <1>8. CASE ipc \in Unarmed
    BY <1>1, <1>8 DEF EntryOK, Follows, Unarmed, Running, Handler
  <1>9. CASE ipc = "enable"
    BY <1>1, <1>9 DEF EntryOK, Follows, Unarmed, Running, Handler
  <1>10. CASE ipc \in Running
    <2>1. ipc' \in Running
      BY <1>1, <1>10 DEF Follows, Running
    <2>2. ipc \notin {"ack", "enable", "disable"}
      BY <1>10 DEF Running
    <2>3. nmiCount = 1 /\ ~en /\ ~expired => ~en' /\ ~expired'
      BY <1>2, <1>4, <1>7, <2>2
    <2> QED
      BY <1>1, <1>10, <2>1, <2>3 DEF EntryOK, Running, Unarmed, Handler
  <1>11. CASE ipc \in Handler
    <2>1. nmiCount' = 1 /\ ipc' \in Handler
      BY <1>1, <1>11 DEF EntryOK, Follows, Handler
    <2>2. ipc' \in {"count", "status", "log", "ack"} => expired'
      BY <1>1, <1>2, <1>11 DEF EntryOK, Follows, Handler
    <2>3. ipc' \in {"disable", "mark2", "return"} => ~expired'
      BY <1>1, <1>2, <1>3, <1>6, <1>11 DEF EntryOK, Follows, Handler
    <2>4. ipc' \in {"mark2", "return"} => ~en'
      BY <1>1, <1>4, <1>5, <1>11 DEF EntryOK, Follows, Handler
    <2> QED
      BY <2>1, <2>2, <2>3, <2>4 DEF EntryOK, Handler, Unarmed, Running
  <1> QED
    BY <1>1, <1>8, <1>9, <1>10, <1>11 DEF Follows, Unarmed, Running, Handler

\* in the time that is left,
LEMMA PromptAccess ==
  ASSUME Reload >= 15, ReportInv, WdtInv', Clock, AccessDone PROVE PromptOK'
  <1> USE DEF ReportInv
  <1> SUFFICES ASSUME Racing' PROVE Prompt'
    BY DEF PromptOK
  <1>1. <<ipc, ipc'>> \in Follows /\ ClkIop
    BY NextLine, LineDone
  <1>2. idle \in Nat /\ idle' \in Nat
    BY DEF WdtInv, CountOK
  <1>3. Latest(ipc) \in Nat /\ Latest(ipc') \in Nat /\ Under(core.st) \in 0..2
        /\ Under(core'.st) \in 0..2
    BY DEF Latest, Under
  <1>4. CASE ipc \in Pets
    <2>1. idle' = 0
      BY <1>1, <1>4, LineStores DEF Clock, History
    <2> QED
      BY <1>3, <2>1 DEF Prompt
  <1>5. CASE ipc \notin Pets
    <2>1. /\ cnt = 0 => cnt' = 0
          /\ WillExpire => cnt' = 0
          /\ idle' <= idle + 1
      BY <1>1, <1>5, LineStores, CountStep DEF Clock
    <2>2. CASE Racing
      <3>1. Prompt
        BY <2>2 DEF PromptOK
      <3>2. ipc \notin {"mark2", "enable"} \cup Unarmed
        <4>1. ipc = "enable" => ~expired
          BY DEF WdtInv, CountOK
        <4> QED
          BY <2>2, <4>1 DEF Racing, Running, Handler, Unarmed
      <3>3. ipc # "disable"
        BY <1>1 DEF Racing, Follows, Running, Handler
      <3>4. ipc # "status" => Under(core.st) = 1
        BY LineDone DEF Under
      <3>5. Latest(ipc) + Under(core.st) + 1 <= Latest(ipc')
        <4>1. CASE ipc = "status"
          BY <1>1, <1>3, <4>1 DEF Latest, Follows, Pets
        <4>2. CASE ipc # "status"
          <5>1. Latest(ipc) + 2 <= Latest(ipc')
            BY <1>1, <1>5, <3>2, <3>3, <4>2 DEF Latest, Follows, Pets, Unarmed
          <5> QED
            BY <1>3, <3>4, <4>2, <5>1
        <4> QED
          BY <4>1, <4>2
      <3> QED
        BY <1>2, <1>3, <2>1, <3>1, <3>5 DEF Prompt
    <2>3. CASE ~Racing
      <3>1. ipc \notin Handler
        BY <1>1, <2>3 DEF Racing, Follows, Running, Handler
      <3>2. ipc' \in Running /\ expired' /\ ~expired
        <4>1. ipc' \in Running
          BY <1>1, <3>1 DEF Racing, Follows, Running, Handler
        <4>2. expired'
          BY <4>1 DEF Racing, Running, Handler
        <4>3. ipc \in Running \cup {"enable"}
          BY <1>1, <4>1 DEF Follows, Running
        <4>4. ipc = "enable" => ~expired
          BY DEF WdtInv, CountOK
        <4> QED
          BY <2>3, <4>1, <4>2, <4>3, <4>4 DEF Racing
      <3>3. ~Stores("WDT_STATUS")
        BY <3>1, LineStores DEF Handler
      <3> QED
        BY <1>1, <2>1, <3>2, <3>3, FlagStep DEF Clock, Prompt
    <2> QED
      BY <2>2, <2>3
  <1> QED
    BY <1>4, <1>5

\* in the mailbox,
LEMMA MailAccess ==
  ASSUME ReportInv, Clock, AccessDone PROVE MailOK'
  <1> USE DEF ReportInv
  <1>1. <<ipc, ipc'>> \in Follows /\ nmiCount' = nmiCount
    BY NextLine DEF AccessDone
  <1>2. /\ mbox'[0] = IF ipc = "mark0" THEN 0 ELSE IF ipc = "mark1" THEN 1
                      ELSE IF ipc = "mark2" THEN 2 ELSE mbox[0]
        /\ mbox'[4] = IF ipc = "zero4" THEN 0 ELSE IF ipc = "count" THEN nmiCount
                      ELSE mbox[4]
        /\ mbox'[6] = IF ipc = "zero6" THEN 0 ELSE IF ipc = "log" THEN ret.status
                      ELSE mbox[6]
    BY MailStored
  <1>3. ipc' = "log" => ret'.status = 1
    <2>1. ipc' = "log" => ipc = "status" /\ expired
      BY <1>1 DEF EntryOK, Follows
    <2>2. ret \in [pc : Running, status : {0, 1}]
      BY DEF WdtInv, ProgramOK
    <2>3. ipc = "status" /\ expired => ret' = [ret EXCEPT !.status = 1]
      BY Zenon DEF AccessDone
    <2> QED
      BY <2>1, <2>2, <2>3
  <1>4. CASE ipc \in Unarmed \cup {"enable"}
    <2>1. nmiCount' = 0 /\ ipc' \in Unarmed \cup {"enable"} \cup Running
      BY <1>1, <1>4 DEF EntryOK, Follows, Unarmed, Running
    <2>2. mbox'[0] # 2
      <3>1. ipc # "mark0" => mbox[0] # 2
        BY <1>4 DEF MailOK, Handled, Unarmed, Running
      <3> QED
        BY <1>2, <1>4, <3>1 DEF Unarmed
    <2> QED
      BY <2>1, <2>2 DEF MailOK, Handled, Handler, Unarmed, Running
  <1>5. CASE ipc \in Running
    <2>1. ipc' \in Running /\ ipc \notin Handler
      BY <1>1, <1>5 DEF Follows, Running, Handler
    <2>2. mbox'[4] = mbox[4] /\ mbox'[6] = mbox[6] /\ (mbox'[0] = 2 => mbox[0] = 2)
      BY <1>2, <1>5 DEF Running
    <2>3. Handled' <=> Handled
      BY <1>1, <1>5, <2>1 DEF Handled
    <2> QED
      BY <1>5, <2>1, <2>2, <2>3 DEF MailOK, Running, Handler
  <1>6. CASE ipc \in Handler
    <2>1. nmiCount = 1 /\ ipc' \in Handler /\ ~Handled /\ ~Handled'
      BY <1>1, <1>6 DEF EntryOK, Handled, Follows, Running, Handler
    <2>2. mbox'[0] = 2 => ipc' = "return"
      <3>1. mbox[0] = 2 => ipc \in {"mark0", "return"}
        BY <2>1 DEF MailOK
      <3> QED
        BY <1>1, <1>2, <1>6, <3>1 DEF Follows, Handler
    <2>3. mbox'[4] = 1
      BY <1>2, <1>6, <2>1 DEF MailOK, Handler
    <2>4. ipc' \in {"ack", "disable", "mark2", "return"} => mbox'[6] = 1
      BY <1>1, <1>2, <1>6 DEF MailOK, Follows, Handler
    <2> QED
      BY <1>3, <2>1, <2>2, <2>3, <2>4 DEF MailOK
  <1> QED
    BY <1>1, <1>4, <1>5, <1>6 DEF Follows, Unarmed, Running, Handler

\* and on the host's line.
LEMMA AlertAccess ==
  ASSUME Reload >= 15, ReportInv, Clock, AccessDone PROVE AlertOK'
  <1> USE DEF ReportInv
  <1>1. <<ipc, ipc'>> \in Follows /\ ClkIop /\ nmiCount' = nmiCount
    BY NextLine, LineDone DEF AccessDone
  <1>2. ipc # "mark0" /\ (alerted \/ HostAlert) => alerted'
    BY AlertStep
  <1>3. ipc \notin {"enable", "disable"} => (en' <=> en) /\ (alertEn' <=> alertEn)
    BY <1>1, LineStores DEF Clock, WdtStep, Control
  <1>4. en' => alertEn'
    <2>1. CASE ipc = "enable"
      <3>1. Stores("WDT_CTL") /\ core.op = Enable
        BY <2>1, LineStores, LineDone DEF IopOp
      <3>2. core.op.v = [en |-> TRUE, alert |-> TRUE]
        BY <3>1 DEF Enable
      <3>3. core.op.v.alert = TRUE
        BY <3>2
      <3>4. alertEn' = core.op.v.alert
        BY <1>1, <3>1 DEF Clock, WdtStep, Control
      <3> QED
        BY <3>3, <3>4
    <2>2. CASE ipc = "disable"
      <3>1. Stores("WDT_CTL") /\ ~core.op.v.en
        BY <2>2, LineStores, StoreOfLine DEF StoreOK
      <3> QED
        BY <1>1, <3>1 DEF Clock, WdtStep, Control
    <2>3. CASE ipc \notin {"enable", "disable"}
      BY <1>3, <2>3 DEF AlertOK
    <2> QED
      BY <2>1, <2>2, <2>3
  <1>5. expired' => alerted' \/ (expirePulse' /\ alertEn')
    <2>1. CASE ipc \in Handler
      <3>1. alerted'
        BY <1>2, <2>1 DEF AlertOK, Handler
      <3> QED
        BY <3>1
    <2>2. CASE ipc \notin Handler
      <3>1. (expired' => expired \/ WillExpire) /\ (WillExpire => expirePulse' /\ en)
        BY <1>1, <2>2, LineStores, FlagStep DEF Clock, Handler
      <3>2. expired => ipc # "mark0" /\ (alerted \/ HostAlert)
        BY DEF AlertOK, HostAlert, WdtInv, CountOK, Unarmed
      <3>3. WillExpire => en' /\ expirePulse'
        <4>1. ipc = "enable" => ~en
          BY DEF WdtInv, CountOK
        <4> QED
          BY <1>3, <2>2, <3>1, <4>1 DEF Handler
      <3> QED
        BY <1>2, <1>4, <3>1, <3>2, <3>3
    <2> QED
      BY <2>1, <2>2
  <1>6. ipc' \in Handler \/ Handled' => alerted'
    <2>1. ipc' \in Handler => ipc \in Handler
      BY <1>1 DEF Follows, Handler
    <2>2. Handled' => Handled
      <3>1. ipc \in Unarmed \cup {"enable"} => nmiCount = 0
        BY DEF EntryOK
      <3> QED
        BY <1>1, <3>1 DEF Handled, Follows, Running, Unarmed
    <2>3. ipc = "mark0" => ipc \notin Handler /\ ~Handled
      BY DEF Handler, Handled, Running
    <2> QED
      BY <1>2, <2>1, <2>2, <2>3 DEF AlertOK
  <1> QED
    BY <1>4, <1>5, <1>6 DEF AlertOK
-----------------------------------------------------------------------------
LEMMA ReportReboot == ASSUME ReportInv, WdtInv', Reboot PROVE ReportInv'
  <1>1. /\ ipc' = "mark0" /\ nmiCount' = 0 /\ ~en' /\ ~expired' /\ mbox' = mbox
    BY DEF Reboot, Main
  <1> QED
    BY <1>1 DEF ReportInv, EntryOK, PromptOK, Racing, MailOK, AlertOK, Handled,
                Running, Handler, Unarmed

LEMMA ReportStep ==
  ASSUME Reload >= 15, ReportInv, [TestNext]_testVars PROVE ReportInv'
  <1>1. CASE UNCHANGED testVars
    <2>1. IopOp(ipc)' = IopOp(ipc)
      BY <1>1, OpsKept DEF testVars
    <2> QED
      BY <1>1, <2>1
      DEF testVars, wdtVars, ReportInv, WdtInv, ProgramOK, CountOK, RegistersOK, NeverLate,
          EntryOK, PromptOK, Racing, Prompt, MailOK, AlertOK, Handled
  <1>2. CASE Clock
    <2>1. WdtInv'
      BY <1>2, ClockKeeps DEF ReportInv
    <2>2. CASE ~ClkIop \/ ~Firmware
      BY <1>2, <2>1, <2>2, ReportRest
    <2>3. CASE AccessDone
      BY <1>2, <2>1, <2>3, EntryAccess, PromptAccess, MailAccess, AlertAccess
      DEF ReportInv
    <2> QED
      BY <1>2, <2>1, <2>2, <2>3, ReportNmi, ReportReturn DEF Firmware
  <1>3. CASE Reboot
    BY <1>3, RebootKeeps, ReportReboot DEF ReportInv
  <1> QED
    BY <1>1, <1>2, <1>3 DEF TestNext

LEMMA ReportHolds == ASSUME Reload >= 15 PROVE TestSpec => []ReportInv
  <1>1. ReportInv /\ [TestNext]_testVars => ReportInv'
    BY ReportStep
  <1> QED
    BY <1>1, ReportInit, PTL DEF TestSpec

\* Between two boots the watchdog's NMI enters the handler at most once,
\* wherever main() hangs and however its last pets race with the expiry: the
\* W1C and the disable leave nothing behind.  15 is exact, 14 is too short.
THEOREM ReportedOnce == ASSUME Reload >= 15 PROVE TestSpec => []ReportsOnce
  BY ReportHolds, ReportImplies, PTL

\* A host that reads the sentinel finds the handler's two words written and
\* has seen irq_to_host.
THEOREM ReportIsComplete == ASSUME Reload >= 15 PROVE TestSpec => []ReportComplete
  BY ReportHolds, ReportImplies, PTL
=============================================================================
