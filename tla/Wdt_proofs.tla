----------------------------- MODULE Wdt_proofs -----------------------------
(***************************************************************************)
(* Proofs about the watchdog and its firmware, for every value it is       *)
(* petted with, every width of the counter and every ratio of the clocks.  *)
(***************************************************************************)
EXTENDS WdtTest, TLAPS

Unarmed == {"mark0", "zero4", "zero6", "pet"}
Running == {"pet1", "pet2", "pet3", "mark1", "spin"}
Pets == {"pet", "pet1", "pet2", "pet3"}
Handler == {"count", "status", "log", "ack", "disable", "mark2", "return"}
Pcs == Unarmed \cup {"enable"} \cup Running \cup Handler

\* What the accesses and the handler's return may be.
ProgramOK ==
    /\ ipc \in Pcs /\ ret.pc \in Running
    /\ ret \in [pc : Running, status : {0, 1}]
    /\ core = Idle \/ (core.st \in {"req", "wait"} /\ core.op \in IopOp(ipc))
    /\ core.st = "wait" => ~core.op.wr

\* From the first pet on the count and the edges counted since the last pet
\* make up the value petted with.
CountOK ==
    /\ cnt \in 0..Reload /\ idle \in 0..Reload
    /\ IF ipc \in Unarmed THEN cnt = 0 /\ ~en /\ ~expired /\ ~expirePulse
       ELSE cnt + idle = Reload
    /\ ipc = "enable" => ~en /\ ~expired /\ idle = 0
    /\ expirePulse => idle = Reload
    /\ NeverLate

RegistersOK ==
    /\ phase \in 0..(N - 1) /\ apb = Idle
    /\ en \in BOOLEAN /\ alertEn \in BOOLEAN /\ expired \in BOOLEAN
    /\ expirePulse \in BOOLEAN /\ alerted \in BOOLEAN
    /\ mbox \in [{0, 4, 6} -> Nat] /\ mbox[6] \in 0..2 /\ nmiCount \in Nat

WdtInv == ProgramOK /\ CountOK /\ RegistersOK

LEMMA InvImplies == WdtInv => TestTypeOK /\ ExpiresOnTime /\ NeverLate
  BY WdtAssumption
  DEF WdtInv, ProgramOK, CountOK, RegistersOK, TestTypeOK, ExpiresOnTime, Unarmed

LEMMA InvInit == TestInit => WdtInv
  <1> SUFFICES ASSUME TestInit PROVE WdtInv
    OBVIOUS
  <1>1. ipc = "mark0"
    BY DEF TestInit, Main
  <1>2. ProgramOK
    BY <1>1 DEF TestInit, BusInit, ProgramOK, Pcs, Unarmed, Running, Idle
  <1>3. CountOK
    BY <1>1, WdtAssumption DEF TestInit, WdtReset, CountOK, NeverLate, Unarmed
  <1>4. mbox \in [{0, 4, 6} -> Nat] /\ mbox[6] \in 0..2
    BY DEF TestInit
  <1>5. RegistersOK
    <2>1. phase \in 0..(N - 1) /\ apb = Idle /\ nmiCount \in Nat
      BY RatioAssumption DEF TestInit, BusInit
    <2>2. /\ en \in BOOLEAN /\ alertEn \in BOOLEAN /\ expired \in BOOLEAN
          /\ expirePulse \in BOOLEAN /\ alerted \in BOOLEAN
      BY DEF TestInit, WdtReset
    <2> QED
      BY <1>4, <2>1, <2>2 DEF RegistersOK
  <1> QED
    BY <1>2, <1>3, <1>5 DEF WdtInv
-----------------------------------------------------------------------------
\* A store is the one of the program's present line.
StoreOK(op) ==
    /\ op.sel = "WDT_COUNT" => ipc \in Pets /\ op.v = Reload
    /\ op.sel = "WDT_CTL" => ipc \in {"enable", "disable"}
    /\ op.sel = "WDT_CTL" => op.v.en \in BOOLEAN /\ op.v.alert \in BOOLEAN
    /\ op.sel = "WDT_CTL" /\ ipc = "disable" => ~op.v.en
    /\ op.sel = "WDT_STATUS" => ipc = "ack"
    /\ op.sel = "B" => op.w \in {0, 4, 6} /\ op.v \in Nat
    /\ op.sel = "B" /\ op.w = 6 => op.v \in 0..2

LEMMA StoreOf ==
  ASSUME ProgramOK, nmiCount \in Nat, NEW op \in IopOp(ipc), op.wr
  PROVE  StoreOK(op)
  <1> USE DEF StoreOK
  <1>1. ipc \in Pcs /\ ret.status \in {0, 1}
    BY DEF ProgramOK
  <1>2. CASE ipc \in Pets
    <2>1. IopOp(ipc) = {Pet}
      BY <1>2 DEF IopOp, Pets
    <2> QED
      BY <1>2, <2>1 DEF Pet
  <1>3. CASE ipc = "enable"
    <2>1. IopOp(ipc) = {Enable}
      BY <1>3 DEF IopOp
    <2>2. op.sel = "WDT_CTL" /\ op.v = [en |-> TRUE, alert |-> TRUE]
      BY <2>1 DEF Enable
    <2>3. (op.v.en <=> TRUE) /\ (op.v.alert <=> TRUE)
      BY <2>2
    <2>4. op.v.en = TRUE /\ op.v.alert = TRUE
      BY <2>2
    <2> QED
      BY <1>3, <2>2, <2>3, <2>4
  <1>4. CASE ipc = "disable"
    <2>1. IopOp(ipc) = {Disable}
      BY <1>4 DEF IopOp
    <2>2. op.sel = "WDT_CTL" /\ op.v = [en |-> FALSE, alert |-> FALSE]
      BY <2>1 DEF Disable
    <2>3. (op.v.en <=> FALSE) /\ (op.v.alert <=> FALSE)
      BY <2>2
    <2>4. op.v.en = FALSE /\ op.v.alert = FALSE
      BY <2>2
    <2> QED
      BY <1>4, <2>2, <2>3, <2>4
  <1>5. CASE ipc = "ack"
    <2>1. IopOp(ipc) = {Acknowledge}
      BY <1>5 DEF IopOp
    <2> QED
      BY <1>5, <2>1 DEF Acknowledge
  <1>6. CASE ipc = "status"
    <2>1. IopOp(ipc) = {ReadStatus}
      BY <1>6 DEF IopOp
    <2> QED
      BY <1>6, <2>1 DEF ReadStatus
  <1>7. CASE ipc \in {"mark0", "zero4", "zero6", "mark1", "count", "log", "mark2"}
    <2>1. \E w \in {0, 4, 6}, v \in Nat :
              op = Mail(w, v) /\ (w = 6 => v \in 0..2)
      BY <1>1, <1>7 DEF IopOp
    <2> QED
      BY <1>1, <2>1 DEF Mail
  <1>8. CASE ipc \in {"spin", "return"}
    <2>1. IopOp(ipc) = {}
      BY <1>8 DEF IopOp
    <2> QED
      BY <2>1
  <1> QED
    BY <1>1, <1>2, <1>3, <1>4, <1>5, <1>6, <1>7, <1>8
    DEF Pcs, Unarmed, Running, Handler, Pets

LEMMA StoreOfLine ==
  ASSUME WdtInv, NEW reg, Stores(reg)
  PROVE  /\ ClkIop /\ core.st = "req" /\ core.op.sel = reg /\ core.op.wr
         /\ StoreOK(core.op) /\ CoreDone
  <1>1. ClkIop /\ core.st = "req" /\ core.op.sel = reg /\ core.op.wr
    BY DEF Stores, Active
  <1>2. core.op \in IopOp(ipc)
    BY <1>1 DEF WdtInv, ProgramOK, Idle
  <1>3. StoreOK(core.op)
    BY <1>1, <1>2, StoreOf DEF WdtInv, RegistersOK
  <1> QED
    BY <1>1, <1>3 DEF CoreDone, Stored

\* One access is followed by the next of main() or of the handler.
LEMMA AccessOrder ==
  ASSUME ProgramOK, AccessDone
  PROVE  /\ ipc' \in Pcs
         /\ ipc \in Unarmed \ {"pet"} => ipc' \in Unarmed
         /\ ipc = "pet" => ipc' = "enable"
         /\ ipc \in Running \cup {"enable"} => ipc' \in Running
         /\ ipc \in Handler => ipc' \in Handler
         /\ ipc = "ack" => ipc' = "disable"
  <1>1. CASE \E i \in DOMAIN Main : ipc = Main[i] /\ i + 1 \in DOMAIN Main /\ ipc' = Main[i + 1]
    <2>1. PICK i \in 1..9 : ipc = Main[i] /\ ipc' = Main[i + 1]
      BY <1>1 DEF Main
    <2> QED
      BY <2>1 DEF Main, Pcs, Unarmed, Running, Handler
  <1>2. CASE \E i \in DOMAIN Isr : ipc = Isr[i] /\ i + 1 \in DOMAIN Isr /\ ipc' = Isr[i + 1]
    <2>1. PICK i \in 1..6 : ipc = Isr[i] /\ ipc' = Isr[i + 1]
      BY <1>2 DEF Isr
    <2> QED
      BY <2>1 DEF Isr, Pcs, Unarmed, Running, Handler
  <1> QED
    BY <1>1, <1>2 DEF AccessDone
-----------------------------------------------------------------------------
\* Between two pets each edge that counts down counts up the idle time.
LEMMA Countdown ==
  ASSUME WdtInv, ipc \notin Unarmed, ClkIop, WdtStep, History, ~Stores("WDT_COUNT")
  PROVE  /\ cnt' \in 0..Reload /\ idle' \in 0..Reload /\ cnt' + idle' = Reload
         /\ expirePulse' => idle' = Reload
         /\ en /\ idle' = Reload =>
                expired' \/ Stores("WDT_STATUS") \/ ipc = "disable"
         /\ ~en => idle' = idle
  <1>1. /\ cnt \in 0..Reload /\ idle \in 0..Reload /\ cnt + idle = Reload
        /\ Reload \in Nat /\ en \in BOOLEAN
    BY WdtAssumption DEF WdtInv, CountOK, RegistersOK
  <1>2. /\ cnt' = IF en /\ cnt # 0 THEN cnt - 1 ELSE cnt
        /\ expirePulse' = (en /\ cnt = 1)
        /\ Stores("WDT_STATUS") \/ expired' = (expired \/ (en /\ cnt = 1))
    BY DEF WdtStep, Count, Expire, WillExpire
  <1>3. idle' = IF en THEN Idle1 ELSE idle
    BY DEF History
  <1>4. /\ cnt' \in 0..Reload /\ idle' \in 0..Reload /\ cnt' + idle' = Reload
    BY <1>1, <1>2, <1>3 DEF Idle1
  <1>5. en /\ cnt = 1 => idle' = Reload
    BY <1>1, <1>3 DEF Idle1
  <1>6. en /\ idle' = Reload => cnt = 1 \/ idle = Reload
    BY <1>1, <1>3 DEF Idle1
  <1>7. en /\ idle = Reload => expired \/ ipc = "disable"
    BY DEF WdtInv, CountOK, NeverLate
  <1> QED
    BY <1>2, <1>3, <1>4, <1>5, <1>6, <1>7

\* A pet starts the count again, at the edge of the expiry as well.
LEMMA PetStep ==
  ASSUME WdtInv, ClkIop, WdtStep, History, Stores("WDT_COUNT")
  PROVE  cnt' = Reload /\ idle' = 0 /\ ~expirePulse'
  <1>1. core.op.v = Reload
    BY StoreOfLine DEF StoreOK
  <1>2. cnt' = Reload
    <2>1. cnt' = Reload % CountMod
      BY <1>1 DEF WdtStep, Count
    <2>2. Reload % CountMod = Reload
      BY WdtAssumption
    <2> QED
      BY <2>1, <2>2
  <1>3. ~WillExpire /\ expirePulse' = WillExpire
    BY DEF WdtStep, Expire, WillExpire
  <1>4. idle' = 0
    BY DEF History
  <1> QED
    BY <1>2, <1>3, <1>4

LEMMA EnableStep ==
  ASSUME WdtInv, ClkIop, WdtStep, ~Stores("WDT_CTL") PROVE en' = en
  BY DEF WdtStep, Control
-----------------------------------------------------------------------------
\* CountOK, by what the firmware does at the edge.
LEMMA NoStore ==
  ASSUME ClkIop, core.st = "idle" \/ ~CoreDone, NEW reg PROVE ~Stores(reg)
  BY DEF CoreDone, Stored, Stores, Active

LEMMA CountRest ==
  ASSUME WdtInv, ClkIop, WdtStep, History, core.st = "idle" \/ ~CoreDone,
         ipc' = ipc \/ (ipc \notin Unarmed \cup {"enable", "disable"}
                         /\ ipc' \notin Unarmed \cup {"enable"})
  PROVE  CountOK'
  <1>1. ~Stores("WDT_COUNT") /\ ~Stores("WDT_CTL") /\ ~Stores("WDT_STATUS")
    BY NoStore
  <1>2. en' = en
    BY <1>1, EnableStep
  <1>3. CASE ipc \in Unarmed
    <2>1. cnt' = 0 /\ ~en' /\ ~expired' /\ ~expirePulse' /\ idle' = idle
      BY <1>1, <1>2, <1>3
      DEF WdtInv, CountOK, WdtStep, Count, Expire, WillExpire, History
    <2> QED
      BY <1>3, <2>1, WdtAssumption DEF WdtInv, CountOK, NeverLate, Unarmed
  <1>4. CASE ipc \notin Unarmed
    <2>1. ipc = "enable" => ~expired'
      BY <1>1 DEF WdtInv, CountOK, WdtStep, Expire, WillExpire
    <2> QED
      BY <1>1, <1>2, <1>4, <2>1, Countdown DEF WdtInv, CountOK, NeverLate
  <1> QED
    BY <1>3, <1>4

\* The lines that pet and disable complete as those stores and no others.
LEMMA PetIsStored ==
  ASSUME WdtInv, AccessDone, ipc = "pet" PROVE Stores("WDT_COUNT")
  <1>1. IopOp(ipc) = {Pet}
    BY DEF IopOp
  <1> QED
    BY <1>1 DEF WdtInv, ProgramOK, AccessDone, CoreDone, Loaded, Stored, Stores, Active,
                Idle, Pet

LEMMA DisableIsStored ==
  ASSUME WdtInv, AccessDone, ipc = "disable" PROVE Stores("WDT_CTL")
  <1>1. IopOp(ipc) = {Disable}
    BY DEF IopOp
  <1> QED
    BY <1>1 DEF WdtInv, ProgramOK, AccessDone, CoreDone, Loaded, Stored, Stores, Active,
                Idle, Disable

LEMMA CountAccess ==
  ASSUME WdtInv, ClkIop, WdtStep, History, AccessDone
  PROVE  CountOK'
  <1> USE AccessOrder DEF WdtInv
  <1>1. CASE Stores("WDT_COUNT")
    <2>1. ipc \in Pets /\ ~Stores("WDT_CTL") /\ ~Stores("WDT_STATUS")
      BY <1>1, StoreOfLine DEF StoreOK, Stores, Active
    <2>2. en' = en /\ expired' = expired
      BY <1>1, <2>1, EnableStep DEF WdtStep, Expire, WillExpire, CountOK, RegistersOK
    <2>3. ipc = "pet" => ~en' /\ ~expired'
      BY <2>2 DEF CountOK, Unarmed
    <2>4. ipc' \in {"enable"} \cup Running
      BY <2>1 DEF Pets, Running
    <2>5. ipc' = "enable" => ipc = "pet"
      BY <2>1, <2>4 DEF Pets, Running
    <2>6. ipc' \notin Unarmed
      BY <2>4 DEF Running, Unarmed
    <2>7. cnt' = Reload /\ idle' = 0 /\ ~expirePulse'
      BY <1>1, PetStep
    <2> QED
      BY <2>3, <2>5, <2>6, <2>7, WdtAssumption DEF CountOK, NeverLate
  <1>2. CASE Stores("WDT_CTL")
    <2>1. ipc \in {"enable", "disable"} /\ (ipc = "disable" => ~core.op.v.en)
      BY <1>2, StoreOfLine DEF StoreOK
    <2>2. ~Stores("WDT_COUNT") /\ ~Stores("WDT_STATUS")
      BY <1>2 DEF Stores, Active
    <2>3. ipc = "disable" => ~en'
      BY <1>2, <2>1 DEF WdtStep, Control
    <2>4. ipc' \in Running \cup Handler
      BY <2>1 DEF Handler
    <2>5. ipc \notin Unarmed /\ ipc' \notin Unarmed \cup {"enable"}
      BY <2>1, <2>4 DEF Unarmed, Running, Handler
    <2>6. ipc = "enable" => idle' = 0
      BY <2>2, <2>5, Countdown DEF CountOK
    <2> QED
      BY <2>1, <2>2, <2>3, <2>5, <2>6, Countdown, WdtAssumption DEF CountOK, NeverLate
  <1>3. CASE ~Stores("WDT_COUNT") /\ ~Stores("WDT_CTL")
    <2>1. en' = en
      BY <1>3, EnableStep
    <2>2. CASE ipc \in Unarmed
      <3>1. ipc # "pet"
        BY <1>3, <2>2, PetIsStored
      <3>2. ipc' \in Unarmed
        BY <2>2, <3>1
      <3>3. ~Stores("WDT_STATUS")
        BY <2>2, StoreOfLine DEF StoreOK, Unarmed
      <3>4. cnt' = 0 /\ ~en' /\ ~expired' /\ ~expirePulse' /\ idle' = idle
        BY <1>3, <2>1, <2>2, <3>3
        DEF CountOK, WdtStep, Count, Expire, WillExpire, History
      <3> QED
        BY <3>2, <3>4, WdtAssumption DEF CountOK, NeverLate, Unarmed
    <2>3. CASE ipc \notin Unarmed
      <3>1. ipc' \notin Unarmed \cup {"enable"}
        BY <2>3 DEF Pcs, Unarmed, Running, Handler, ProgramOK
      <3>2. Stores("WDT_STATUS") => ipc' = "disable"
        BY StoreOfLine DEF StoreOK
      <3>3. ipc # "disable"
        BY <1>3, DisableIsStored
      <3> QED
        BY <1>3, <2>1, <2>3, <3>1, <3>2, <3>3, Countdown DEF CountOK, NeverLate
    <2> QED
      BY <2>2, <2>3
  <1> QED
    BY <1>1, <1>2, <1>3
-----------------------------------------------------------------------------
\* ProgramOK.
LEMMA OpsKept ==
  ASSUME ipc' = ipc, ret' = ret, nmiCount' = nmiCount PROVE IopOp(ipc)' = IopOp(ipc)
  BY DEF IopOp, Mail, Pet, Enable, Disable, ReadStatus, Acknowledge

LEMMA ProgramRest ==
  ASSUME WdtInv, CoreStep(IF core.st = "idle" THEN IopOp(ipc) ELSE {}, FALSE, FALSE),
         ~ClkIop \/ ~CoreDone, UNCHANGED <<ipc, ret, nmiCount>>
  PROVE  ProgramOK'
  <1> USE DEF WdtInv, ProgramOK
  <1>1. IopOp(ipc)' = IopOp(ipc)
    BY OpsKept
  <1>2. core' = core \/ core' = Idle
        \/ (\E op \in IopOp(ipc) : core' = Request(op))
        \/ (core.st = "req" /\ ~core.op.wr /\ core' = Await(core.op))
    BY DEF CoreStep, CoreBegin, CoreReset
  <1>3. core' = Idle \/ (core'.st \in {"req", "wait"} /\ core'.op \in IopOp(ipc))
    BY <1>2 DEF Request, Await, Idle
  <1>4. core'.st = "wait" => ~core'.op.wr
    BY <1>2 DEF Request, Await, Idle
  <1> QED
    BY <1>1, <1>3, <1>4

LEMMA ProgramNmi == ASSUME WdtInv, TakeNmi PROVE ProgramOK' /\ ipc \in Running /\ ipc' = "count"
  <1>1. ipc' = "count"
    BY DEF TakeNmi, Isr
  <1>2. ipc \notin Handler
    <2>1. Isr[1] = "count" /\ Isr[2] = "status" /\ Isr[3] = "log" /\ Isr[4] = "ack"
          /\ Isr[5] = "disable" /\ Isr[6] = "mark2" /\ Isr[7] = "return"
          /\ DOMAIN Isr = 1..7
      BY DEF Isr
    <2> QED
      BY <2>1 DEF TakeNmi, InIsr, Handler
  <1>3. expired
    BY DEF TakeNmi, WdtNmi
  <1>4. ipc \in Running
    BY <1>2, <1>3 DEF WdtInv, ProgramOK, CountOK, Pcs
  <1>5. ret' = [pc |-> ipc, status |-> 0] /\ core' = Idle
    BY DEF TakeNmi
  <1> QED
    BY <1>1, <1>4, <1>5 DEF ProgramOK, Idle, Pcs, Handler

LEMMA ProgramReturn ==
  ASSUME WdtInv, CoreStep(IF core.st = "idle" THEN IopOp(ipc) ELSE {}, FALSE, FALSE), Return
  PROVE  ProgramOK'
  <1>1. IopOp(ipc) = {}
    BY DEF Return, IopOp
  <1>2. core' = Idle
    BY <1>1 DEF Return, CoreStep, CoreBegin, CoreReset
  <1> QED
    BY <1>2 DEF Return, WdtInv, ProgramOK, Pcs, Idle

LEMMA ProgramAccess ==
  ASSUME WdtInv, CoreStep(IF core.st = "idle" THEN IopOp(ipc) ELSE {}, FALSE, FALSE),
         AccessDone
  PROVE  ProgramOK'
  <1>1. core' = Idle
    BY DEF AccessDone, CoreDone, Loaded, Stored, CoreStep, CoreBegin, CoreReset
  <1>2. ret' \in [pc : Running, status : {0, 1}]
    <2>1. ret' = ret \/ (\E x \in {0, 1} : ret' = [ret EXCEPT !.status = x])
      <3>1. CASE expired /\ ipc = "status"
        <4>1. ret' = [ret EXCEPT !.status = 1]
          BY <3>1, Zenon DEF AccessDone
        <4> QED
          BY <4>1
      <3>2. CASE ~expired /\ ipc = "status"
        <4>1. ret' = [ret EXCEPT !.status = 0]
          BY <3>2, Zenon DEF AccessDone
        <4> QED
          BY <4>1
      <3>3. CASE ipc # "status"
        <4>1. ret' = ret
          BY <3>3, Zenon DEF AccessDone
        <4> QED
          BY <4>1
      <3> QED
        BY <3>1, <3>2, <3>3
    <2> QED
      BY <2>1 DEF WdtInv, ProgramOK
  <1>3. ret'.pc \in Running
    BY <1>2
  <1> QED
    BY <1>1, <1>2, <1>3, AccessOrder DEF WdtInv, ProgramOK, Idle
-----------------------------------------------------------------------------
\* RegistersOK.
LEMMA MailboxStep ==
  ASSUME WdtInv, AccessDone
  PROVE  mbox' \in [{0, 4, 6} -> Nat] /\ mbox'[6] \in 0..2
  <1>1. CASE Stores("B")
    <2>1. /\ core.op.w \in {0, 4, 6} /\ core.op.v \in Nat
          /\ core.op.w = 6 => core.op.v \in 0..2
      BY <1>1, StoreOfLine DEF StoreOK
    <2>2. mbox' = [mbox EXCEPT ![core.op.w] = core.op.v]
      BY <1>1 DEF AccessDone
    <2> QED
      BY <2>1, <2>2 DEF WdtInv, RegistersOK
  <1>2. CASE ~Stores("B")
    BY <1>2 DEF AccessDone, WdtInv, RegistersOK
  <1> QED
    BY <1>1, <1>2

LEMMA RegisterStep ==
  ASSUME WdtInv, Clock PROVE RegistersOK'
  <1>1. phase' \in 0..(N - 1) /\ apb' = Idle
    BY RatioAssumption DEF WdtInv, RegistersOK, Clock, ClockStep
  <1>2. mbox' \in [{0, 4, 6} -> Nat] /\ mbox'[6] \in 0..2 /\ nmiCount' \in Nat
    BY MailboxStep DEF WdtInv, RegistersOK, Clock, Firmware, TakeNmi, Return, AccessDone
  <1>3. alerted' \in BOOLEAN
    BY DEF Clock, History
  <1>4. expired' \in BOOLEAN /\ expirePulse' \in BOOLEAN
    BY DEF WdtInv, RegistersOK, Clock, WdtStep, Expire, WillExpire, wdtVars
  <1>5. en' \in BOOLEAN /\ alertEn' \in BOOLEAN
    <2>1. CASE Stores("WDT_CTL")
      <3>1. core.op.v.en \in BOOLEAN /\ core.op.v.alert \in BOOLEAN /\ ClkIop
        BY <2>1, StoreOfLine DEF StoreOK
      <3> QED
        BY <2>1, <3>1, Zenon DEF Clock, WdtStep, Control
    <2>2. CASE ~Stores("WDT_CTL")
      BY <2>2 DEF WdtInv, RegistersOK, Clock, WdtStep, Control, wdtVars
    <2> QED
      BY <2>1, <2>2
  <1> QED
    BY <1>1, <1>2, <1>3, <1>4, <1>5 DEF RegistersOK
-----------------------------------------------------------------------------
LEMMA ClockKeeps == ASSUME WdtInv, Clock PROVE WdtInv'
  <1> USE DEF Clock
  <1>1. RegistersOK'
    BY RegisterStep
  <1>2. CASE ~ClkIop
    <2>1. UNCHANGED <<wdtVars, idle, ipc, ret, nmiCount>>
      BY <1>2 DEF WdtStep, History, Firmware, TakeNmi, Return, AccessDone, CoreDone,
                  Loaded, Stored
    <2>2. ProgramOK'
      BY <1>2, <2>1, ProgramRest
    <2>3. CountOK'
      BY <2>1 DEF WdtInv, CountOK, NeverLate, wdtVars
    <2> QED
      BY <1>1, <2>2, <2>3 DEF WdtInv
  <1>3. CASE ClkIop /\ ~Firmware
    <2>1. ~CoreDone /\ UNCHANGED <<ipc, ret, nmiCount>>
      BY <1>3
    <2> QED
      BY <1>1, <1>3, <2>1, ProgramRest, CountRest DEF WdtInv
  <1>4. CASE ClkIop /\ TakeNmi
    <2>1. ProgramOK' /\ ipc \in Running /\ ipc' = "count"
      BY <1>4, ProgramNmi
    <2>2. CountOK'
      BY <1>4, <2>1, CountRest DEF TakeNmi, Running, Unarmed
    <2> QED
      BY <1>1, <2>1, <2>2 DEF WdtInv
  <1>5. CASE ClkIop /\ Return
    <2>1. ipc = "return" /\ ipc' \in Running /\ core.st = "idle"
      BY <1>5 DEF Return, WdtInv, ProgramOK
    <2>2. CountOK'
      BY <1>5, <2>1, CountRest DEF Running, Unarmed
    <2> QED
      BY <1>1, <1>5, <2>2, ProgramReturn DEF WdtInv
  <1>6. CASE ClkIop /\ AccessDone
    BY <1>1, <1>6, ProgramAccess, CountAccess DEF WdtInv
  <1> QED
    BY <1>2, <1>3, <1>4, <1>5, <1>6 DEF Firmware

LEMMA RebootKeeps == ASSUME WdtInv, Reboot PROVE WdtInv'
  <1>1. ipc' = "mark0" /\ core' = Idle /\ ret' = ret
    BY DEF Reboot, Main
  <1>2. ProgramOK'
    BY <1>1 DEF WdtInv, ProgramOK, Pcs, Unarmed, Idle
  <1>3. CountOK'
    BY <1>1, WdtAssumption DEF Reboot, WdtInv, CountOK, NeverLate, Unarmed
  <1>4. RegistersOK'
    BY DEF Reboot, WdtInv, RegistersOK
  <1> QED
    BY <1>2, <1>3, <1>4 DEF WdtInv

LEMMA InvHolds == TestSpec => []WdtInv
  <1>1. WdtInv /\ [TestNext]_testVars => WdtInv'
    <2> SUFFICES ASSUME WdtInv, [TestNext]_testVars PROVE WdtInv'
      OBVIOUS
    <2>1. CASE UNCHANGED testVars
      <3>1. IopOp(ipc)' = IopOp(ipc)
        BY <2>1, OpsKept DEF testVars
      <3> QED
        BY <2>1, <3>1 DEF testVars, wdtVars, WdtInv, ProgramOK, CountOK, RegistersOK,
                          NeverLate
    <2> QED
      BY <2>1, ClockKeeps, RebootKeeps DEF TestNext
  <1> QED
    BY <1>1, InvInit, PTL DEF TestSpec

\* The types, and a count that never exceeds the value the firmware pets with.
THEOREM WdtTypeCorrect == TestSpec => []TestTypeOK
  BY InvHolds, InvImplies, PTL

\* For every value it is petted with the watchdog expires that many clk_iop
\* cycles after the last pet: not before, whatever pets, resets and clears of
\* the flag come meanwhile,
THEOREM ExpiryOnTime == TestSpec => []ExpiresOnTime
  BY InvHolds, InvImplies, PTL

\* and not after: enabled, it never stands at the end without its flag, but
\* between the handler's W1C and its disable.
THEOREM ExpiryNeverLate == TestSpec => []NeverLate
  BY InvHolds, InvImplies, PTL
=============================================================================
