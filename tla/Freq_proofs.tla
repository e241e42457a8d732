---------------------------- MODULE Freq_proofs -----------------------------
(***************************************************************************)
(* Proofs about the frequency counter of sw/freq_counter/main.c: every     *)
(* edge the capture flag can hold is counted once, and a measurement is    *)
(* the edges of its gate to within one, for every ratio of the clocks and  *)
(* every gate that is longer than the handler's way through it.            *)
(***************************************************************************)
EXTENDS FreqCounter, TLAPS

Handler == {"status", "stamp", "log", "ackCapture", "publish", "ackGate"}
Booting == {"gate", "start"}

ProgramOK ==
    /\ ipc \in {"gate", "start", "clear", "main"} \cup Handler
    /\ resume \in {"clear", "main"}
    /\ core = Idle \/ (core.st \in {"req", "wait"} /\ core.op \in IopOp(ipc))
    /\ core.st = "wait" => ~core.op.wr

\* Channel 0 alone matches, at the end of each gate.
TimerOK ==
    /\ DOMAIN cmp = Channels /\ status \subseteq {0, CAPTURED} /\ cnt \in 0..(Gate - 1)
    /\ \A i \in Channels \ {0} : ~cmp[i].en
    /\ ipc = "gate" => ~cmp[0].en
    /\ ipc # "gate" => cmp[0].en /\ cmp[0].irq /\ cmp[0].val = Gate - 1
    /\ ipc \in Booting => ~ctl.en /\ ctl.edge = "off" /\ status = {} /\ cnt = 0
    /\ ipc \notin Booting => ctl.en /\ ctl.auto /\ ctl.irq

\* The handler acknowledges the flags it read and no others.
SeenOK ==
    /\ ipc \in {"stamp", "log", "ackCapture"} => CAPTURED \in seen /\ CAPTURED \in status
    /\ ipc \in {"publish", "ackGate"} => CAPTURED \notin seen /\ 0 \in seen
    /\ ipc \in Handler \ {"status"} /\ 0 \in seen => 0 \in status

\* The edge of the capture flag is the one that is not counted.
LagOK ==
    /\ ipc # "ackCapture" /\ CAPTURED \in status => lag = 1
    /\ ipc = "ackCapture" \/ CAPTURED \notin status => lag = 0

FlagInv == ProgramOK /\ TimerOK /\ SeenOK /\ LagOK

LEMMA FlagInit == FreqInit => FlagInv
  <1> SUFFICES ASSUME FreqInit PROVE FlagInv
    OBVIOUS
  <1>1. ipc = "gate" /\ resume = "main" /\ core = Idle /\ lag = 0 /\ status = {} /\ cnt = 0
        /\ cmp = [i \in Channels |-> CmpOff] /\ ctl = CtlOff
    BY DEF FreqInit, BusInit, TimerReset
  <1>2. ProgramOK
    BY <1>1 DEF ProgramOK, Idle
  <1>3. TimerOK
    <2>1. ~CmpOff.en /\ ~CtlOff.en /\ CtlOff.edge = "off"
      BY DEF CmpOff, CtlOff
    <2>2. Gate \in Nat \ {0}
      BY FreqAssumption, ChannelAssumption
    <2> QED
      BY <1>1, <2>1, <2>2, FreqAssumption DEF TimerOK, Booting
  <1>4. SeenOK /\ LagOK
    BY <1>1 DEF SeenOK, LagOK, Handler
  <1> QED
    BY <1>2, <1>3, <1>4 DEF FlagInv
-----------------------------------------------------------------------------
\* What the timer does once it runs.
LEMMA TimerFacts ==
  ASSUME ProgramOK, TimerOK
  PROVE  /\ Matches \subseteq {0}
         /\ Tick <=> ipc \notin Booting /\ cnt = Gate - 1
         /\ CapEvent => ipc \notin Booting
         /\ TimerIrq <=> ipc \notin Booting /\ status # {}
  <1>1. Matches = {i \in Channels : ctl.en /\ cmp[i].en /\ cnt = cmp[i].val}
    BY DEF Matches
  <1>2. Matches \subseteq {0}
    BY <1>1 DEF TimerOK
  <1>3. Tick <=> ipc \notin Booting /\ cnt = Gate - 1
    BY <1>1, FreqAssumption DEF TimerOK, Tick, Booting
  <1>4. CapEvent => ipc \notin Booting
    BY DEF CapEvent, TimerOK
  <1>5. TimerIrq => ipc \notin Booting /\ status # {}
    BY DEF TimerIrq, TimerOK
  <1>6. ipc \notin Booting /\ status # {} => TimerIrq
    <2>1. status \subseteq {0, CAPTURED}
      BY DEF TimerOK
    <2>2. ipc \notin Booting => cmp[0].irq /\ ctl.irq
      BY DEF TimerOK, Booting
    <2> QED
      BY <2>1, <2>2, FreqAssumption DEF TimerIrq
  <1> QED
    BY <1>2, <1>3, <1>4, <1>5, <1>6

\* The line an access belongs to.
LEMMA Lines ==
  ASSUME ProgramOK, core.st # "idle"
  PROVE  /\ core.op \in IopOp(ipc) /\ ipc # "main"
         /\ core.op.wr <=> ipc \notin {"status", "stamp"}
  <1>1. core.op \in IopOp(ipc)
    BY DEF ProgramOK, Idle
  <1>2. ipc # "main"
    BY <1>1 DEF IopOp
  <1>3. CASE ipc \in {"status", "stamp"}
    <2>1. \E reg : core.op = Load(reg)
      BY <1>1, <1>3 DEF IopOp
    <2>2. ~core.op.wr
      BY <2>1 DEF Load
    <2> QED
      BY <1>1, <1>2, <1>3, <2>2
  <1>4. CASE ipc = "gate"
    <2>1. core.op = GateChannel
      BY <1>1, <1>4 DEF IopOp
    <2>2. core.op.wr
      BY <2>1 DEF GateChannel
    <2> QED
      BY <1>1, <1>2, <1>4, <2>2
  <1>5. CASE ipc \in {"start", "clear", "log", "ackCapture", "publish", "ackGate"}
    <2>1. \E reg, v : core.op = Store(reg, v)
      BY <1>1, <1>5 DEF IopOp, Start, AckCapture, AckGate
    <2>2. core.op.wr
      BY <2>1 DEF Store
    <2> QED
      BY <1>1, <1>2, <1>5, <2>2
  <1> QED
    BY <1>1, <1>2, <1>3, <1>4, <1>5 DEF ProgramOK, Handler

LEMMA Done ==
  ASSUME ProgramOK, CoreDone
  PROVE  /\ core.op \in IopOp(ipc) /\ ipc # "main" /\ ClkIop
         /\ ipc \in {"status", "stamp"} => core.st = "wait"
         /\ ipc \notin {"status", "stamp"} => \A reg : Stores(reg) <=> core.op.sel = reg
  <1>1. ClkIop /\ core.st # "idle" /\ (core.st = "wait" \/ (core.st = "req" /\ core.op.wr))
    BY DEF CoreDone
  <1>2. core.st = "wait" => ~core.op.wr
    BY DEF ProgramOK
  <1> QED
    BY <1>1, <1>2, Lines DEF Stores, Active

LEMMA NoStores == ASSUME ~CoreDone \/ core.st = "wait", NEW reg PROVE ~Stores(reg)
  BY DEF CoreDone, Stores, Active

\* The flags each line clears.
LEMMA ClearedBy ==
  ASSUME ProgramOK, CoreDone
  PROVE  Cleared = CASE ipc = "clear" -> {0, CAPTURED} [] ipc = "ackCapture" -> {CAPTURED}
                     [] ipc = "ackGate" -> {0} [] OTHER -> {}
  <1>1. ipc \in {"status", "stamp"} => ~Stores("TIMER_STATUS")
    BY Done, NoStores
  <1>2. ipc \notin {"status", "stamp"} =>
            (Stores("TIMER_STATUS") <=> core.op.sel = "TIMER_STATUS")
    BY Done
  <1>3. core.op \in IopOp(ipc)
    BY Done
  <1>4. CASE ipc \in {"clear", "ackCapture", "ackGate"}
    <2>1. core.op = Store("TIMER_STATUS", IF ipc = "clear" THEN {0, CAPTURED}
                              ELSE IF ipc = "ackCapture" THEN {CAPTURED} ELSE {0})
      BY <1>3, <1>4 DEF IopOp, AckCapture, AckGate
    <2> QED
      BY <1>2, <1>4, <2>1 DEF Store, Cleared
  <1>5. CASE ipc \in {"log", "publish"}
    <2>1. \E v : core.op = Store("B", v)
      BY <1>3, <1>5 DEF IopOp
    <2> QED
      BY <1>2, <1>5, <2>1 DEF Store, Cleared
  <1>6. CASE ipc = "start"
    <2>1. core.op = Start
      BY <1>3, <1>6 DEF IopOp
    <2>2. core.op.sel = "TIMER_CTL"
      BY <2>1 DEF Start, Store
    <2> QED
      BY <1>2, <1>6, <2>2 DEF Cleared
  <1>7. CASE ipc = "gate"
    <2>1. core.op = GateChannel
      BY <1>3, <1>7 DEF IopOp
    <2> QED
      BY <1>2, <1>7, <2>1 DEF GateChannel, Cleared
  <1>8. CASE ipc \in {"status", "stamp"}
    BY <1>1, <1>8 DEF Cleared
  <1> QED
    BY <1>4, <1>5, <1>6, <1>7, <1>8, Done DEF ProgramOK, Handler

\* A flag after an edge of clk_iop: set by its event, cleared by its store.
LEMMA FlagStep ==
  ASSUME FlagInv, TimerStep, ClkIop
  PROVE  /\ CAPTURED \in status' <=>
              (CAPTURED \in status \/ CapEvent) /\ CAPTURED \notin Cleared
         /\ 0 \in status' <=> (0 \in status \/ Tick) /\ 0 \notin Cleared
         /\ status' \subseteq {0, CAPTURED}
  <1>1. Matches \subseteq {0}
    BY TimerFacts DEF FlagInv
  <1>2. status' = (status \cup Events) \ Cleared
    BY DEF TimerStep, Status
  <1>3. Events = Matches \cup (IF CapEvent THEN {CAPTURED} ELSE {})
    BY DEF Events
  <1>4. 0 # CAPTURED
    BY DEF CAPTURED
  <1>5. CAPTURED \in Events <=> CapEvent
    BY <1>1, <1>3, <1>4
  <1>6. 0 \in Events <=> Tick
    BY <1>3, <1>4 DEF Tick
  <1>7. status \subseteq {0, CAPTURED} /\ Events \subseteq {0, CAPTURED}
    BY <1>1, <1>3 DEF FlagInv, TimerOK
  <1> QED
    BY <1>2, <1>5, <1>6, <1>7
-----------------------------------------------------------------------------
\* The count within the gate.
LEMMA CountStep ==
  ASSUME FlagInv, TimerStep, ClkIop, ~Stores("TIMER_CTL")
  PROVE  /\ ipc \in Booting => cnt' = 0
         /\ ipc \notin Booting /\ Tick => cnt' = 0
         /\ ipc \notin Booting /\ ~Tick => cnt' = cnt + 1 /\ cnt' <= Gate - 1
  <1>1. cnt' = IF ~ctl.en THEN cnt
               ELSE IF ctl.auto /\ 0 \in Matches THEN 0 ELSE (cnt + 1) % CountMod
    BY DEF TimerStep, Count
  <1>2. cnt \in 0..(Gate - 1) /\ Gate \in 1..CountMod /\ CountMod \in Nat \ {0}
    BY FreqAssumption, ChannelAssumption DEF FlagInv, TimerOK
  <1>3. Tick <=> ipc \notin Booting /\ cnt = Gate - 1
    BY TimerFacts DEF FlagInv
  <1>4. cnt < Gate - 1 => (cnt + 1) % CountMod = cnt + 1
    BY <1>2
  <1>5. /\ ipc \in Booting => ~ctl.en /\ cnt = 0
        /\ ipc \notin Booting => ctl.en /\ ctl.auto
    BY DEF FlagInv, TimerOK
  <1>6. ipc \notin Booting => cnt' = IF Tick THEN 0 ELSE (cnt + 1) % CountMod
    BY <1>1, <1>5 DEF Tick
  <1> QED
    BY <1>1, <1>2, <1>3, <1>4, <1>5, <1>6

\* Nothing happens to the timer's settings or, before it runs, to its flags.
LEMMA TimerStay ==
  ASSUME FlagInv, TimerStep, ClkIop, ~Stores("TIMER_CTL"), ~Stores("TIMER_CMP"),
         (ipc # "gate" /\ ipc' # "gate") \/ ipc' = ipc,
         ipc \in Booting <=> ipc' \in Booting
  PROVE  TimerOK'
  <1>1. cmp' = cmp /\ ctl' = ctl
    BY DEF TimerStep, Configure
  <1>2. status' \subseteq {0, CAPTURED}
    BY FlagStep
  <1>3. ipc \in Booting => status' = {}
    <2>1. ipc \in Booting => ~CapEvent /\ ~Tick /\ status = {}
      BY TimerFacts DEF FlagInv, TimerOK
    <2> QED
      BY <1>2, <2>1, FlagStep
  <1>4. cnt' \in 0..(Gate - 1)
    <2>1. cnt \in 0..(Gate - 1) /\ Gate \in Nat \ {0}
      BY FreqAssumption, ChannelAssumption DEF FlagInv, TimerOK
    <2> QED
      BY <2>1, CountStep
  <1> QED
    BY <1>1, <1>2, <1>3, <1>4, CountStep DEF FlagInv, TimerOK

\* main() sets the gate up and starts the timer.
LEMMA GateSet ==
  ASSUME FlagInv, Clock, CoreDone, ipc = "gate", ipc' = "start" PROVE TimerOK'
  <1>1. core.op = GateChannel /\ ClkIop
    BY Done DEF FlagInv, IopOp
  <1>2. core.op.sel = "TIMER_CMP" /\ core.op.i = 0 /\
        core.op.v = [CmpOff EXCEPT !.val = Gate - 1, !.en = TRUE, !.irq = TRUE]
    BY <1>1 DEF GateChannel
  <1>3. \A reg : Stores(reg) <=> core.op.sel = reg
    BY Done DEF FlagInv
  <1>4. Stores("TIMER_CMP") /\ ~Stores("TIMER_CTL")
    BY <1>2, <1>3
  <1>5. cmp' = [cmp EXCEPT ![0] = core.op.v] /\ ctl' = ctl
    BY <1>1, <1>2, <1>4, FreqAssumption DEF Clock, TimerStep, Configure
  <1>6. core.op.v.en = TRUE /\ core.op.v.irq = TRUE /\ core.op.v.val = Gate - 1
    BY <1>2 DEF CmpOff
  <1>7. DOMAIN cmp' = Channels /\ cmp'[0] = core.op.v
        /\ \A i \in Channels \ {0} : cmp'[i] = cmp[i]
    BY <1>5, FreqAssumption DEF FlagInv, TimerOK
  <1>8. status' = {} /\ cnt' = 0
    <2>1. status = {} /\ ~CapEvent /\ ~Tick
      BY TimerFacts DEF FlagInv, TimerOK, Booting
    <2> QED
      BY <1>1, <1>4, <2>1, FlagStep, CountStep DEF Clock, Booting
  <1>9. ~ctl'.en /\ ctl'.edge = "off" /\ \A i \in Channels \ {0} : ~cmp'[i].en
    BY <1>5, <1>7 DEF FlagInv, TimerOK, Booting
  <1>10. cmp'[0].en /\ cmp'[0].irq /\ cmp'[0].val = Gate - 1
    BY <1>6, <1>7
  <1>11. 0 \in 0..(Gate - 1)
    BY FreqAssumption, ChannelAssumption
  <1> QED
    BY <1>7, <1>8, <1>9, <1>10, <1>11 DEF TimerOK, Booting

LEMMA TimerStarted ==
  ASSUME FlagInv, Clock, CoreDone, ipc = "start", ipc' = "clear"
  PROVE  TimerOK' /\ status' = {}
  <1>1. core.op = Start /\ ClkIop
    BY Done DEF FlagInv, IopOp
  <1>2. core.op.sel = "TIMER_CTL" /\ core.op.v.reset = TRUE /\ core.op.v.ctl.en = TRUE
        /\ core.op.v.ctl.auto = TRUE /\ core.op.v.ctl.irq = TRUE
    BY <1>1 DEF Start, Store
  <1>3. \A reg : Stores(reg) <=> core.op.sel = reg
    BY Done DEF FlagInv
  <1>4. Stores("TIMER_CTL") /\ ~Stores("TIMER_CMP") /\ ~Stores("TIMER_STATUS")
    BY <1>2, <1>3
  <1>5. cmp' = cmp /\ ctl' = core.op.v.ctl /\ cnt' = 0
    BY <1>1, <1>2, <1>4 DEF Clock, TimerStep, Configure, Count
  <1>6. status' = {}
    <2>1. status = {} /\ ~CapEvent /\ ~Tick
      BY TimerFacts DEF FlagInv, TimerOK, Booting
    <2> QED
      BY <1>1, <2>1, FlagStep DEF Clock
  <1>7. ctl'.en /\ ctl'.auto /\ ctl'.irq
    BY <1>2, <1>5
  <1>8. 0 \in 0..(Gate - 1)
    BY FreqAssumption, ChannelAssumption
  <1> QED
    BY <1>5, <1>6, <1>7, <1>8 DEF FlagInv, TimerOK, Booting

\* The stores of the timer's settings are those two lines.
LEMMA SettingsKept ==
  ASSUME FlagInv, CoreDone, ipc \notin Booting
  PROVE  ~Stores("TIMER_CTL") /\ ~Stores("TIMER_CMP")
  <1>1. core.op \in IopOp(ipc) /\ ipc # "main"
    BY Done DEF FlagInv
  <1>2. CASE ipc \in {"status", "stamp"}
    BY <1>2, Done, NoStores DEF FlagInv
  <1>3. CASE ipc \in {"clear", "log", "ackCapture", "publish", "ackGate"}
    <2>1. \E v : core.op \in {Store("TIMER_STATUS", v), Store("B", v)}
      BY <1>1, <1>3 DEF IopOp, AckCapture, AckGate
    <2>2. core.op.sel \in {"TIMER_STATUS", "B"}
      BY <2>1 DEF Store
    <2> QED
      BY <1>3, <2>2, Done DEF FlagInv
  <1> QED
    BY <1>1, <1>2, <1>3 DEF FlagInv, ProgramOK, Booting, Handler
-----------------------------------------------------------------------------
\* What follows a line.
LEMMA NextLine ==
  ASSUME FlagInv, AccessDone
  PROVE  /\ ipc = "gate" => ipc' = "start"
         /\ ipc = "start" => ipc' = "clear"
         /\ ipc = "clear" => ipc' = "main"
         /\ ipc = "status" => ipc' = Handle(status) /\ seen' = status
         /\ ipc = "stamp" => ipc' = "log" /\ seen' = seen
         /\ ipc = "log" => ipc' = "ackCapture" /\ seen' = seen
         /\ ipc = "ackCapture" => ipc' = Handle(seen') /\ seen' = seen \ {CAPTURED}
         /\ ipc = "publish" => ipc' = "ackGate" /\ seen' = seen
         /\ ipc = "ackGate" => ipc' = Handle(seen') /\ seen' = seen \ {0}
         /\ ipc # "main" /\ resume' = resume
  <1>1. ipc' = After(ipc) /\ resume' = resume
    BY DEF AccessDone
  <1>2. ipc # "main"
    BY Done DEF FlagInv, AccessDone
  <1>3. seen' = CASE ipc = "status" -> status [] ipc = "ackCapture" -> seen \ {CAPTURED}
                  [] ipc = "ackGate" -> seen \ {0} [] OTHER -> seen
    BY DEF AccessDone
  <1> QED
    BY <1>1, <1>2, <1>3 DEF After

LEMMA HandleIs ==
  ASSUME NEW bits
  PROVE  /\ CAPTURED \in bits => Handle(bits) = "stamp"
         /\ CAPTURED \notin bits /\ 0 \in bits => Handle(bits) = "publish"
         /\ CAPTURED \notin bits /\ 0 \notin bits => Handle(bits) = resume
  BY DEF Handle

LEMMA OpsKept ==
  ASSUME ipc' = ipc, edgeCount' = edgeCount PROVE IopOp(ipc)' = IopOp(ipc)
  BY DEF IopOp, Store, Load, GateChannel, Start, AckCapture, AckGate, CmpOff

LEMMA ProgramStay ==
  ASSUME ProgramOK, CoreStep(IF core.st = "idle" THEN IopOp(ipc) ELSE {}, FALSE, FALSE),
         ~CoreDone, UNCHANGED <<ipc, resume, edgeCount>>
  PROVE  ProgramOK'
  <1> USE DEF ProgramOK
  <1>1. IopOp(ipc)' = IopOp(ipc)
    BY OpsKept
  <1>2. core' = core \/ core' = Idle
        \/ (\E op \in IopOp(ipc) : core' = Request(op))
        \/ (core.st = "req" /\ ~core.op.wr /\ core' = Await(core.op))
    BY DEF CoreStep, CoreBegin, CoreReset, CoreDone
  <1>3. core' = Idle \/ (core'.st \in {"req", "wait"} /\ core'.op \in IopOp(ipc))
    BY <1>2 DEF Request, Await, Idle
  <1>4. core'.st = "wait" => ~core'.op.wr
    BY <1>2 DEF Request, Await, Idle
  <1> QED
    BY <1>1, <1>3, <1>4

LEMMA ProgramDone ==
  ASSUME FlagInv, CoreStep(IF core.st = "idle" THEN IopOp(ipc) ELSE {}, FALSE, FALSE),
         AccessDone
  PROVE  ProgramOK'
  <1>1. core' = Idle
    BY DEF AccessDone, CoreDone, CoreStep, CoreBegin, CoreReset
  <1>2. resume' = resume /\ ipc' \in {"gate", "start", "clear", "main"} \cup Handler
    <2>1. \A bits : Handle(bits) \in {"stamp", "publish", "clear", "main"}
      BY HandleIs DEF FlagInv, ProgramOK
    <2> QED
      BY <2>1, NextLine DEF FlagInv, ProgramOK, Handler
  <1> QED
    BY <1>1, <1>2 DEF FlagInv, ProgramOK, Idle
-----------------------------------------------------------------------------
\* The flag and the edges it stands for: raised with the flag alone, counted
\* by the store of the log.
LEMMA RaisedFlag ==
  ASSUME FlagInv, TimerStep, ClkIop
  PROVE  /\ Raised \in {0, 1}
         /\ Raised = 1 <=> CAPTURED \in status' /\ CAPTURED \notin status
  BY FlagStep DEF Raised

LEMMA StayFlags ==
  ASSUME FlagInv, TimerStep, ClkIop, ~CoreDone
  PROVE  /\ CAPTURED \in status => CAPTURED \in status'
         /\ 0 \in status => 0 \in status'
  <1>1. Cleared = {}
    BY NoStores DEF Cleared
  <1> QED
    BY <1>1, FlagStep

LEMMA FlagStay ==
  ASSUME FlagInv, Clock, ClkIop, ~CoreDone, UNCHANGED <<ipc, seen, resume, edgeCount>>
  PROVE  FlagInv'
  <1>1. ProgramOK'
    BY ProgramStay DEF FlagInv, Clock
  <1>2. TimerOK'
    BY NoStores, TimerStay DEF Clock
  <1>3. SeenOK'
    BY StayFlags DEF Clock, FlagInv, SeenOK
  <1>4. LagOK'
    <2>1. lag' = lag + Raised
      <3>1. Counted = 0 /\ ~Opened /\ Raised \in {0, 1}
        BY RaisedFlag DEF Clock, Counted, Opened
      <3>2. lag \in {0, 1}
        BY DEF FlagInv, LagOK
      <3> QED
        BY <3>1, <3>2 DEF Clock, History
    <2>2. /\ Raised \in {0, 1}
          /\ Raised = 1 <=> CAPTURED \in status' /\ CAPTURED \notin status
      BY RaisedFlag DEF Clock
    <2>3. ipc = "ackCapture" => CAPTURED \in status
      BY DEF FlagInv, SeenOK
    <2>4. CAPTURED \in status => CAPTURED \in status'
      BY StayFlags DEF Clock
    <2> QED
      BY <2>1, <2>2, <2>3, <2>4 DEF FlagInv, LagOK
  <1> QED
    BY <1>1, <1>2, <1>3, <1>4 DEF FlagInv

LEMMA FlagTake ==
  ASSUME FlagInv, Clock, TakeInterrupt
  PROVE  FlagInv' /\ ipc \in {"clear", "main"} /\ ipc' = "status" /\ status # {}
  <1>1. ClkIop /\ ~CoreDone /\ ipc' = "status" /\ resume' = ipc /\ core' = Idle
        /\ UNCHANGED <<seen, edgeCount>>
    BY DEF TakeInterrupt, CoreDone
  <1>2. ipc \in {"clear", "main"} /\ status # {}
    BY TimerFacts DEF TakeInterrupt, FlagInv, Booting
  <1>3. ProgramOK'
    BY <1>1, <1>2 DEF ProgramOK, Idle, Handler
  <1>4. TimerOK'
    BY <1>1, <1>2, NoStores, TimerStay DEF Clock, Booting
  <1>5. SeenOK'
    BY <1>1 DEF SeenOK, Handler
  <1>6. LagOK'
    <2>1. lag' = lag + Raised
      <3>1. Counted = 0 /\ ~Opened /\ Raised \in {0, 1}
        BY <1>1, RaisedFlag DEF Clock, Counted, Opened
      <3>2. lag \in {0, 1}
        BY DEF FlagInv, LagOK
      <3> QED
        BY <1>1, <3>1, <3>2 DEF Clock, History
    <2>2. /\ Raised \in {0, 1}
          /\ Raised = 1 <=> CAPTURED \in status' /\ CAPTURED \notin status
      BY <1>1, RaisedFlag DEF Clock
    <2>3. CAPTURED \in status => CAPTURED \in status'
      BY <1>1, StayFlags DEF Clock
    <2> QED
      BY <1>1, <1>2, <2>1, <2>2, <2>3 DEF FlagInv, LagOK
  <1> QED
    BY <1>1, <1>2, <1>3, <1>4, <1>5, <1>6 DEF FlagInv

LEMMA DoneFlags ==
  ASSUME FlagInv, Clock, AccessDone
  PROVE  /\ ipc \notin {"clear", "ackCapture"} =>
                (CAPTURED \in status' <=> CAPTURED \in status \/ CapEvent)
         /\ ipc \in {"clear", "ackCapture"} => CAPTURED \notin status'
         /\ ipc \notin {"clear", "ackGate"} => (0 \in status' <=> 0 \in status \/ Tick)
         /\ ipc \in {"clear", "ackGate"} => 0 \notin status'
  <1>1. ClkIop /\ CoreDone
    BY DEF AccessDone, CoreDone
  <1>2. 0 # CAPTURED
    BY DEF CAPTURED
  <1>3. Cleared = CASE ipc = "clear" -> {0, CAPTURED} [] ipc = "ackCapture" -> {CAPTURED}
                    [] ipc = "ackGate" -> {0} [] OTHER -> {}
    BY <1>1, ClearedBy DEF FlagInv
  <1>4. /\ CAPTURED \in Cleared <=> ipc \in {"clear", "ackCapture"}
        /\ 0 \in Cleared <=> ipc \in {"clear", "ackGate"}
    BY <1>2, <1>3
  <1> QED
    BY <1>1, <1>4, FlagStep DEF Clock

LEMMA DoneLag ==
  ASSUME FlagInv, Clock, AccessDone
  PROVE  LagOK'
  <1>1. ClkIop /\ CoreDone
    BY DEF AccessDone, CoreDone
  <1>2. /\ Raised \in {0, 1}
        /\ Raised = 1 <=> CAPTURED \in status' /\ CAPTURED \notin status
    BY <1>1, RaisedFlag DEF Clock
  <1>3. lag \in {0, 1}
    BY DEF FlagInv, LagOK
  <1>4. CASE ipc = "clear"
    BY <1>1, <1>4, DoneFlags, NextLine DEF Clock, History, Opened, LagOK
  <1>5. CASE ipc = "log"
    <2>1. lag = 1 /\ CAPTURED \in status /\ ipc' = "ackCapture"
      BY <1>5, NextLine DEF FlagInv, LagOK, SeenOK
    <2>2. lag' = 0
      BY <1>1, <1>2, <1>5, <2>1 DEF Clock, History, Opened, Counted
    <2> QED
      BY <2>1, <2>2 DEF LagOK
  <1>6. CASE ipc \notin {"clear", "log"}
    <2>1. lag' = lag + Raised
      BY <1>1, <1>2, <1>3, <1>6 DEF Clock, History, Opened, Counted
    <2>2. ipc' # "ackCapture"
      BY <1>6, NextLine, HandleIs DEF FlagInv, ProgramOK, Handler
    <2>3. CASE ipc = "ackCapture"
      BY <1>2, <2>1, <2>2, <2>3, DoneFlags DEF FlagInv, LagOK
    <2>4. CASE ipc # "ackCapture"
      BY <1>2, <1>6, <2>1, <2>2, <2>4, DoneFlags DEF FlagInv, LagOK
    <2> QED
      BY <2>3, <2>4
  <1> QED
    BY <1>4, <1>5, <1>6

LEMMA DoneSeen ==
  ASSUME FlagInv, Clock, AccessDone
  PROVE  SeenOK'
  <1>1. 0 # CAPTURED
    BY DEF CAPTURED
  <1>2. resume \in {"clear", "main"}
    BY DEF FlagInv, ProgramOK
  <1>3. CASE ipc = "status"
    <2>1. CAPTURED \in seen' => CAPTURED \in status'
      BY <1>3, DoneFlags, NextLine
    <2>2. 0 \in seen' => 0 \in status'
      BY <1>3, DoneFlags, NextLine
    <2> QED
      BY <1>2, <1>3, <2>1, <2>2, NextLine, HandleIs DEF SeenOK, Handler
  <1>4. CASE ipc \in {"stamp", "log"}
    BY <1>4, DoneFlags, NextLine DEF FlagInv, SeenOK, Handler
  <1>5. CASE ipc = "ackCapture"
    <2>1. CAPTURED \notin seen' /\ (0 \in seen' => 0 \in status')
      BY <1>1, <1>5, DoneFlags, NextLine DEF FlagInv, SeenOK, Handler
    <2> QED
      BY <1>2, <1>5, <2>1, NextLine, HandleIs DEF SeenOK, Handler
  <1>6. CASE ipc = "publish"
    BY <1>6, DoneFlags, NextLine DEF FlagInv, SeenOK, Handler
  <1>7. CASE ipc = "ackGate"
    <2>1. ipc' = resume
      BY <1>7, NextLine, HandleIs DEF FlagInv, SeenOK
    <2> QED
      BY <1>2, <2>1 DEF SeenOK, Handler
  <1>8. CASE ipc \in {"gate", "start", "clear"}
    BY <1>8, NextLine DEF SeenOK, Handler
  <1> QED
    BY <1>3, <1>4, <1>5, <1>6, <1>7, <1>8, NextLine DEF FlagInv, ProgramOK, Handler

LEMMA FlagDone ==
  ASSUME FlagInv, Clock, AccessDone PROVE FlagInv'
  <1>1. ClkIop /\ CoreDone
    BY DEF AccessDone, CoreDone
  <1>2. ProgramOK'
    BY ProgramDone DEF Clock
  <1>3. TimerOK'
    <2>1. CASE ipc \in Booting
      BY <1>1, <2>1, NextLine, GateSet, TimerStarted DEF Booting
    <2>2. CASE ipc \notin Booting
      <3>1. ipc' \notin Booting
        BY <2>2, NextLine, HandleIs DEF FlagInv, ProgramOK, Handler, Booting
      <3> QED
        BY <1>1, <2>2, <3>1, SettingsKept, TimerStay DEF Clock, Booting
    <2> QED
      BY <2>1, <2>2
  <1> QED
    BY <1>2, <1>3, DoneSeen, DoneLag DEF FlagInv

\* An edge of sysclk alone and a move of the pad.
Quiet == UNCHANGED <<core, timerVars, ipc, seen, resume, edgeCount, lag, inGate, due, older>>

LEMMA QuietStep ==
  ASSUME [FreqNext]_freqVars PROVE Quiet \/ (Clock /\ ClkIop)
  <1>1. CASE Clock /\ ~ClkIop
    BY <1>1 DEF Clock, TimerStep, CoreStep, Firmware, TakeInterrupt, AccessDone, CoreDone, Quiet
  <1> QED
    BY <1>1 DEF FreqNext, Move, freqVars, Quiet

LEMMA FlagQuiet == ASSUME FlagInv, Quiet PROVE FlagInv'
  <1>1. IopOp(ipc)' = IopOp(ipc)
    BY OpsKept DEF Quiet
  <1> QED
    BY <1>1 DEF Quiet, timerVars, FlagInv, ProgramOK, TimerOK, SeenOK, LagOK

LEMMA FlagHolds == FreqSpec => []FlagInv
  <1>1. FlagInv /\ [FreqNext]_freqVars => FlagInv'
    <2> SUFFICES ASSUME FlagInv, [FreqNext]_freqVars PROVE FlagInv'
      OBVIOUS
    <2>1. CASE Quiet
      BY <2>1, FlagQuiet
    <2>2. CASE Clock /\ ClkIop
      BY <2>2, FlagStay, FlagTake, FlagDone DEF Clock, Firmware
    <2> QED
      BY <2>1, <2>2, QuietStep
  <1> QED
    BY <1>1, FlagInit, PTL DEF FreqSpec

\* Every edge that raises the capture flag is counted, and counted once, for
\* every length of the gate, short ones too: the handler clears the flag it
\* has counted and no flag of an edge it has not.
THEOREM EdgesCountedOnce == FreqSpec => []CountedOnce
  <1>1. FlagInv => CountedOnce
    <2> SUFFICES ASSUME FlagInv PROVE CountedOnce
      OBVIOUS
    <2>1. lag \in {0, 1}
      BY DEF FlagInv, LagOK
    <2>2. ipc = "main" /\ ~TimerIrq => lag = 0
      BY TimerFacts DEF FlagInv, LagOK, Booting
    <2> QED
      BY <2>1, <2>2 DEF CountedOnce
  <1> QED
    BY <1>1, FlagHolds, PTL
-----------------------------------------------------------------------------
(* The measurements.  A gate's tick waits for the handler no longer than its  *)
(* longest way to it: the whole of a capture's handling, begun just before.   *)

\* Cycles from the tick, but for the firmware's rest, to the line it stands at
Latest ==
    CASE ipc = "stamp" -> IF 0 \in seen THEN 11 ELSE 0
      [] ipc = "log" -> IF 0 \in seen THEN 14 ELSE 3
      [] ipc = "ackCapture" -> IF 0 \in seen THEN 16 ELSE 5
      [] ipc \in {"clear", "main"} -> 7
      [] ipc = "status" -> 8 [] ipc = "publish" -> 18 [] OTHER -> 20
\* and from there to the bus cycle it is in.
Under(st) == CASE st = "idle" -> 0 [] st = "req" -> 1 [] OTHER -> 2
PromptOK == 0 \in status => cnt <= Rest + Latest + Under(core.st)

\* The gate has ended and its measurement is not published.
Pending == 0 \in status /\ ipc # "ackGate"
\* The edges of the running gate that are counted.
Ahead == inGate - (lag - older)

\* A measurement takes one edge of the following gate at most, which that gate
\* then lacks: the one whose flag was read together with the tick's.
CountsOK ==
    /\ lag \in {0, 1} /\ older \in {0, 1}
    /\ edgeCount \in Nat /\ inGate \in Nat /\ due \in Nat
    /\ older = 1 => Pending /\ lag = 1 /\ inGate = 0
    /\ ~Pending => inGate - edgeCount - lag \in {0, 1}
    /\ Pending => due + inGate - edgeCount - lag \in {0, 1}
    /\ Pending => Ahead = 0 \/ (Ahead = 1 /\ ipc \in {"ackCapture", "publish"} /\ 0 \in seen)
    /\ Pending /\ ipc \in {"stamp", "log"} /\ 0 \notin seen => older = 1
    /\ ipc = "publish" => older = 0

GateInv == FlagInv /\ PromptOK /\ CountsOK

LEMMA GateInit == FreqInit => GateInv
  <1> SUFFICES ASSUME FreqInit PROVE GateInv
    OBVIOUS
  <1>1. status = {} /\ ipc = "gate" /\ edgeCount = 0 /\ lag = 0 /\ inGate = 0 /\ due = 0
        /\ older = 0
    BY DEF FreqInit, TimerReset
  <1> QED
    BY <1>1, FlagInit DEF GateInv, PromptOK, CountsOK, Pending, Ahead

LEMMA LatestIn ==
  ASSUME FlagInv
  PROVE  Latest \in 0..20 /\ Under(core.st) \in 0..2 /\ Latest + Under(core.st) <= 21
  <1>1. Latest \in 0..20 /\ Under(core.st) \in 0..2
    BY DEF Latest, Under
  <1>2. core.st \in {"idle", "req", "wait"}
    BY DEF FlagInv, ProgramOK, Idle
  <1>3. core.st = "wait" => ipc \in {"status", "stamp"}
    BY Lines DEF FlagInv, ProgramOK
  <1>4. ipc \in {"status", "stamp"} => Latest <= 11
    BY DEF Latest
  <1> QED
    BY <1>1, <1>2, <1>3, <1>4 DEF Under

\* A tick finds the one before acknowledged.
LEMMA TickAlone ==
  ASSUME Gate >= Rest + 23, FlagInv, PromptOK, Tick
  PROVE  0 \notin status /\ ipc \notin {"publish", "ackGate"} \cup Booting
         /\ (ipc \in Handler \ {"status"} => 0 \notin seen)
  <1>1. cnt = Gate - 1 /\ ipc \notin Booting
    BY TimerFacts DEF FlagInv
  <1>2. Gate \in Nat /\ Rest \in Nat
    BY FreqAssumption, ChannelAssumption
  <1>3. 0 \notin status
    BY <1>1, <1>2, LatestIn DEF PromptOK
  <1> QED
    BY <1>1, <1>3 DEF FlagInv, SeenOK, Handler

LEMMA PromptStay ==
  ASSUME GateInv, FlagInv', Clock, ClkIop, ~CoreDone, UNCHANGED <<ipc, seen>>,
         core'.st # "idle" \/ MayRest
  PROVE  PromptOK'
  <1> SUFFICES ASSUME 0 \in status' PROVE cnt' <= Rest + Latest' + Under(core'.st)
    BY DEF PromptOK
  <1>1. /\ Latest' = Latest /\ Latest \in 0..20 /\ Under(core.st) \in 0..2
        /\ Under(core'.st) \in 0..2 /\ Rest \in Nat /\ cnt \in Nat
    BY LatestIn, FreqAssumption DEF Latest, Under, GateInv, FlagInv, TimerOK
  <1>2. ~Stores("TIMER_CTL") /\ ~Stores("TIMER_STATUS")
    BY NoStores
  <1>3. (0 \in status \/ Tick) /\ ipc \notin Booting
    <2>1. 0 \in status \/ Tick
      BY <1>2, FlagStep DEF GateInv, Clock
    <2> QED
      BY <2>1, TimerFacts DEF GateInv, FlagInv, TimerOK
  <1>4. CASE Tick
    BY <1>1, <1>2, <1>3, <1>4, CountStep DEF GateInv, Clock
  <1>5. CASE ~Tick
    <2>1. cnt' = cnt + 1 /\ cnt <= Rest + Latest + Under(core.st)
      BY <1>2, <1>3, <1>5, CountStep DEF GateInv, Clock, PromptOK
    <2>2. CASE core'.st = "idle"
      <3>1. cnt < Rest
        <4>1. TimerIrq
          BY <1>3, <1>5, TimerFacts DEF GateInv, FlagInv
        <4> QED
          BY <1>3, <2>2, <4>1 DEF MayRest, Booting
      <3> QED
        BY <1>1, <2>1, <3>1
    <2>3. CASE core'.st # "idle"
      <3>1. \/ core.st = "idle" /\ core'.st = "req"
            \/ core.st = "req" /\ core'.st = "wait"
        <4>1. core.st \in {"idle", "req", "wait"}
          BY DEF GateInv, FlagInv, ProgramOK, Idle
        <4> QED
          BY <2>3, <4>1
          DEF Clock, CoreStep, CoreBegin, CoreReset, Request, Await, Idle, CoreDone
      <3>2. Under(core'.st) = Under(core.st) + 1
        BY <3>1 DEF Under
      <3> QED
        BY <1>1, <2>1, <3>2
    <2> QED
      BY <2>2, <2>3
  <1> QED
    BY <1>4, <1>5

LEMMA PromptTake ==
  ASSUME GateInv, Clock, TakeInterrupt PROVE PromptOK'
  <1> SUFFICES ASSUME 0 \in status' PROVE cnt' <= Rest + Latest' + Under(core'.st)
    BY DEF PromptOK
  <1>1. ClkIop /\ ~CoreDone /\ core.st = "idle" /\ core' = Idle
    BY DEF TakeInterrupt, CoreDone
  <1>2. ipc \in {"clear", "main"} /\ ipc' = "status" /\ ipc \notin Booting
    BY FlagTake DEF GateInv, Booting
  <1>3. Latest = 7 /\ Latest' = 8 /\ Under(core.st) = 0 /\ Under(core'.st) = 0
    BY <1>1, <1>2 DEF Latest, Under, Idle
  <1>4. ~Stores("TIMER_CTL") /\ ~Stores("TIMER_STATUS")
    BY <1>1, NoStores
  <1>5. 0 \in status \/ Tick
    BY <1>1, <1>4, FlagStep DEF GateInv, Clock
  <1>6. Rest \in Nat /\ cnt \in Nat
    BY FreqAssumption DEF GateInv, FlagInv, TimerOK
  <1> QED
    BY <1>1, <1>2, <1>3, <1>4, <1>5, <1>6, CountStep DEF GateInv, Clock, PromptOK

LEMMA PromptDone ==
  ASSUME Gate >= Rest + 23, GateInv, Clock, AccessDone PROVE PromptOK'
  <1> SUFFICES ASSUME 0 \in status' PROVE cnt' <= Rest + Latest' + Under(core'.st)
    BY DEF PromptOK
  <1> USE DEF GateInv
  <1>1. ClkIop /\ CoreDone /\ core.st \in {"req", "wait"}
    BY DEF AccessDone, CoreDone
  <1>2. ipc \notin {"clear", "ackGate"} /\ (0 \in status \/ Tick)
    BY DoneFlags
  <1>3. ipc \notin Booting
    BY <1>2, TimerFacts DEF FlagInv, TimerOK
  <1>4. ~Stores("TIMER_CTL")
    BY <1>1, <1>3, SettingsKept
  <1>5. Latest' \in 0..20 /\ Under(core'.st) \in 0..2 /\ Rest \in Nat /\ cnt \in Nat
        /\ Latest \in 0..20
    BY FreqAssumption DEF Latest, Under, FlagInv, TimerOK
  <1>6. CASE Tick
    BY <1>1, <1>3, <1>4, <1>5, <1>6, CountStep DEF Clock
  <1>7. CASE ~Tick
    <2>1. cnt' = cnt + 1 /\ cnt <= Rest + Latest + Under(core.st) /\ 0 \in status
      BY <1>1, <1>2, <1>3, <1>4, <1>7, CountStep DEF Clock, PromptOK
    <2>2. 0 # CAPTURED
      BY DEF CAPTURED
    <2>3. Latest + Under(core.st) + 1 <= Latest'
      <3>1. CASE ipc = "status"
        <4>1. 0 \in seen' /\ ipc' \in {"stamp", "publish"}
          BY <2>1, <3>1, NextLine, HandleIs
        <4> QED
          BY <1>1, <3>1, <4>1 DEF Latest, Under
      <3>2. CASE ipc = "stamp"
        BY <1>1, <3>2, NextLine DEF Latest, Under
      <3>3. CASE ipc \in {"log", "ackCapture", "publish"}
        <4>1. Under(core.st) = 1
          BY <1>1, <3>3, Lines DEF FlagInv, ProgramOK, Under
        <4>2. CASE ipc = "log"
          BY <4>1, <4>2, NextLine DEF Latest
        <4>3. CASE ipc = "ackCapture"
          <5>1. /\ 0 \in seen => ipc' = "publish"
                /\ 0 \notin seen => ipc' \in {"clear", "main"}
            BY <2>2, <4>3, NextLine, HandleIs DEF FlagInv, ProgramOK
          <5> QED
            BY <4>1, <4>3, <5>1 DEF Latest
        <4>4. CASE ipc = "publish"
          BY <4>1, <4>4, NextLine DEF Latest
        <4> QED
          BY <3>3, <4>2, <4>3, <4>4
      <3> QED
        BY <1>2, <1>3, <3>1, <3>2, <3>3, NextLine DEF FlagInv, ProgramOK, Handler, Booting
    <2>4. Under(core.st) \in 0..2
      BY DEF Under
    <2> QED
      BY <1>5, <2>1, <2>3, <2>4
  <1> QED
    BY <1>6, <1>7
-----------------------------------------------------------------------------
\* An edge at which nothing is counted and main() does not open the window.
LEMMA PlainStep ==
  ASSUME Gate >= Rest + 23, GateInv, FlagInv', Clock, ClkIop, Counted = 0, ~Opened
  PROVE  /\ lag' = lag + Raised /\ lag' \in {0, 1} /\ Raised \in {0, 1}
         /\ Tick => /\ inGate' = 0 /\ due' = inGate + Raised /\ older' = lag'
                    /\ older = 0 /\ inGate - edgeCount - lag \in {0, 1}
         /\ ~Tick => /\ inGate' = inGate + Raised /\ due' = due /\ older' = older
                     /\ (older = 1 => Raised = 0)
                     /\ inGate' - lag' = inGate - lag
         /\ inGate' \in Nat /\ due' \in Nat
  <1> USE DEF GateInv
  <1>1. Raised \in {0, 1} /\ (Raised = 1 => CAPTURED \notin status)
    BY RaisedFlag DEF Clock
  <1>2. lag \in {0, 1} /\ inGate \in Nat /\ due \in Nat
    BY DEF CountsOK
  <1>3. /\ lag' = lag + Raised
        /\ inGate' = IF Tick THEN 0 ELSE inGate + Raised
        /\ due' = IF Tick THEN inGate + Raised ELSE due
        /\ older' = IF Tick THEN lag' ELSE older
    BY <1>1, <1>2 DEF Clock, History
  <1>4. lag' \in {0, 1}
    BY DEF FlagInv, LagOK
  <1>5. Tick => older = 0 /\ inGate - edgeCount - lag \in {0, 1}
    BY TickAlone DEF CountsOK, Pending
  <1>6. older = 1 => Raised = 0
    <2>1. older = 1 => CAPTURED \in status
      BY DEF CountsOK, FlagInv, LagOK
    <2> QED
      BY <1>1, <2>1
  <1>7. ~Tick => inGate' - lag' = inGate - lag
    BY <1>1, <1>2, <1>3
  <1>8. inGate' \in Nat /\ due' \in Nat
    BY <1>1, <1>2, <1>3
  <1> QED
    BY <1>1, <1>3, <1>4, <1>5, <1>6, <1>7, <1>8

\* What remains to be shown of CountsOK after a tick, and without one.
LEMMA AfterTick ==
  ASSUME Gate >= Rest + 23, GateInv, FlagInv', Clock, ClkIop, Counted = 0, ~Opened, Tick,
         edgeCount' = edgeCount, Pending', ipc' # "publish",
         ipc' \in {"stamp", "log"} => lag = 1
  PROVE  CountsOK'
  <1>1. /\ lag' = lag + Raised /\ lag' \in {0, 1} /\ Raised \in {0, 1}
        /\ inGate' = 0 /\ due' = inGate + Raised /\ older' = lag'
        /\ inGate - edgeCount - lag \in {0, 1} /\ inGate' \in Nat /\ due' \in Nat
    BY PlainStep
  <1>2. edgeCount \in Nat /\ lag \in {0, 1} /\ inGate \in Nat
    BY DEF GateInv, CountsOK
  <1>3. due' + inGate' - edgeCount' - lag' \in {0, 1}
    BY <1>1, <1>2
  <1>4. Ahead' = 0
    BY <1>1 DEF Ahead
  <1> QED
    BY <1>1, <1>2, <1>3, <1>4 DEF CountsOK

LEMMA WithoutTick ==
  ASSUME Gate >= Rest + 23, GateInv, FlagInv', Clock, ClkIop, Counted = 0, ~Opened, ~Tick,
         edgeCount' = edgeCount, Pending' <=> Pending,
         Pending /\ Ahead = 1 => ipc' \in {"ackCapture", "publish"} /\ 0 \in seen',
         Pending /\ ipc' \in {"stamp", "log"} /\ 0 \notin seen' => older = 1,
         ipc' = "publish" => older = 0
  PROVE  CountsOK'
  <1>1. /\ lag' = lag + Raised /\ lag' \in {0, 1} /\ Raised \in {0, 1}
        /\ inGate' = inGate + Raised /\ due' = due /\ older' = older
        /\ older = 1 => Raised = 0
        /\ inGate' - lag' = inGate - lag
        /\ inGate' \in Nat /\ due' \in Nat
    BY PlainStep
  <1>2. /\ edgeCount \in Nat /\ lag \in {0, 1} /\ older \in {0, 1} /\ inGate \in Nat
        /\ due \in Nat /\ (older = 1 => Pending /\ lag = 1 /\ inGate = 0)
        /\ ~Pending => inGate - edgeCount - lag \in {0, 1}
        /\ Pending => due + inGate - edgeCount - lag \in {0, 1}
        /\ Pending => Ahead \in {0, 1}
    BY DEF GateInv, CountsOK
  <1>3. Ahead' = Ahead
    BY <1>1, <1>2 DEF Ahead
  <1>4. ~Pending' => inGate' - edgeCount' - lag' \in {0, 1}
    BY <1>1, <1>2
  <1>5. Pending' => due' + inGate' - edgeCount' - lag' \in {0, 1}
    BY <1>1, <1>2
  <1>6. older' = 1 => Pending' /\ lag' = 1 /\ inGate' = 0
    BY <1>1, <1>2
  <1>7. Pending' => Ahead' = 0 \/ (Ahead' = 1 /\ ipc' \in {"ackCapture", "publish"} /\ 0 \in seen')
    BY <1>2, <1>3
  <1> QED
    BY <1>1, <1>2, <1>4, <1>5, <1>6, <1>7 DEF CountsOK

\* An edge at which no access completes.
LEMMA CountsStay ==
  ASSUME Gate >= Rest + 23, GateInv, FlagInv', Clock, ClkIop, ~CoreDone,
         UNCHANGED <<seen, edgeCount>>,
         ipc' = ipc \/ (ipc \in {"clear", "main"} /\ ipc' = "status")
  PROVE  CountsOK'
  <1>1. Counted = 0 /\ ~Opened
    BY DEF Counted, Opened
  <1>2. 0 \in status' <=> 0 \in status \/ Tick
    <2>1. Cleared = {}
      BY NoStores DEF Cleared
    <2> QED
      BY <2>1, FlagStep DEF GateInv, Clock
  <1>3. CASE Tick
    <2>1. 0 \notin status /\ ipc \notin {"publish", "ackGate"}
      BY <1>3, TickAlone DEF GateInv
    <2>2. Pending' /\ ipc' # "publish"
      BY <1>2, <1>3, <2>1 DEF Pending
    <2>3. ipc' \in {"stamp", "log"} => lag = 1
      BY DEF GateInv, FlagInv, LagOK, SeenOK
    <2> QED
      BY <1>1, <1>3, <2>2, <2>3, AfterTick
  <1>4. CASE ~Tick
    <2>1. Pending' <=> Pending
      BY <1>2, <1>4 DEF Pending
    <2>2. Pending /\ Ahead = 1 => ipc' \in {"ackCapture", "publish"} /\ 0 \in seen'
      BY DEF GateInv, CountsOK
    <2>3. /\ Pending /\ ipc' \in {"stamp", "log"} /\ 0 \notin seen' => older = 1
          /\ ipc' = "publish" => older = 0
      BY DEF GateInv, CountsOK
    <2> QED
      BY <1>1, <1>4, <2>1, <2>2, <2>3, WithoutTick
  <1> QED
    BY <1>3, <1>4

\* The lines that touch the counts: main() opens the window,
LEMMA CountsOpen ==
  ASSUME GateInv, Clock, AccessDone, ipc = "clear" PROVE CountsOK'
  <1>1. ClkIop /\ Opened
    BY DEF AccessDone, CoreDone, Opened
  <1>2. lag' = 0 /\ inGate' = edgeCount /\ due' = 0 /\ older' = 0 /\ edgeCount' = edgeCount
    BY <1>1 DEF Clock, History, AccessDone
  <1>3. ipc' = "main" /\ 0 \notin status'
    BY NextLine, DoneFlags DEF GateInv
  <1>4. edgeCount \in Nat
    BY DEF GateInv, CountsOK
  <1> QED
    BY <1>2, <1>3, <1>4 DEF CountsOK, Pending

\* the handler counts,
LEMMA CountsLog ==
  ASSUME Gate >= Rest + 23, GateInv, FlagInv', Clock, AccessDone, ipc = "log" PROVE CountsOK'
  <1> USE DEF GateInv
  <1>1. ClkIop /\ ~Opened /\ Counted = 1
    BY DEF AccessDone, CoreDone, Opened, Counted
  <1>2. lag = 1 /\ CAPTURED \in status /\ ipc' = "ackCapture" /\ seen' = seen
    BY NextLine DEF FlagInv, LagOK, SeenOK
  <1>3. Raised = 0
    BY <1>1, <1>2, RaisedFlag DEF Clock
  <1>4. /\ inGate \in Nat /\ due \in Nat /\ edgeCount \in Nat /\ older \in {0, 1}
        /\ older = 1 => inGate = 0
        /\ ~Pending => inGate - edgeCount - lag \in {0, 1}
        /\ Pending => due + inGate - edgeCount - lag \in {0, 1} /\ Ahead = 0
    BY DEF CountsOK
  <1>5. edgeCount' = edgeCount + 1
    BY DEF AccessDone
  <1>6. /\ lag' = 0 /\ older' = 0
        /\ inGate' = IF Tick THEN 0 ELSE inGate
        /\ due' = IF Tick THEN inGate ELSE due
    BY <1>1, <1>2, <1>3, <1>4 DEF Clock, History
  <1>7. 0 \in status' <=> 0 \in status \/ Tick
    BY DoneFlags
  <1>8. CASE Tick
    <2>1. ~Pending /\ Pending'
      BY <1>2, <1>7, <1>8, TickAlone DEF Pending
    <2>2. due' + inGate' - edgeCount' - lag' \in {0, 1}
      BY <1>2, <1>4, <1>5, <1>6, <1>8, <2>1
    <2>3. Ahead' = 0
      BY <1>6, <1>8 DEF Ahead
    <2> QED
      BY <1>2, <1>4, <1>5, <1>6, <1>8, <2>1, <2>2, <2>3 DEF CountsOK
  <1>9. CASE ~Tick
    <2>1. Pending' <=> Pending
      BY <1>2, <1>7, <1>9 DEF Pending
    <2>2. ~Pending' => inGate' - edgeCount' - lag' \in {0, 1}
      BY <1>2, <1>4, <1>5, <1>6, <1>9, <2>1
    <2>3. Pending' => due' + inGate' - edgeCount' - lag' \in {0, 1}
      BY <1>2, <1>4, <1>5, <1>6, <1>9, <2>1
    <2>4. Ahead' = inGate
      BY <1>4, <1>6, <1>9 DEF Ahead
    <2>5. Pending /\ older = 0 => inGate = 1 /\ 0 \in seen'
      <3>1. Pending /\ older = 0 => inGate = 1
        BY <1>2, <1>4 DEF Ahead
      <3>2. Pending /\ older = 0 => 0 \in seen
        BY DEF CountsOK
      <3> QED
        BY <1>2, <3>1, <3>2
    <2>6. Pending' => Ahead' = 0 \/ (Ahead' = 1 /\ ipc' \in {"ackCapture", "publish"} /\ 0 \in seen')
      BY <1>2, <1>4, <2>1, <2>4, <2>5
    <2> QED
      BY <1>2, <1>4, <1>5, <1>6, <1>9, <2>2, <2>3, <2>6 DEF CountsOK
  <1> QED
    BY <1>8, <1>9

LEMMA LessNone ==
  ASSUME NEW g \in Nat, NEW l \in {0, 1}, NEW e \in Nat, e = 0, g - l \in {0, 1}
  PROVE  g - e - l \in {0, 1}
  OBVIOUS

\* and publishes: what it is ahead of the new gate is what that gate lacks.
LEMMA CountsPublish ==
  ASSUME Gate >= Rest + 23, GateInv, FlagInv', Clock, AccessDone, ipc = "publish"
  PROVE  CountsOK'
  <1> USE DEF GateInv
  <1>1. ClkIop /\ ~Opened /\ Counted = 0 /\ edgeCount' = 0
    BY DEF AccessDone, CoreDone, Opened, Counted
  <1>2. ~Tick /\ Pending /\ older = 0 /\ ipc' = "ackGate"
    BY TickAlone, NextLine DEF FlagInv, SeenOK, CountsOK, Pending, Handler
  <1>3. Ahead \in {0, 1} /\ lag \in {0, 1} /\ inGate \in Nat
    BY <1>2 DEF CountsOK
  <1>4. inGate - lag \in {0, 1}
    BY <1>2, <1>3 DEF Ahead
  <1>5. /\ lag' \in {0, 1} /\ inGate' - lag' = inGate - lag /\ older' = older
        /\ inGate' \in Nat /\ due' \in Nat
    BY <1>1, <1>2, PlainStep
  <1>6. inGate' - lag' \in {0, 1} /\ inGate' \in Nat /\ lag' \in {0, 1}
    BY <1>4, <1>5
  <1>7. ~Pending' /\ older' = 0
    BY <1>2, <1>5 DEF Pending
  <1>8. edgeCount' = 0 /\ edgeCount' \in Nat
    BY <1>1
  <1>9. inGate' - edgeCount' - lag' \in {0, 1}
    BY <1>6, <1>8, LessNone
  <1>10. /\ lag' \in {0, 1} /\ inGate' \in Nat /\ due' \in Nat /\ edgeCount' \in Nat
         /\ ipc' = "ackGate"
    BY <1>2, <1>5, <1>8
  <1>11. older' \in {0, 1} /\ older' # 1 /\ ipc' # "publish"
    BY <1>7, <1>10
  <1> QED
    BY <1>7, <1>9, <1>10, <1>11, Zenon DEF CountsOK

LEMMA CountsOther ==
  ASSUME Gate >= Rest + 23, GateInv, FlagInv', Clock, AccessDone,
         ipc \notin {"clear", "log", "publish"}
  PROVE  CountsOK'
  <1> USE DEF GateInv
  <1>1. ClkIop /\ ~Opened /\ Counted = 0 /\ edgeCount' = edgeCount
    BY DEF AccessDone, CoreDone, Opened, Counted
  <1>2. 0 # CAPTURED /\ resume \in {"clear", "main"}
    BY DEF CAPTURED, FlagInv, ProgramOK
  <1>3. older \in {0, 1} /\ (older = 1 => Pending /\ lag = 1)
    BY DEF CountsOK
  <1>4. CASE Tick
    <2>1. 0 \notin status /\ ipc \notin {"publish", "ackGate"} \cup Booting
          /\ (ipc \in Handler \ {"status"} => 0 \notin seen)
      BY <1>4, TickAlone
    <2>2. ipc \in {"status", "stamp", "ackCapture"}
      BY <2>1, NextLine DEF FlagInv, ProgramOK, Handler, Booting
    <2>3. ipc' \notin {"publish", "ackGate"} /\ (ipc' \in {"stamp", "log"} => lag = 1)
      <3>1. CASE ipc = "status"
        BY <1>2, <2>1, <3>1, NextLine, HandleIs DEF FlagInv, LagOK
      <3>2. CASE ipc = "stamp"
        BY <3>2, NextLine DEF FlagInv, LagOK, SeenOK
      <3>3. CASE ipc = "ackCapture"
        BY <1>2, <2>1, <3>3, NextLine, HandleIs DEF Handler
      <3> QED
        BY <2>2, <3>1, <3>2, <3>3
    <2>4. Pending'
      BY <1>4, <2>2, <2>3, DoneFlags DEF Pending
    <2> QED
      BY <1>1, <1>4, <2>3, <2>4, AfterTick
  <1>5. CASE ~Tick
    <2>1. CASE ipc \in Booting
      <3>1. ~Pending /\ ~Pending' /\ ipc' \in {"start", "clear"} /\ older = 0
        BY <1>3, <1>5, <2>1, DoneFlags, NextLine DEF FlagInv, TimerOK, Pending, Booting
      <3> QED
        BY <1>1, <1>5, <3>1, WithoutTick
    <2>2. CASE ipc = "status"
      <3>1. Pending' <=> Pending
        BY <1>2, <1>5, <2>2, DoneFlags, NextLine, HandleIs DEF Pending
      <3>2. Pending => Ahead # 1
        BY <2>2 DEF CountsOK
      <3>3. ipc' \in {"stamp", "log"} /\ Pending => 0 \in seen'
        BY <2>2, NextLine DEF Pending
      <3>4. ipc' = "publish" => older = 0
        <4>1. ipc' = "publish" => CAPTURED \notin status
          BY <2>2, NextLine, HandleIs
        <4>2. older \in {0, 1}
          BY DEF CountsOK
        <4> QED
          BY <1>3, <4>1, <4>2 DEF FlagInv, LagOK
      <3> QED
        BY <1>1, <1>5, <3>1, <3>2, <3>3, <3>4, WithoutTick
    <2>3. CASE ipc = "stamp"
      <3>1. ipc' = "log" /\ seen' = seen
        BY <2>3, NextLine
      <3>2. Pending' <=> Pending
        BY <1>5, <2>3, <3>1, DoneFlags DEF Pending
      <3>3. (Pending => Ahead # 1) /\ (Pending /\ 0 \notin seen => older = 1)
        BY <2>3 DEF CountsOK
      <3> QED
        BY <1>1, <1>5, <3>1, <3>2, <3>3, WithoutTick
    <2>4. CASE ipc = "ackCapture"
      <3>1. /\ 0 \in seen' <=> 0 \in seen
            /\ 0 \in seen => ipc' = "publish"
            /\ 0 \notin seen => ipc' \in {"clear", "main"}
        BY <1>2, <2>4, NextLine, HandleIs
      <3>2. Pending' <=> Pending
        BY <1>5, <2>4, <3>1, DoneFlags DEF Pending
      <3>3. Pending /\ Ahead = 1 => 0 \in seen
        BY DEF CountsOK
      <3>4. older = 0
        BY <1>3, <2>4 DEF CountsOK, FlagInv, LagOK
      <3>5. ipc' \notin {"stamp", "log"}
        BY <3>1
      <3> QED
        BY <1>1, <1>5, <3>1, <3>2, <3>3, <3>4, <3>5, WithoutTick
    <2>5. CASE ipc = "ackGate"
      <3>1. ipc' \in {"clear", "main"}
        BY <1>2, <2>5, NextLine, HandleIs DEF FlagInv, SeenOK
      <3>2. ~Pending /\ ~Pending'
        BY <2>5, DoneFlags DEF Pending
      <3> QED
        BY <1>1, <1>5, <3>1, <3>2, WithoutTick
    <2> QED
      BY <2>1, <2>2, <2>3, <2>4, <2>5, NextLine DEF FlagInv, ProgramOK, Handler, Booting
  <1> QED
    BY <1>4, <1>5
-----------------------------------------------------------------------------
LEMMA GateStep ==
  ASSUME Gate >= Rest + 23, GateInv, [FreqNext]_freqVars PROVE GateInv'
  <1>1. CASE Quiet
    BY <1>1, FlagQuiet
    DEF GateInv, Quiet, timerVars, PromptOK, Latest, Under, CountsOK, Pending, Ahead
  <1>2. CASE Clock /\ ClkIop /\ ~Firmware
    <2>1. ~CoreDone /\ UNCHANGED <<ipc, seen, resume, edgeCount>>
          /\ (core'.st # "idle" \/ MayRest)
      BY <1>2 DEF Clock
    <2>2. FlagInv'
      BY <1>2, <2>1, FlagStay DEF GateInv
    <2> QED
      BY <1>2, <2>1, <2>2, PromptStay, CountsStay DEF GateInv
  <1>3. CASE Clock /\ TakeInterrupt
    <2>1. ClkIop /\ ~CoreDone /\ UNCHANGED <<seen, edgeCount>>
      BY <1>3 DEF TakeInterrupt, CoreDone
    <2>2. FlagInv' /\ ipc \in {"clear", "main"} /\ ipc' = "status"
      BY <1>3, FlagTake DEF GateInv
    <2> QED
      BY <1>3, <2>1, <2>2, PromptTake, CountsStay DEF GateInv
  <1>4. CASE Clock /\ AccessDone
    <2>1. FlagInv'
      BY <1>4, FlagDone DEF GateInv
    <2>2. CountsOK'
      BY <1>4, <2>1, CountsOpen, CountsLog, CountsPublish, CountsOther
    <2> QED
      BY <1>4, <2>1, <2>2, PromptDone DEF GateInv
  <1> QED
    BY <1>1, <1>2, <1>3, <1>4, QuietStep DEF Firmware

LEMMA GateHolds == ASSUME Gate >= Rest + 23 PROVE FreqSpec => []GateInv
  <1>1. GateInv /\ [FreqNext]_freqVars => GateInv'
    BY GateStep
  <1> QED
    BY <1>1, GateInit, PTL DEF FreqSpec

\* With a gate longer than the handler's way through it no edge from before a
\* gate's tick is left out of its measurement,
THEOREM MeasuredBeforeTick ==
  ASSUME Gate >= Rest + 23 PROVE FreqSpec => []EdgesBeforeTick
  <1>1. GateInv => EdgesBeforeTick
    BY DEF GateInv, CountsOK, EdgesBeforeTick, Publishing
  <1> QED
    BY <1>1, GateHolds, PTL

\* and the measurement is the gate's edges to within one, for ever: what one
\* gate takes early the next one lacks, and nothing adds up.
THEOREM MeasuredWithinOne ==
  ASSUME Gate >= Rest + 23 PROVE FreqSpec => []WithinOne
  <1>1. GateInv => WithinOne
    <2> SUFFICES ASSUME GateInv, Publishing PROVE edgeCount - due \in -1..1
      BY DEF WithinOne
    <2>1. Pending /\ older = 0
      BY DEF GateInv, FlagInv, SeenOK, CountsOK, Publishing, Pending, Handler
    <2>2. /\ due + inGate - edgeCount - lag \in {0, 1} /\ Ahead \in {0, 1}
          /\ due \in Nat /\ inGate \in Nat /\ edgeCount \in Nat /\ lag \in {0, 1}
      BY <2>1 DEF GateInv, CountsOK
    <2>3. inGate - lag \in {0, 1}
      BY <2>1, <2>2 DEF Ahead
    <2> QED
      BY <2>2, <2>3
  <1> QED
    BY <1>1, GateHolds, PTL
-----------------------------------------------------------------------------
(* The widths.  The flag goes up again only after the handler's three lines   *)
(* that end in its clear, so an edge is counted every fourth cycle at most.   *)

\* main() has not opened the window yet; what was counted until then goes on.
Opening == ipc \in Booting \cup {"clear"} \/ (ipc \in Handler /\ resume = "clear")
Carried == IF Opening THEN 0 ELSE Gate + 3
\* The cycles the clear of a flag that is up is away at least.
Away == IF CAPTURED \notin status THEN 0
        ELSE CASE ipc = "stamp" -> 2 [] ipc = "log" -> 1 [] ipc = "ackCapture" -> 0
               [] OTHER -> 3
RateOK ==
    /\ phase \in 0..(N - 1) /\ capVal \in 0..(Gate - 1)
    /\ seen \subseteq {0, CAPTURED}
    /\ 4 * inGate <= cnt + Away + Carried
    /\ 4 * due <= Gate + 3 + Carried

LEMMA AwayIn == Away \in 0..3 /\ (CAPTURED \notin status => Away = 0)
  BY DEF Away

LEMMA CarriedIn == ASSUME FlagInv PROVE Carried \in Nat /\ Carried <= Gate + 3 /\ Gate \in Nat
  BY FreqAssumption, ChannelAssumption DEF Carried

LEMMA AwayFlag ==
  ASSUME CAPTURED \in status, ipc \notin {"stamp", "log", "ackCapture"} PROVE Away = 3
  BY DEF Away

\* The clear comes nearer by a line in a step at most; a flag that goes up finds
\* the handler outside those lines.
LEMMA AwayStay ==
  ASSUME FlagInv, Clock, ClkIop, ~CoreDone,
         ipc' = ipc \/ (ipc \in {"clear", "main"} /\ ipc' = "status")
  PROVE  Away' >= Away - 1 /\ (Raised = 1 => Away' = 3)
  <1>1. CAPTURED \in status => CAPTURED \in status'
    BY StayFlags DEF Clock
  <1>2. Raised = 1 => CAPTURED \in status' /\ CAPTURED \notin status
    BY RaisedFlag DEF Clock
  <1>3. ipc' \in {"stamp", "log", "ackCapture"} => ipc' = ipc /\ CAPTURED \in status
    BY DEF FlagInv, SeenOK
  <1>4. CASE ipc' \in {"stamp", "log", "ackCapture"}
    <2>1. Away' = Away
      BY <1>1, <1>3, <1>4 DEF Away
    <2> QED
      BY <1>2, <1>3, <1>4, <2>1, AwayIn
  <1>5. CASE ipc' \notin {"stamp", "log", "ackCapture"}
    <2>1. CAPTURED \in status' => Away' = 3
      BY <1>5 DEF Away
    <2>2. CAPTURED \notin status' => Away = 0 /\ Away' = 0
      BY <1>1 DEF Away
    <2> QED
      BY <1>2, <2>1, <2>2, AwayIn
  <1> QED
    BY <1>4, <1>5

LEMMA AwayDone ==
  ASSUME FlagInv, Clock, AccessDone, ipc # "clear"
  PROVE  Away' >= Away - 1 /\ (Raised = 1 => Away' = 3)
  <1>1. ClkIop
    BY DEF AccessDone, CoreDone
  <1>2. Raised = 1 => CAPTURED \in status' /\ CAPTURED \notin status
    BY <1>1, RaisedFlag DEF Clock
  <1>3. resume \in {"clear", "main"} /\ 0 # CAPTURED
    BY DEF FlagInv, ProgramOK, CAPTURED
  <1>4. CASE ipc \in {"stamp", "log"}
    <2>1. CAPTURED \in status /\ CAPTURED \in status'
      BY <1>4, DoneFlags DEF FlagInv, SeenOK
    <2>2. ipc = "stamp" => Away = 2 /\ Away' = 1
      BY <2>1, NextLine DEF Away
    <2>3. ipc = "log" => Away = 1 /\ Away' = 0
      BY <2>1, NextLine DEF Away
    <2> QED
      BY <1>2, <1>4, <2>1, <2>2, <2>3
  <1>5. CASE ipc = "ackCapture"
    <2>1. CAPTURED \notin status' /\ Away = 0
      BY <1>5, DoneFlags DEF Away
    <2> QED
      BY <1>2, <2>1, AwayIn DEF Away
  <1>6. CASE ipc \notin {"stamp", "log", "ackCapture"}
    <2>1. CAPTURED \in status => CAPTURED \in status'
      BY <1>6, DoneFlags
    <2>2. CASE ipc' = "stamp"
      <3>1. CAPTURED \in status
        <4>1. ipc \in {"status", "ackGate"}
          BY <1>3, <1>6, <2>2, NextLine DEF FlagInv, ProgramOK, Handler
        <4>2. ipc # "ackGate"
          <5>1. ipc = "ackGate" => CAPTURED \notin seen'
            BY NextLine DEF FlagInv, SeenOK
          <5> QED
            BY <1>3, <2>2, <5>1, NextLine, HandleIs
        <4> QED
          BY <1>3, <2>2, <4>1, <4>2, NextLine, HandleIs
      <3>2. Away' = 2 /\ Away <= 3
        BY <2>1, <2>2, <3>1, AwayIn DEF Away
      <3> QED
        BY <1>2, <3>1, <3>2, AwayIn
    <2>3. CASE ipc' # "stamp"
      <3>1. ipc' \notin {"stamp", "log", "ackCapture"}
        BY <1>3, <1>6, <2>3, NextLine, HandleIs DEF FlagInv, ProgramOK, Handler
      <3>2. CAPTURED \in status' => Away' = 3
        BY <3>1 DEF Away
      <3>3. CAPTURED \notin status' => Away = 0 /\ Away' = 0
        BY <2>1 DEF Away
      <3> QED
        BY <1>2, <3>2, <3>3, AwayIn
    <2> QED
      BY <2>2, <2>3
  <1> QED
    BY <1>4, <1>5, <1>6

\* The window is opened by one line and stays open.
LEMMA OpeningStays ==
  ASSUME FlagInv, Clock, ClkIop, ~Opened PROVE Opening' <=> Opening
  <1>1. resume \in {"clear", "main"}
    BY DEF FlagInv, ProgramOK
  <1>2. CASE ~Firmware
    BY <1>2 DEF Clock, Opening
  <1>3. CASE TakeInterrupt
    <2>1. ipc \in {"clear", "main"} /\ ipc' = "status" /\ resume' = ipc
      BY <1>3, FlagTake DEF TakeInterrupt
    <2> QED
      BY <2>1 DEF Opening, Booting, Handler
  <1>4. CASE AccessDone
    <2>1. ipc # "clear"
      BY <1>4 DEF AccessDone, Opened
    <2>2. CASE ipc \in Booting
      BY <1>4, <2>2, NextLine DEF Opening, Booting
    <2>3. CASE ipc \in Handler
      <3>1. ipc' = resume \/ ipc' \in Handler
        BY <1>4, <2>3, NextLine, HandleIs DEF Handler
      <3>2. resume' = resume
        BY <1>4, NextLine
      <3>3. Opening <=> resume = "clear"
        BY <2>3 DEF Opening, Booting, Handler
      <3>4. Opening' <=> resume = "clear"
        BY <1>1, <3>1, <3>2 DEF Opening, Booting, Handler
      <3> QED
        BY <3>3, <3>4
    <2> QED
      BY <1>4, <2>1, <2>2, <2>3, NextLine DEF FlagInv, ProgramOK, Booting
  <1> QED
    BY <1>2, <1>3, <1>4 DEF Firmware

LEMMA RateSum ==
  ASSUME NEW g \in Nat, NEW d \in Nat, NEW c \in Nat, NEW a \in 0..3, NEW k \in Nat,
         NEW r \in {0, 1}, NEW aa \in 0..3, NEW cc \in Nat, NEW w \in Nat,
         4 * g <= c + a + k, 4 * d <= w + 3 + k, aa >= a - 1,
         r = 1 => a = 0 /\ aa = 3
  PROVE  /\ 4 * 0 <= cc + aa + k
         /\ c = w - 1 => 4 * (g + r) <= w + 3 + k
         /\ cc = c + 1 => 4 * (g + r) <= cc + aa + k
         /\ c = 0 /\ k = 0 /\ a = 0 /\ r = 0 => 4 * (g + r) <= cc + aa + k
  <1>1. CASE r = 0
    BY <1>1
  <1>2. CASE r = 1
    BY <1>2
  <1> QED
    BY <1>1, <1>2

LEMMA RateStep ==
  ASSUME Gate >= Rest + 23, GateInv, RateOK, FlagInv', Clock, ClkIop, ~Opened,
         Away' >= Away - 1, Raised = 1 => Away' = 3
  PROVE  4 * inGate' <= cnt' + Away' + Carried' /\ 4 * due' <= Gate + 3 + Carried'
  <1>1. Carried' = Carried /\ Carried \in Nat /\ Gate \in Nat
    BY OpeningStays, CarriedIn DEF GateInv, Carried
  <1>2. /\ inGate \in Nat /\ due \in Nat /\ cnt \in Nat /\ cnt' \in Nat /\ Raised \in {0, 1}
        /\ Away \in 0..3 /\ Away' \in 0..3
        /\ Raised = 1 => Away = 0
    <2>1. Raised \in {0, 1} /\ (Raised = 1 => CAPTURED \notin status)
      BY RaisedFlag DEF GateInv, Clock
    <2>2. Away' \in 0..3
      BY DEF Away
    <2> QED
      BY <2>1, <2>2, AwayIn DEF GateInv, CountsOK, FlagInv, TimerOK
  <1>3. /\ inGate' = IF Tick THEN 0 ELSE inGate + Raised
        /\ due' = IF Tick THEN inGate + Raised ELSE due
    BY DEF Clock, History
  <1>4. 4 * inGate <= cnt + Away + Carried /\ 4 * due <= Gate + 3 + Carried
    BY DEF RateOK
  <1>5. PICK c \in Nat : c = cnt'
    BY <1>2
  <1>6. PICK a \in 0..3 : a = Away'
    BY <1>2
  <1>7. a >= Away - 1 /\ (Raised = 1 => Away = 0 /\ a = 3)
    BY <1>2, <1>6, Zenon
  <1>8. /\ 4 * 0 <= c + a + Carried
        /\ cnt = Gate - 1 => 4 * (inGate + Raised) <= Gate + 3 + Carried
        /\ c = cnt + 1 => 4 * (inGate + Raised) <= c + a + Carried
        /\ cnt = 0 /\ Carried = 0 /\ Away = 0 /\ Raised = 0 =>
             4 * (inGate + Raised) <= c + a + Carried
    BY <1>1, <1>2, <1>4, <1>7, RateSum
  <1>9. CASE Tick
    <2>1. cnt = Gate - 1
      BY <1>9, TimerFacts DEF GateInv, FlagInv
    <2>2. 4 * (inGate + Raised) <= Gate + 3 + Carried
      BY <1>8, <1>5, <2>1, Zenon
    <2>3. inGate' = 0 /\ due' = inGate + Raised
      BY <1>3, <1>9, Zenon
    <2> QED
      BY <1>1, <1>8, <1>5, <1>6, <2>2, <2>3, Zenon
  <1>10. CASE ~Tick /\ ipc \in Booting
    <2>1. Carried = 0 /\ Away = 0 /\ cnt = 0 /\ Raised = 0
      BY <1>2, <1>10, TimerFacts DEF GateInv, FlagInv, TimerOK, Carried, Opening, Away, Raised
    <2>2. 4 * (inGate + Raised) <= c + a + Carried
      BY <1>8, <1>5, <2>1, Zenon
    <2>3. inGate' = inGate + Raised /\ due' = due
      BY <1>3, <1>10, Zenon
    <2> QED
      BY <1>1, <1>4, <1>5, <1>6, <2>2, <2>3, Zenon
  <1>11. CASE ~Tick /\ ipc \notin Booting
    <2>1. ~Stores("TIMER_CTL")
      BY <1>11, SettingsKept, NoStores DEF GateInv
    <2>2. cnt' = cnt + 1
      BY <1>11, <2>1, CountStep DEF GateInv, Clock
    <2>3. 4 * (inGate + Raised) <= c + a + Carried
      BY <1>8, <1>5, <2>2, Zenon
    <2>4. inGate' = inGate + Raised /\ due' = due
      BY <1>3, <1>11, Zenon
    <2> QED
      BY <1>1, <1>4, <1>5, <1>6, <2>3, <2>4, Zenon
  <1> QED
    BY <1>9, <1>10, <1>11

\* What was counted before the window opens is no more than a gate allows.
LEMMA RateOpen ==
  ASSUME Gate >= Rest + 23, GateInv, RateOK, FlagInv', Clock, AccessDone, ipc = "clear"
  PROVE  4 * inGate' <= cnt' + Away' + Carried' /\ 4 * due' <= Gate + 3 + Carried'
  <1> USE DEF GateInv
  <1>1. Opened /\ ClkIop /\ ipc' = "main"
    BY NextLine DEF AccessDone, CoreDone, Opened
  <1>2. inGate' = edgeCount /\ due' = 0
    BY <1>1 DEF Clock, History
  <1>3. Carried = 0 /\ Carried' = Gate + 3 /\ Gate \in Nat /\ Rest \in Nat
    BY <1>1, FreqAssumption, ChannelAssumption DEF Carried, Opening, Booting, Handler
  <1>4. Away' \in Nat /\ cnt' \in Nat /\ cnt \in 0..(Gate - 1) /\ Away \in 0..3
    BY AwayIn DEF Away, FlagInv, TimerOK
  <1>5. 4 * inGate <= cnt + Away /\ 4 * due <= Gate + 3
    BY <1>3, <1>4 DEF RateOK, CountsOK
  <1>6. /\ edgeCount \in Nat /\ inGate \in Nat /\ due \in Nat /\ lag \in {0, 1} /\ older \in {0, 1}
        /\ ~Pending => inGate - edgeCount - lag \in {0, 1}
        /\ Pending => due + inGate - edgeCount - lag \in {0, 1} /\ Ahead = 0
    BY DEF CountsOK
  <1>7. 4 * edgeCount <= Gate + 3
    <2>1. CASE Pending
      BY <1>3, <1>5, <1>6, <2>1 DEF Ahead
    <2>2. CASE ~Pending
      BY <1>3, <1>4, <1>5, <1>6, <2>2
    <2> QED
      BY <2>1, <2>2
  <1>8. PICK c \in Nat : c = cnt'
    BY <1>4
  <1>9. PICK a \in Nat : a = Away'
    BY <1>4
  <1>10. 4 * edgeCount <= c + a + (Gate + 3) /\ 4 * 0 <= Gate + 3 + (Gate + 3)
    <2>1. edgeCount \in Nat /\ Gate \in Nat
      BY <1>3, <1>6
    <2> QED
      BY <1>7, <2>1
  <1> QED
    BY <1>2, <1>3, <1>8, <1>9, <1>10, Zenon

LEMMA RateInit == ASSUME FreqInit PROVE RateOK
  <1>1. phase = 0 /\ capVal = 0 /\ seen = {} /\ inGate = 0 /\ due = 0 /\ cnt = 0
    BY DEF FreqInit, BusInit, TimerReset
  <1>2. Away \in Nat /\ Carried \in Nat /\ Gate \in Nat \ {0} /\ N \in Nat \ {0}
    BY AwayIn, FreqAssumption, ChannelAssumption, RatioAssumption DEF Carried
  <1> QED
    BY <1>1, <1>2 DEF RateOK

LEMMA RateNext ==
  ASSUME Gate >= Rest + 23, GateInv, RateOK, [FreqNext]_freqVars PROVE RateOK'
  <1>1. phase' \in 0..(N - 1)
    <2>1. phase \in 0..(N - 1) /\ N \in Nat \ {0}
      BY RatioAssumption DEF RateOK
    <2>2. phase' \in {phase, (phase + 1) % N}
      BY DEF FreqNext, Clock, Move, freqVars, ClockStep
    <2> QED
      BY <2>1, <2>2
  <1>2. CASE Quiet
    <2>1. Away' = Away /\ Carried' = Carried
      BY <1>2 DEF Quiet, timerVars, Away, Carried, Opening
    <2> QED
      BY <1>1, <1>2, <2>1 DEF Quiet, timerVars, RateOK
  <1>3. CASE Clock /\ ClkIop
    <2>1. GateInv' /\ FlagInv'
      BY GateStep DEF GateInv
    <2>2. capVal' \in 0..(Gate - 1)
      BY <1>3 DEF Clock, TimerStep, Capture, GateInv, FlagInv, TimerOK, RateOK
    <2>3. seen' \subseteq {0, CAPTURED}
      <3>1. seen' \in {seen, status, seen \ {CAPTURED}, seen \ {0}}
        BY <1>3 DEF Clock, Firmware, TakeInterrupt, AccessDone
      <3> QED
        BY <3>1 DEF GateInv, FlagInv, TimerOK, RateOK
    <2>4. 4 * inGate' <= cnt' + Away' + Carried' /\ 4 * due' <= Gate + 3 + Carried'
      <3>1. CASE ~Firmware
        <4>1. ~CoreDone /\ ipc' = ipc /\ ~Opened
          BY <1>3, <3>1 DEF Clock, Opened
        <4> QED
          BY <1>3, <2>1, <4>1, AwayStay, RateStep DEF GateInv
      <3>2. CASE TakeInterrupt
        <4>1. ~CoreDone /\ ipc \in {"clear", "main"} /\ ipc' = "status" /\ ~Opened
          BY <1>3, <3>2, FlagTake DEF TakeInterrupt, CoreDone, Opened, GateInv
        <4> QED
          BY <1>3, <2>1, <4>1, AwayStay, RateStep DEF GateInv
      <3>3. CASE AccessDone /\ ipc # "clear"
        <4>1. ~Opened
          BY <3>3 DEF Opened
        <4> QED
          BY <1>3, <2>1, <3>3, <4>1, AwayDone, RateStep DEF GateInv
      <3>4. CASE AccessDone /\ ipc = "clear"
        BY <1>3, <2>1, <3>4, RateOpen
      <3> QED
        BY <3>1, <3>2, <3>3, <3>4 DEF Firmware
    <2> QED
      BY <1>1, <2>2, <2>3, <2>4 DEF RateOK
  <1> QED
    BY <1>2, <1>3, QuietStep

\* The registers and counts keep their types; the edges of a gate, and those the
\* handler has counted, never exceed the gate's cycles.
THEOREM FreqTypes == ASSUME Gate >= Rest + 23 PROVE FreqSpec => []FreqTypeOK
  <1>1. FreqInit => RateOK
    BY RateInit
  <1>2. GateInv /\ RateOK /\ [FreqNext]_freqVars => RateOK'
    BY RateNext
  <1>3. GateInv /\ RateOK => FreqTypeOK
    <2> SUFFICES ASSUME GateInv, RateOK PROVE FreqTypeOK
      OBVIOUS
    <2> USE DEF GateInv
    <2>1. cnt \in 0..(Gate - 1) /\ Away \in 0..3 /\ Gate \in Nat /\ Rest \in Nat
          /\ Carried \in Nat /\ Carried <= Gate + 3
      BY AwayIn, CarriedIn, FreqAssumption DEF FlagInv, TimerOK
    <2>2. 4 * inGate <= cnt + Away + Carried /\ 4 * due <= Gate + 3 + Carried
          /\ inGate \in Nat /\ due \in Nat /\ edgeCount \in Nat /\ lag \in {0, 1}
          /\ older \in {0, 1}
      BY DEF RateOK, CountsOK
    <2>3. inGate \in 0..Gate /\ due \in 0..(Gate - 1)
      BY <2>1, <2>2
    <2>4. edgeCount \in 0..Gate
      <3>1. CASE Pending
        <4>1. due + inGate - edgeCount - lag \in {0, 1} /\ inGate - (lag - older) \in {0, 1}
          BY <3>1 DEF CountsOK, Ahead
        <4> QED
          BY <2>1, <2>2, <2>3, <4>1
      <3>2. CASE ~Pending
        <4>1. inGate - edgeCount - lag \in {0, 1}
          BY <3>2 DEF CountsOK
        <4> QED
          BY <2>1, <2>2, <2>3, <4>1
      <3> QED
        BY <3>1, <3>2
    <2>5. status \subseteq Channels \cup {CAPTURED} /\ seen \subseteq Channels \cup {CAPTURED}
      BY FreqAssumption DEF FlagInv, TimerOK, RateOK
    <2> QED
      BY <2>1, <2>3, <2>4, <2>5 DEF FreqTypeOK, RateOK
  <1> QED
    BY <1>1, <1>2, <1>3, GateHolds, PTL DEF FreqSpec
=============================================================================
