----------------------------- MODULE Qenc_proofs -----------------------------
(***************************************************************************)
(* Proofs about the encoder of sw/qenc/main.c: whatever the ratio of the   *)
(* clocks and however the edges of its three pads fall between the two     *)
(* reads and the clear of its handler, it counts a step or a press that    *)
(* has happened and is not counted yet, or nothing; and when the firmware  *)
(* sleeps all are counted but the swallowed.                               *)
(***************************************************************************)
EXTENDS Qenc, TLAPS

Booting == {"edgeA", "edgeB", "edgeBTN", "maskA", "maskB", "maskBTN"}

ProgramOK ==
    /\ ipc \in Booting \cup {"main", "flags", "in", "clear"}
    /\ core = Idle \/ (core.st \in {"req", "wait"} /\ core.op \in IopOp(ipc))
    /\ core.st = "wait" => ~core.op.wr
    /\ clear # {} => ipc = "main" /\ core = Idle

\* Main arms the pads one after the other, then enables them.
SetupOK ==
    /\ \A p \in Pins : mode[p] \in {"off", Armed[p]}
    /\ ipc # "edgeA" => mode["A"] = "both"
    /\ ipc \notin {"edgeA", "edgeB"} => mode["B"] = "both"
    /\ ipc \notin {"edgeA", "edgeB", "edgeBTN"} => mode["BTN"] = "fall"
    /\ ipc \in {"maskB", "maskBTN"} => "A" \in mask
    /\ ipc = "maskBTN" => "B" \in mask
    /\ ipc \in Booting => "BTN" \notin mask /\ lag = 0 /\ pressLag = 0
    /\ ipc \notin Booting => mask = Pins

\* The flags an interrupt has still to serve: neither being cleared nor among
\* those that will be, too late for this interrupt to see what they stand for.
Waiting == (flags \ clear) \ (reported \cap SeenLate)

\* A press that is not counted is in exactly one place: on its way through the
\* synchroniser or the edge detector, waiting in the flag, or swallowed.
Presses(pads) == IF "BTN" \in pads THEN 1 ELSE 0
PressOK ==
    /\ pressLag \in {0, 1}
    /\ pressLag = Presses(sync1 \ pad) + Presses(sync2 \ sync1)
                  + Presses(prev \ sync2)
                  + Presses(Waiting) + Presses(swallowed)

\* prev_ab is lag steps behind the knob, and what GPIO_IN shows is either.
On(pads) == pads \cap AB
KnobOK ==
    /\ lag \in {-1, 0, 1} /\ angle \in 0..3
    /\ \E b \in 0..3 : prevAB = Levels(b) /\ angle = (b + lag + 4) % 4
    /\ On(pad) = Levels(angle)
    /\ On(sync1) \in {prevAB, On(pad)} /\ On(sync2) \in {prevAB, On(pad)}
    /\ On(sync2) = On(pad) => On(sync1) = On(pad)

\* A step that is not counted has not come through yet, or its flag waits, or
\* the handler is about to read the pads, or it was swallowed.
Arrived == On(sync1) = On(pad) /\ On(sync2) = On(pad) /\ On(prev) = On(pad)
StepOK == (lag # 0 /\ Arrived /\ ipc # "in") => On(Waiting) # {} \/ On(swallowed) # {}

QencInv == QencTypeOK /\ ProgramOK /\ SetupOK /\ PressOK /\ KnobOK /\ StepOK

USE QencAssumption

LEMMA QencInvInit == QencInit => QencInv
  <1> SUFFICES ASSUME QencInit PROVE QencInv
    OBVIOUS
  <1>1. /\ phase = 0 /\ apb = Idle /\ core = Idle /\ sync1 = {} /\ sync2 = {} /\ prev = {}
        /\ flags = {} /\ mask = {} /\ clear = {} /\ mode = [p \in Pins |-> "off"]
        /\ angle = 0 /\ pad = {"BTN"} /\ prevAB = {} /\ reported = {}
        /\ lag = 0 /\ pressLag = 0 /\ swallowed = {} /\ ipc = "edgeA"
    BY DEF QencInit, BusInit, WakeReset, Boot
  <1>2. QencTypeOK
    BY <1>1, RatioAssumption DEF QencTypeOK, Modes
  <1>3. ProgramOK /\ SetupOK
    BY <1>1 DEF ProgramOK, SetupOK, Booting, Idle
  <1>4. PressOK
    BY <1>1 DEF PressOK, Presses, Waiting
  <1>5. KnobOK /\ StepOK
    <2>1. Levels(0) = {} /\ (0 + 0 + 4) % 4 = 0
      BY DEF Levels
    <2>2. prevAB = Levels(0) /\ angle = (0 + lag + 4) % 4 /\ 0 \in 0..3
      BY <1>1, <2>1
    <2> QED
      BY <1>1, <2>1, <2>2 DEF KnobOK, StepOK, On, AB
  <1> QED
    BY <1>2, <1>3, <1>4, <1>5 DEF QencInv
-----------------------------------------------------------------------------
(* What an access does. *)
LEMMA Done ==
  ASSUME ProgramOK, CoreDone
  PROVE  /\ core.op \in IopOp(ipc) /\ ipc # "main" /\ ClkIop /\ clear = {}
         /\ ipc \in {"flags", "in"} => \A reg : ~Stores(reg)
         /\ ipc \notin {"flags", "in"} => \A reg : Stores(reg) <=> core.op.sel = reg
  <1>1. core.st # "idle" /\ core # Idle /\ ClkIop
    BY DEF CoreDone, Idle
  <1>2. core.op \in IopOp(ipc) /\ clear = {}
    BY <1>1 DEF ProgramOK
  <1>3. ipc # "main"
    BY <1>2 DEF IopOp
  <1>4. CASE ipc \in {"flags", "in"}
    <2>1. \E reg : core.op = Load(reg)
      BY <1>2, <1>4 DEF IopOp
    <2>2. ~core.op.wr
      BY <2>1 DEF Load
    <2> QED
      BY <1>1, <1>2, <1>3, <1>4, <2>2 DEF Stores
  <1>5. CASE ipc \in Booting \cup {"clear"}
    <2>1. \/ \E p \in Pins : core.op \in {SetMode(p), Enable(p)}
          \/ core.op = ClearFlags(reported)
      BY <1>2, <1>5 DEF IopOp, Booting
    <2>2. core.op.wr
      BY <2>1 DEF SetMode, Enable, ClearFlags
    <2>3. core.st = "req"
      BY <2>2, <1>1 DEF CoreDone, ProgramOK
    <2> QED
      BY <1>1, <1>2, <1>3, <1>5, <2>2, <2>3 DEF Stores, Active, Booting
  <1> QED
    BY <1>3, <1>4, <1>5 DEF ProgramOK

LEMMA NotDone == ASSUME ~CoreDone, NEW reg PROVE ~Stores(reg)
  BY DEF CoreDone, Stores, Active

\* The handler's clear stands for one cycle of clk_iop.
LEMMA ClearStep ==
  ASSUME ProgramOK, Clear
  PROVE  /\ CoreDone /\ ipc = "clear" => clear' = reported
         /\ ~(CoreDone /\ ipc = "clear") => clear' \in {clear, {}}
         /\ ClkIop /\ ~(CoreDone /\ ipc = "clear") => clear' = {}
  <1>1. CASE ~CoreDone
    BY <1>1, NotDone DEF Clear
  <1>2. CASE CoreDone /\ ipc = "clear"
    <2>1. core.op = ClearFlags(reported)
      BY <1>2, Done DEF IopOp
    <2>2. core.op.sel = "WAKE_FLAGS" /\ core.op.v = reported
      BY <2>1 DEF ClearFlags
    <2> QED
      BY <1>2, <2>2, Done DEF Clear
  <1>3. CASE CoreDone /\ ipc \in {"flags", "in"}
    BY <1>3, Done DEF Clear
  <1>4. CASE CoreDone /\ ipc \in Booting
    <2>1. \E p \in Pins : core.op \in {SetMode(p), Enable(p)}
      BY <1>4, Done DEF IopOp, Booting
    <2>2. core.op.sel \in {"WAKE_EDGE", "WAKE_MASK"}
      BY <2>1 DEF SetMode, Enable
    <2> QED
      BY <1>4, <2>2, Done DEF Clear, Booting
  <1> QED
    BY <1>1, <1>2, <1>3, <1>4, Done DEF ProgramOK

LEMMA SettingsKept ==
  ASSUME ProgramOK, Configure, ~(CoreDone /\ ipc \in Booting)
  PROVE  mask' = mask /\ mode' = mode
  <1>1. CASE ~CoreDone
    BY <1>1, NotDone DEF Configure
  <1>2. CASE CoreDone /\ ipc = "clear"
    <2>1. core.op = ClearFlags(reported)
      BY <1>2, Done DEF IopOp
    <2>2. core.op.sel = "WAKE_FLAGS"
      BY <2>1 DEF ClearFlags
    <2> QED
      BY <1>2, <2>2, Done DEF Configure
  <1>3. CASE CoreDone /\ ipc \in {"flags", "in"}
    BY <1>3, Done DEF Configure
  <1> QED
    BY <1>1, <1>2, <1>3, Done DEF ProgramOK

\* Each line of main arms or enables one pad.
LEMMA Booted ==
  ASSUME ProgramOK, SetupOK, Configure, CoreDone, NEW p \in Pins,
         ipc = CASE p = "A" -> "edgeA" [] p = "B" -> "edgeB" [] p = "BTN" -> "edgeBTN"
  PROVE  mode' = [mode EXCEPT ![p] = Armed[p]] /\ mask' = mask
  <1>1. core.op = SetMode(p)
    BY Done DEF IopOp
  <1>2. core.op.sel = "WAKE_EDGE" /\ core.op.v = [mode EXCEPT ![p] = Armed[p]]
    BY <1>1 DEF SetMode
  <1> QED
    BY <1>2, Done DEF Configure

LEMMA Enabled ==
  ASSUME ProgramOK, SetupOK, Configure, CoreDone, NEW p \in Pins,
         ipc = CASE p = "A" -> "maskA" [] p = "B" -> "maskB" [] p = "BTN" -> "maskBTN"
  PROVE  mode' = mode /\ mask' = mask \cup {p}
  <1>1. core.op = Enable(p)
    BY Done DEF IopOp
  <1>2. core.op.sel = "WAKE_MASK" /\ core.op.v = mask \cup {p}
    BY <1>1 DEF Enable
  <1> QED
    BY <1>2, Done DEF Configure
-----------------------------------------------------------------------------
\* The next line.
LEMMA BootLine ==
  ASSUME Configured
  PROVE  /\ ipc \in Booting /\ ipc' \in Booting \cup {"main"}
         /\ ipc = "edgeA" => ipc' = "edgeB"
         /\ ipc = "edgeB" => ipc' = "edgeBTN"
         /\ ipc = "edgeBTN" => ipc' = "maskA"
         /\ ipc = "maskA" => ipc' = "maskB"
         /\ ipc = "maskB" => ipc' = "maskBTN"
         /\ ipc = "maskBTN" => ipc' = "main"
  <1>1. PICK i \in 1..6 : ipc = Boot[i] /\ ipc' = Boot[i + 1]
    BY DEF Configured
  <1>2. i = 1 \/ i = 2 \/ i = 3 \/ i = 4 \/ i = 5 \/ i = 6
    BY <1>1
  <1> QED
    BY <1>1, <1>2 DEF Boot, Booting

LEMMA Lines ==
  ASSUME ProgramOK, Clock
  PROVE  \/ ~CoreDone /\ UNCHANGED <<reported, prevAB, lag, pressLag>>
            /\ (ipc' = ipc \/ TakeInterrupt)
         \/ Configured
         \/ FlagsRead
         \/ InputRead
         \/ FlagsCleared
  <1>1. TakeInterrupt => ~CoreDone
    BY DEF TakeInterrupt, CoreDone
  <1>2. TakeInterrupt => UNCHANGED <<reported, prevAB, lag, pressLag>>
    BY DEF TakeInterrupt
  <1> QED
    BY <1>1, <1>2 DEF Clock, Firmware

LEMMA ProgramStay ==
  ASSUME QencInv, Clock, ~CoreDone, UNCHANGED reported, ipc' = ipc \/ TakeInterrupt
  PROVE  ProgramOK'
  <1> USE DEF ProgramOK
  <1>1. mask' = mask /\ mode' = mode /\ clear' \in {clear, {}} /\ (ClkIop => clear' = {})
    BY SettingsKept, ClearStep DEF Clock, WakeStep, QencInv
  <1>2. CASE TakeInterrupt
    <2>1. core' = Idle
      BY <1>2 DEF TakeInterrupt, Clock, CoreStep, CoreBegin, CoreReset, IopOp
    <2> QED
      BY <1>1, <1>2, <2>1 DEF TakeInterrupt, Idle
  <1>3. CASE ipc' = ipc
    <2>1. IopOp(ipc)' = IopOp(ipc)
      BY <1>1, <1>3 DEF IopOp, SetMode, Enable, Load, ClearFlags
    <2>2. core' = core \/ core' = Idle
          \/ (\E op \in IopOp(ipc) : core' = Request(op))
          \/ (core.st = "req" /\ ~core.op.wr /\ core' = Await(core.op))
      BY DEF Clock, CoreStep, CoreBegin, CoreReset, CoreDone
    <2>3. core' = Idle \/ (core'.st \in {"req", "wait"} /\ core'.op \in IopOp(ipc))
      BY <2>2 DEF Request, Await, Idle, QencInv
    <2>4. core'.st = "wait" => ~core'.op.wr
      BY <2>2 DEF Request, Await, Idle, QencInv
    <2>5. clear' # {} => ipc' = "main" /\ core' = Idle
      <3>1. ipc = "main" => core = Idle
        BY DEF IopOp, QencInv
      <3>2. ipc = "main" => core' = Idle
        BY <2>3 DEF IopOp
      <3> QED
        BY <1>1, <1>3, <3>1, <3>2 DEF QencInv
    <2> QED
      BY <1>3, <2>1, <2>3, <2>4, <2>5 DEF QencInv
  <1> QED
    BY <1>2, <1>3

LEMMA ProgramDone ==
  ASSUME QencInv, Clock, CoreDone, ipc' \in Booting \cup {"main", "in", "clear"},
         ipc = "clear" => ipc' = "main"
  PROVE  ProgramOK'
  <1>1. core' = Idle
    BY DEF Clock, CoreDone, CoreStep, CoreBegin, CoreReset
  <1>2. ipc # "clear" => clear' = {}
    BY Done, ClearStep DEF Clock, WakeStep, QencInv
  <1> QED
    BY <1>1, <1>2 DEF ProgramOK, Idle
-----------------------------------------------------------------------------
\* The program and its registers.
LEMMA SetupStay ==
  ASSUME QencInv, Configure, ~(CoreDone /\ ipc \in Booting),
         ipc \in Booting => ipc' = ipc /\ lag' = lag /\ pressLag' = pressLag,
         ipc \notin Booting => ipc' \notin Booting
  PROVE  SetupOK'
  <1>1. mask' = mask /\ mode' = mode
    BY SettingsKept DEF QencInv
  <1>2. ipc \notin Booting =>
            ipc' \notin {"edgeA", "edgeB", "edgeBTN", "maskA", "maskB", "maskBTN"}
    BY DEF Booting
  <1>3. CASE ipc \in Booting
    BY <1>1, <1>3 DEF QencInv, SetupOK
  <1>4. CASE ipc \notin Booting
    BY <1>1, <1>2, <1>4 DEF QencInv, SetupOK, Booting
  <1> QED
    BY <1>3, <1>4

LEMMA SetupBoot ==
  ASSUME QencInv, Configure, Configured PROVE SetupOK'
  <1>1. CoreDone /\ ipc \in Booting /\ lag' = lag /\ pressLag' = pressLag
        /\ ProgramOK /\ SetupOK /\ DOMAIN mode = Pins
    BY BootLine DEF Configured, QencInv, QencTypeOK
  <1> DEFINE Arm(p) == mode' = [mode EXCEPT ![p] = Armed[p]] /\ mask' = mask
  <1>2. /\ ipc = "edgeA" => Arm("A")
        /\ ipc = "edgeB" => Arm("B")
        /\ ipc = "edgeBTN" => Arm("BTN")
    BY <1>1, Booted
  <1>3. /\ ipc = "maskA" => mode' = mode /\ mask' = mask \cup {"A"}
        /\ ipc = "maskB" => mode' = mode /\ mask' = mask \cup {"B"}
        /\ ipc = "maskBTN" => mode' = mode /\ mask' = mask \cup {"BTN"}
    BY <1>1, Enabled
  <1>4. Armed["A"] = "both" /\ Armed["B"] = "both" /\ Armed["BTN"] = "fall"
    BY DEF Armed
  <1>5. CASE ipc \in {"edgeA", "edgeB", "edgeBTN"}
    <2>1. \A p \in Pins : Arm(p) =>
              mode'[p] = Armed[p] /\ \A q \in Pins \ {p} : mode'[q] = mode[q]
      BY <1>1
    <2> QED
      BY <1>1, <1>2, <1>4, <1>5, <2>1, BootLine DEF SetupOK, Booting
  <1>6. CASE ipc \in {"maskA", "maskB", "maskBTN"}
    <2>1. mode' = mode /\ mask' \subseteq Pins /\ mask \subseteq mask'
      BY <1>1, <1>3, <1>6 DEF QencInv, QencTypeOK
    <2>2. ipc' \in {"maskB", "maskBTN", "main"} /\ (ipc' \in Booting => "BTN" \notin mask')
          /\ (ipc' \in {"maskB", "maskBTN"} => "A" \in mask')
          /\ (ipc' = "maskBTN" => "B" \in mask')
          /\ (ipc' \notin Booting => mask' = Pins)
      <3>1. CASE ipc = "maskA"
        BY <1>1, <1>3, <3>1, BootLine DEF SetupOK, Booting
      <3>2. CASE ipc = "maskB"
        BY <1>1, <1>3, <3>2, BootLine DEF SetupOK, Booting
      <3>3. CASE ipc = "maskBTN"
        <4>1. mask' = mask \cup {"BTN"} /\ ipc' = "main" /\ "A" \in mask /\ "B" \in mask
          BY <1>1, <1>3, <3>3, BootLine DEF SetupOK
        <4>2. mask' = Pins
          BY <2>1, <4>1
        <4> QED
          BY <4>1, <4>2 DEF Booting
      <3> QED
        BY <1>6, <3>1, <3>2, <3>3
    <2>3. /\ \A p \in Pins : mode'[p] \in {"off", Armed[p]}
          /\ mode'["A"] = "both" /\ mode'["B"] = "both" /\ mode'["BTN"] = "fall"
      BY <1>1, <1>6, <2>1 DEF SetupOK
    <2>4. ipc' \in Booting => lag' = 0 /\ pressLag' = 0
      BY <1>1 DEF SetupOK
    <2> QED
      BY <2>2, <2>3, <2>4 DEF SetupOK
  <1> QED
    BY <1>1, <1>5, <1>6 DEF Booting

LEMMA ModesOK ==
  ASSUME QencInv, Clock PROVE mask' \subseteq Pins /\ mode' \in [Pins -> Modes]
  <1>1. Configure /\ ProgramOK /\ SetupOK /\ mask \subseteq Pins /\ mode \in [Pins -> Modes]
    BY DEF Clock, WakeStep, QencInv, QencTypeOK
  <1>2. CASE ~(CoreDone /\ ipc \in Booting)
    BY <1>1, <1>2, SettingsKept
  <1>3. CASE CoreDone /\ ipc \in Booting
    <2>1. \A p \in Pins : Armed[p] \in Modes
      BY DEF Armed, Modes
    <2>2. \E p \in Pins : \/ mode' = [mode EXCEPT ![p] = Armed[p]] /\ mask' = mask
                          \/ mode' = mode /\ mask' = mask \cup {p}
      BY <1>1, <1>3, Booted, Enabled DEF Booting
    <2> QED
      BY <1>1, <2>1, <2>2
  <1> QED
    BY <1>2, <1>3

LEMMA PadsOK ==
  ASSUME QencInv, Clock
  PROVE  /\ WakeEvents \subseteq Pins /\ flags' \subseteq Pins /\ clear' \subseteq Pins
         /\ swallowed' \subseteq Pins
  <1>1. /\ flags \subseteq Pins /\ clear \subseteq Pins /\ reported \subseteq Pins
        /\ swallowed \subseteq Pins /\ sync2 \subseteq Pins /\ prev \subseteq Pins
    BY DEF QencInv, QencTypeOK
  <1>2. WakeEvents \subseteq Pins
    BY <1>1 DEF WakeEvents, RiseEvents, FallEvents
  <1>3. clear' \subseteq Pins
    BY <1>1, ClearStep DEF Clock, WakeStep, QencInv
  <1>4. flags' \subseteq Pins
    BY <1>1, <1>2 DEF Clock, WakeStep, WakeFlags
  <1>5. swallowed' \subseteq Pins
    BY <1>1, <1>2 DEF Clock, History
  <1> QED
    BY <1>2, <1>3, <1>4, <1>5
-----------------------------------------------------------------------------
(* The flags. *)
LEMMA Late ==
  /\ ipc = "in" => SeenLate = {"BTN"}
  /\ ipc = "clear" => SeenLate = Pins
  /\ ipc \notin {"in", "clear"} => SeenLate = {}
  BY DEF SeenLate

LEMMA LateNext ==
  /\ ipc' = "in" => SeenLate' = {"BTN"}
  /\ ipc' = "clear" => SeenLate' = Pins
  /\ ipc' \notin {"in", "clear"} => SeenLate' = {}
  BY DEF SeenLate

\* An edge waits for the next interrupt unless the coming clear, for an earlier
\* edge of its pad, is to take it along,
LEMMA WaitingQuiet ==
  ASSUME QencInv, Clock, ~CoreDone, UNCHANGED reported, ipc' = ipc \/ TakeInterrupt
  PROVE  Waiting' = Waiting \cup (WakeEvents \ Doomed)
  <1>1. flags' = (flags \ clear) \cup WakeEvents /\ clear' \in {clear, {}} /\ clear' \subseteq clear
    BY ClearStep DEF Clock, WakeStep, WakeFlags, QencInv
  <1>2. SeenLate' = SeenLate
    BY Late, LateNext DEF TakeInterrupt
  <1>3. Waiting' = (flags' \ clear') \ (reported \cap SeenLate)
    BY <1>2 DEF Waiting
  <1> QED
    BY <1>1, <1>3 DEF Waiting, Doomed

LEMMA WaitingBoot ==
  ASSUME QencInv, Clock, Configured
  PROVE  Waiting' = Waiting \cup (WakeEvents \ Doomed)
  <1>1. CoreDone /\ reported' = reported /\ ipc \in Booting /\ ipc' \in Booting \cup {"main"}
    BY BootLine DEF Configured
  <1>2. clear = {} /\ clear' = {}
    BY <1>1, Done, ClearStep DEF Clock, WakeStep, QencInv, Booting
  <1>3. SeenLate = {} /\ SeenLate' = {}
    BY <1>1, Late, LateNext DEF Booting
  <1>4. flags' = flags \cup WakeEvents
    BY <1>2 DEF Clock, WakeStep, WakeFlags
  <1> QED
    BY <1>2, <1>3, <1>4 DEF Waiting, Doomed

LEMMA WaitingCleared ==
  ASSUME QencInv, Clock, FlagsCleared
  PROVE  Waiting' = Waiting \cup (WakeEvents \ Doomed)
  <1>1. CoreDone /\ ipc = "clear" /\ ipc' = "main" /\ reported' = {}
    BY DEF FlagsCleared
  <1>2. clear = {} /\ clear' = reported
    BY <1>1, Done, ClearStep DEF Clock, WakeStep, QencInv
  <1>3. SeenLate = Pins /\ SeenLate' = {} /\ reported \subseteq Pins
    BY <1>1, Late, LateNext DEF QencInv, QencTypeOK
  <1>4. flags' = flags \cup WakeEvents
    BY <1>2 DEF Clock, WakeStep, WakeFlags
  <1>5. Waiting' = flags' \ reported
    BY <1>1, <1>2 DEF Waiting
  <1> QED
    BY <1>2, <1>3, <1>4, <1>5 DEF Waiting, Doomed

\* a press seen with the flags waits no longer,
LEMMA WaitingFlags ==
  ASSUME QencInv, Clock, FlagsRead
  PROVE  /\ Waiting = flags /\ reported' = flags /\ Doomed = {}
         /\ Waiting' = (flags \cup WakeEvents) \ (flags \cap {"BTN"})
  <1>1. CoreDone /\ ipc = "flags" /\ reported' = flags
        /\ (ipc' = "in" \/ (ipc' = "clear" /\ reported' \cap AB = {}))
    BY DEF FlagsRead, WakeRead
  <1>2. clear = {} /\ clear' = {}
    BY <1>1, Done, ClearStep DEF Clock, WakeStep, QencInv
  <1>3. SeenLate = {} /\ flags \subseteq Pins
    BY <1>1, Late DEF QencInv, QencTypeOK
  <1>4. reported' \cap SeenLate' = flags \cap {"BTN"}
    BY <1>1, <1>3, LateNext DEF AB
  <1>5. flags' = flags \cup WakeEvents
    BY <1>2 DEF Clock, WakeStep, WakeFlags
  <1>6. Waiting' = flags' \ (flags \cap {"BTN"})
    BY <1>2, <1>4 DEF Waiting
  <1> QED
    BY <1>1, <1>2, <1>3, <1>5, <1>6 DEF Waiting, Doomed

\* and a step whose flag was reported is seen with the pads, even one whose
\* edge comes with them.
LEMMA WaitingInput ==
  ASSUME QencInv, Clock, InputRead
  PROVE  /\ Waiting = flags \ (reported \cap {"BTN"}) /\ Doomed = reported \cap {"BTN"}
         /\ Waiting' = (flags \cup WakeEvents) \ reported
  <1>1. CoreDone /\ ipc = "in" /\ ipc' = "clear" /\ reported' = reported
    BY DEF InputRead
  <1>2. clear = {} /\ clear' = {}
    BY <1>1, Done, ClearStep DEF Clock, WakeStep, QencInv
  <1>3. SeenLate = {"BTN"} /\ SeenLate' = Pins /\ reported \subseteq Pins
    BY <1>1, Late, LateNext DEF QencInv, QencTypeOK
  <1>4. flags' = flags \cup WakeEvents
    BY <1>2 DEF Clock, WakeStep, WakeFlags
  <1>5. Waiting' = flags' \ reported
    BY <1>1, <1>2, <1>3 DEF Waiting
  <1> QED
    BY <1>2, <1>3, <1>4, <1>5 DEF Waiting, Doomed
-----------------------------------------------------------------------------
(* The button. *)
\* The edge detector of the button raises its flag for a press and nothing else.
LEMMA PressEvent ==
  ASSUME QencInv PROVE "BTN" \in WakeEvents <=> "BTN" \in prev \ sync2
  <1>1. mode["BTN"] \in {"off", "fall"}
    BY DEF QencInv, SetupOK, Armed
  <1>2. "BTN" \in prev \ sync2 => pressLag = 1
    BY DEF Presses, QencInv, PressOK
  <1>3. "BTN" \in prev \ sync2 => mode["BTN"] = "fall"
    BY <1>2 DEF QencInv, SetupOK, Booting
  <1> QED
    BY <1>1, <1>3 DEF WakeEvents, RiseEvents, FallEvents

\* The law of the press over an edge of the clock, in terms of where it waits.
LEMMA PressMoves ==
  ASSUME QencInv, Clock, pressLag' \in {0, 1},
         Presses(prev \ sync2) + Presses(Waiting) + Presses(swallowed)
           + pressLag' = Presses(Waiting)' + Presses(swallowed)' + pressLag
  PROVE  PressOK'
  <1>1. sync1' = pad /\ sync2' = sync1 /\ prev' = sync2 /\ pad' = pad
    BY DEF Clock, WakeStep, Synchronise
  <1>2. Presses(sync1 \ pad)' = 0
    BY <1>1 DEF Presses
  <1>3. Presses(sync2 \ sync1)' = Presses(sync1 \ pad)
        /\ Presses(prev \ sync2)' = Presses(sync2 \ sync1)
    BY <1>1
  <1>4. /\ \A pads : Presses(pads) \in {0, 1}
        /\ Presses(Waiting)' \in {0, 1} /\ Presses(swallowed)' \in {0, 1}
        /\ pressLag \in {0, 1}
    BY DEF Presses, QencInv, PressOK
  <1>5. pressLag' = Presses(sync1 \ pad)' + Presses(sync2 \ sync1)'
                  + Presses(prev \ sync2)'
                  + Presses(Waiting)' + Presses(swallowed)'
    <2>1. pressLag = Presses(sync1 \ pad) + Presses(sync2 \ sync1)
                  + Presses(prev \ sync2)
                  + Presses(Waiting) + Presses(swallowed)
      BY DEF QencInv, PressOK
    <2> QED
      BY <1>2, <1>3, <1>4, <2>1
  <1> QED
    BY <1>5 DEF PressOK

\* An edge of the button is noticed or swallowed.
LEMMA PressNoticed ==
  ASSUME QencInv, Clock, pressLag' = pressLag,
         "BTN" \in Waiting' <=> "BTN" \in Waiting \/ "BTN" \in WakeEvents \ Doomed
  PROVE  PressOK'
  <1>1. "BTN" \in swallowed' <=> "BTN" \in swallowed \/ "BTN" \in WakeEvents \cap Doomed
    BY DEF Clock, History, AB
  <1>2. "BTN" \in WakeEvents <=> "BTN" \in prev \ sync2
    BY PressEvent
  <1>3. Presses(prev \ sync2) + Presses(Waiting) + Presses(swallowed) \in {0, 1}
        /\ pressLag \in {0, 1}
    BY DEF QencInv, PressOK, Presses
  <1>4. Presses(prev \ sync2) + Presses(Waiting) + Presses(swallowed)
        = Presses(Waiting') + Presses(swallowed')
    <2>1. CASE "BTN" \in prev \ sync2
      <3>1. "BTN" \notin Waiting /\ "BTN" \notin swallowed
        BY <1>3, <2>1 DEF Presses
      <3>2. "BTN" \in Waiting' <=> "BTN" \notin Doomed
        BY <1>2, <2>1, <3>1
      <3>3. "BTN" \in swallowed' <=> "BTN" \in Doomed
        BY <1>1, <1>2, <2>1, <3>1
      <3> QED
        BY <2>1, <3>1, <3>2, <3>3 DEF Presses
    <2>2. CASE "BTN" \notin prev \ sync2
      <3>1. /\ "BTN" \in Waiting' <=> "BTN" \in Waiting
            /\ "BTN" \in swallowed' <=> "BTN" \in swallowed
        BY <1>1, <1>2, <2>2
      <3> QED
        BY <2>2, <3>1 DEF Presses
    <2> QED
      BY <2>1, <2>2
  <1>5. Presses(Waiting') = Presses(Waiting)' /\ Presses(swallowed') = Presses(swallowed)'
    BY DEF Presses
  <1> QED
    BY <1>3, <1>4, <1>5, PressMoves

\* The press seen with the flags is counted, and one whose edge comes with that
\* load waits for the next interrupt.
LEMMA PressCounted == ASSUME QencInv, Clock, FlagsRead PROVE PressOK'
  <1>1. /\ pressLag' = IF "BTN" \in flags THEN pressLag - 1 ELSE pressLag
        /\ CoreDone /\ ipc = "flags"
    BY WaitingFlags DEF FlagsRead
  <1>2. Waiting = flags /\ Doomed = {}
        /\ Waiting' = (flags \cup WakeEvents) \ (flags \cap {"BTN"})
    BY WaitingFlags
  <1>3. "BTN" \in swallowed' <=> "BTN" \in swallowed
    BY <1>1, <1>2 DEF Clock, History
  <1>4. "BTN" \in WakeEvents <=> "BTN" \in prev \ sync2
    BY PressEvent
  <1>5. pressLag \in {0, 1} /\ (Presses(flags) = 1 => pressLag = 1)
        /\ Presses(prev \ sync2) + Presses(flags) + Presses(swallowed) \in {0, 1}
    BY <1>2 DEF QencInv, PressOK, Presses
  <1>6. pressLag' = pressLag - Presses(flags) /\ pressLag' \in {0, 1}
    BY <1>1, <1>5 DEF Presses
  <1>7. Presses(Waiting)' = Presses(prev \ sync2)
    BY <1>2, <1>4, <1>5 DEF Presses
  <1>8. Presses(swallowed)' = Presses(swallowed)
    BY <1>3 DEF Presses
  <1>9. Presses(swallowed) \in {0, 1} /\ Presses(flags) \in {0, 1}
        /\ Presses(prev \ sync2) \in {0, 1}
    BY DEF Presses
  <1>10. Presses(prev \ sync2) + Presses(Waiting) + Presses(swallowed) + pressLag'
         = Presses(Waiting)' + Presses(swallowed)' + pressLag
    BY <1>2, <1>5, <1>6, <1>7, <1>8, <1>9
  <1> QED
    BY <1>6, <1>10, PressMoves

LEMMA PressClock == ASSUME QencInv, Clock PROVE PressOK'
  <1>1. CASE Waiting' = Waiting \cup (WakeEvents \ Doomed) /\ pressLag' = pressLag
    BY <1>1, PressNoticed
  <1>2. CASE FlagsRead
    BY <1>2, PressCounted
  <1>3. CASE InputRead
    <2>1. "BTN" \in Waiting' <=> "BTN" \in Waiting \/ "BTN" \in WakeEvents \ Doomed
      BY <1>3, WaitingInput
    <2> QED
      BY <1>3, <2>1, PressNoticed DEF InputRead
  <1>4. CASE Configured
    BY <1>1, <1>4, WaitingBoot DEF Configured
  <1>5. CASE FlagsCleared
    BY <1>1, <1>5, WaitingCleared DEF FlagsCleared
  <1> QED
    BY <1>1, <1>2, <1>3, <1>4, <1>5, Lines, WaitingQuiet DEF QencInv
-----------------------------------------------------------------------------
(* The knob. *)
LEMMA FourLevels ==
  /\ \A a \in 0..3 : Levels(a) \subseteq AB /\ AngleOf(Levels(a)) = a
  /\ \A a, b \in 0..3 : Levels(a) = Levels(b) => a = b
  <1>1. Levels(0) = {} /\ Levels(1) = {"A"} /\ Levels(2) = {"A", "B"} /\ Levels(3) = {"B"}
    BY DEF Levels, AB
  <1>2. \A a \in 0..3 : a = 0 \/ a = 1 \/ a = 2 \/ a = 3
    OBVIOUS
  <1>3. \A a, b \in 0..3 : Levels(a) = Levels(b) => a = b
    <2>1. {} # {"A"} /\ {} # {"A", "B"} /\ {} # {"B"} /\ {"A"} # {"A", "B"} /\ {"A"} # {"B"}
          /\ {"A", "B"} # {"B"}
      OBVIOUS
    <2> QED
      BY <1>1, <1>2, <2>1
  <1>4. \A a \in 0..3 : AngleOf(Levels(a)) = a
    BY <1>3 DEF AngleOf
  <1>5. \A a \in 0..3 : Levels(a) \subseteq AB
    BY <1>1, <1>2 DEF AB
  <1> QED
    BY <1>3, <1>4, <1>5

\* q_lut tells the step that was made.
LEMMA StepTold ==
  ASSUME NEW b \in 0..3, NEW d \in {-1, 0, 1}
  PROVE  /\ Direction(Levels(b), Levels((b + d + 4) % 4)) = d
         /\ Direction(Levels(b), Levels(b)) = 0
         /\ d # 0 => Levels((b + d + 4) % 4) # Levels(b)
  <1>1. (b + d + 4) % 4 \in 0..3
    OBVIOUS
  <1>2. (((b + d + 4) % 4) - b + 4) % 4 = (IF d = 1 THEN 1 ELSE IF d = 0 THEN 0 ELSE 3)
        /\ (d # 0 => (b + d + 4) % 4 # b)
    <2>1. b = 0 \/ b = 1 \/ b = 2 \/ b = 3
      OBVIOUS
    <2>2. d = -1 \/ d = 0 \/ d = 1
      OBVIOUS
    <2> QED
      BY <2>1, <2>2
  <1>3. AngleOf(Levels(b)) = b /\ AngleOf(Levels((b + d + 4) % 4)) = (b + d + 4) % 4
    BY <1>1, FourLevels
  <1>4. (b - b + 4) % 4 = 0
    OBVIOUS
  <1>5. Direction(Levels(b), Levels((b + d + 4) % 4)) = d
    BY <1>2, <1>3 DEF Direction
  <1>6. Direction(Levels(b), Levels(b)) = 0
    BY <1>3, <1>4 DEF Direction
  <1> QED
    BY <1>1, <1>2, <1>5, <1>6, FourLevels

LEMMA KnobKept ==
  ASSUME QencInv, Clock, UNCHANGED <<prevAB, lag>> PROVE KnobOK'
  <1>1. sync1' = pad /\ sync2' = sync1 /\ pad' = pad /\ angle' = angle
    BY DEF Clock, WakeStep, Synchronise
  <1>2. KnobOK
    BY DEF QencInv
  <1>3. \E b \in 0..3 : prevAB' = Levels(b) /\ angle' = (b + lag' + 4) % 4
    BY <1>1, <1>2 DEF KnobOK
  <1> QED
    BY <1>1, <1>2, <1>3 DEF KnobOK, On

\* GPIO_IN shows the step or does not show it yet: the handler counts it or nothing.
LEMMA InputCounts ==
  ASSUME QencInv, InputRead PROVE lag' \in {lag, 0} /\ pressLag' = pressLag
  <1>1. lag' = lag - Direction(prevAB, On(sync2)) /\ pressLag' = pressLag
    BY DEF InputRead, WakeRead, On
  <1>2. KnobOK
    BY DEF QencInv
  <1>3. PICK b \in 0..3 : prevAB = Levels(b) /\ angle = (b + lag + 4) % 4
    BY <1>2 DEF KnobOK
  <1>4. Direction(Levels(b), Levels(angle)) = lag /\ Direction(Levels(b), Levels(b)) = 0
    BY <1>2, <1>3, StepTold DEF KnobOK
  <1>5. On(sync2) \in {Levels(b), Levels(angle)}
    BY <1>2, <1>3 DEF KnobOK
  <1> QED
    BY <1>1, <1>2, <1>3, <1>4, <1>5 DEF KnobOK

LEMMA KnobRead ==
  ASSUME QencInv, Clock, InputRead PROVE KnobOK' /\ StepOK'
  <1>1. sync1' = pad /\ sync2' = sync1 /\ prev' = sync2 /\ pad' = pad /\ angle' = angle
    BY DEF Clock, WakeStep, Synchronise
  <1>2. prevAB' = On(sync2) /\ lag' = lag - Direction(prevAB, On(sync2))
    BY DEF InputRead, WakeRead, On
  <1>3. KnobOK
    BY DEF QencInv
  <1>4. PICK b \in 0..3 : prevAB = Levels(b) /\ angle = (b + lag + 4) % 4
    BY <1>3 DEF KnobOK
  <1>5. /\ Direction(Levels(b), Levels(angle)) = lag /\ Direction(Levels(b), Levels(b)) = 0
        /\ lag # 0 => Levels(angle) # Levels(b)
    BY <1>3, <1>4, StepTold DEF KnobOK
  <1>6. CASE On(sync2) = On(pad)
    <2>1. lag' = 0 /\ prevAB' = Levels(angle) /\ angle \in 0..3
      BY <1>2, <1>3, <1>4, <1>5, <1>6 DEF KnobOK
    <2>2. angle' = (angle + lag' + 4) % 4
      BY <1>1, <2>1
    <2>3. \E a \in 0..3 : prevAB' = Levels(a) /\ angle' = (a + lag' + 4) % 4
      BY <2>1, <2>2
    <2>4. On(sync1') = On(pad') /\ On(sync2') = On(pad') /\ On(pad') = Levels(angle')
      BY <1>1, <1>3, <1>6 DEF KnobOK
    <2>5. KnobOK'
      BY <1>1, <2>1, <2>3, <2>4 DEF KnobOK, On
    <2> QED
      BY <2>1, <2>5 DEF StepOK
  <1>7. CASE On(sync2) # On(pad)
    <2>1. On(sync2) = prevAB
      BY <1>3, <1>7 DEF KnobOK
    <2>2. UNCHANGED <<prevAB, lag>>
      BY <1>2, <1>3, <1>4, <1>5, <2>1 DEF KnobOK
    <2>3. ~Arrived'
      BY <1>1, <1>7 DEF Arrived, On
    <2> QED
      BY <2>2, <2>3, KnobKept DEF StepOK
  <1> QED
    BY <1>6, <1>7

\* A step comes through with an edge of its pad.
LEMMA StepEdge ==
  ASSUME QencInv, lag # 0, ~Arrived, On(sync1) = On(pad), On(sync2) = On(pad)
  PROVE  On(WakeEvents) # {}
  <1>1. On(prev) # On(sync2)
    BY DEF Arrived
  <1>2. PICK p \in AB : (p \in prev) # (p \in sync2)
    BY <1>1 DEF On
  <1>3. p \in RiseEvents \cup FallEvents
    BY <1>2 DEF RiseEvents, FallEvents
  <1>4. mode[p] = "both"
    BY DEF QencInv, SetupOK, Booting, AB
  <1> QED
    BY <1>2, <1>3, <1>4 DEF WakeEvents, On

LEMMA StepWaits ==
  ASSUME QencInv, Clock, UNCHANGED <<prevAB, lag>>, ~(CoreDone /\ ipc = "in"),
         ipc = "in" => ipc' = "in",
         On(Waiting) \subseteq Waiting', On(WakeEvents) \ Doomed \subseteq Waiting'
  PROVE  StepOK'
  <1> SUFFICES ASSUME lag' # 0, Arrived', ipc' # "in", On(swallowed') = {}
               PROVE  On(Waiting') # {}
    BY DEF StepOK, On
  <1>1. sync1' = pad /\ sync2' = sync1 /\ prev' = sync2 /\ pad' = pad
    BY DEF Clock, WakeStep, Synchronise
  <1>2. lag # 0 /\ ipc # "in" /\ On(sync1) = On(pad) /\ On(sync2) = On(pad)
    BY <1>1 DEF Arrived, On
  <1>3. swallowed' = swallowed \cup (WakeEvents \cap Doomed)
    BY DEF Clock, History
  <1>4. On(swallowed) = {} /\ On(WakeEvents) \cap Doomed = {}
    BY <1>3 DEF On
  <1>5. CASE Arrived
    <2>1. On(Waiting) # {}
      BY <1>2, <1>4, <1>5 DEF QencInv, StepOK
    <2> QED
      BY <2>1 DEF On
  <1>6. CASE ~Arrived
    <2>1. On(WakeEvents) # {}
      BY <1>2, <1>6, StepEdge
    <2> QED
      BY <1>4, <2>1 DEF On
  <1> QED
    BY <1>5, <1>6

LEMMA KnobClock == ASSUME QencInv, Clock PROVE KnobOK' /\ StepOK'
  <1>1. ASSUME Waiting' = Waiting \cup (WakeEvents \ Doomed), UNCHANGED <<prevAB, lag>>,
               ~(CoreDone /\ ipc = "in"), ipc = "in" => ipc' = "in"
        PROVE  KnobOK' /\ StepOK'
    <2>1. On(Waiting) \subseteq Waiting' /\ On(WakeEvents) \ Doomed \subseteq Waiting'
      BY <1>1 DEF On
    <2> QED
      BY <1>1, <2>1, KnobKept, StepWaits
  <1>2. CASE ~CoreDone /\ UNCHANGED <<reported, prevAB, lag, pressLag>>
             /\ (ipc' = ipc \/ TakeInterrupt)
    BY <1>1, <1>2, WaitingQuiet DEF TakeInterrupt
  <1>3. CASE FlagsRead
    <2>1. UNCHANGED <<prevAB, lag>> /\ ipc = "flags"
      BY <1>3 DEF FlagsRead
    <2>2. On(Waiting) \subseteq Waiting' /\ On(WakeEvents) \ Doomed \subseteq Waiting'
      BY <1>3, WaitingFlags DEF On, AB
    <2> QED
      BY <2>1, <2>2, KnobKept, StepWaits
  <1>4. CASE InputRead
    BY <1>4, KnobRead
  <1>5. CASE Configured
    BY <1>1, <1>5, WaitingBoot, BootLine DEF Configured, Booting
  <1>6. CASE FlagsCleared
    BY <1>1, <1>6, WaitingCleared DEF FlagsCleared
  <1> QED
    BY <1>2, <1>3, <1>4, <1>5, <1>6, Lines DEF QencInv
-----------------------------------------------------------------------------
(* The knob and the button move. *)
LEMMA MoveKeeps ==
  ASSUME QencInv, UNCHANGED <<phase, apb, core, wakeRegisters, ipc, reported, prevAB, swallowed>>,
         pad' \subseteq Pins, angle' \in 0..3,
         mask = Pins \/ UNCHANGED <<lag, pressLag>>
  PROVE  QencTypeOK' /\ ProgramOK' /\ SetupOK' /\ Waiting' = Waiting
  <1>1. UNCHANGED <<phase, apb, core, ipc, reported, prevAB, swallowed, sync1, sync2, prev,
                    flags, mask, mode, clear>>
    BY DEF wakeRegisters
  <1>2. IopOp(ipc)' = IopOp(ipc)
    BY <1>1 DEF IopOp, SetMode, Enable, Load, ClearFlags
  <1>3. QencTypeOK'
    BY <1>1 DEF QencInv, QencTypeOK
  <1>4. ProgramOK'
    BY <1>1, <1>2 DEF QencInv, ProgramOK
  <1>5. mask = Pins => ipc \notin Booting
    BY DEF QencInv, SetupOK
  <1>6. SetupOK'
    BY <1>1, <1>5 DEF QencInv, SetupOK
  <1>7. Waiting' = Waiting
    BY <1>1 DEF Waiting, SeenLate
  <1> QED
    BY <1>3, <1>4, <1>6, <1>7

LEMMA TurnMoves == ASSUME QencInv, Turn PROVE pad' # pad
  <1>1. PICK d \in {-1, 1} : angle' = (angle + d + 4) % 4
    BY DEF Turn
  <1>2. angle \in 0..3 /\ angle' \in 0..3 /\ On(pad) = Levels(angle)
    BY <1>1 DEF QencInv, KnobOK
  <1>3. Levels(angle') # Levels(angle)
    BY <1>1, <1>2, StepTold
  <1>4. Levels(angle') \subseteq AB /\ "BTN" \notin AB
    BY <1>2, FourLevels DEF AB
  <1>5. On(pad') = Levels(angle')
    BY <1>4 DEF Turn, On
  <1> QED
    BY <1>2, <1>3, <1>5

LEMMA TurnStep ==
  ASSUME QencInv, Turn,
         UNCHANGED <<phase, apb, core, wakeRegisters, ipc, reported, prevAB, swallowed>>
  PROVE  QencInv'
  <1>1. mask = Pins /\ lag = 0 /\ pressLag' = pressLag /\ On(pad) = On(sync1)
    BY DEF Turn, Sampled, On
  <1>2. PICK d \in {-1, 1} : angle' = (angle + d + 4) % 4 /\ lag' = d
    BY DEF Turn
  <1>3. pad' = Levels(angle') \cup (pad \cap {"BTN"})
    BY DEF Turn
  <1>4. KnobOK /\ StepOK /\ PressOK /\ angle \in 0..3 /\ angle' \in 0..3
    BY <1>2 DEF QencInv, KnobOK
  <1>5. Levels(angle') \subseteq AB /\ "BTN" \notin AB /\ AB \subseteq Pins
    BY <1>4, FourLevels DEF AB
  <1>6. UNCHANGED <<sync1, sync2, prev, swallowed, prevAB, ipc>>
    BY DEF wakeRegisters
  <1>7. QencTypeOK' /\ ProgramOK' /\ SetupOK' /\ Waiting' = Waiting
    BY <1>1, <1>3, <1>4, <1>5, MoveKeeps
  <1>8. Presses(sync1' \ pad') = Presses(sync1 \ pad)
    BY <1>3, <1>5, <1>6 DEF Presses
  <1>9. PressOK'
    <2>1. pressLag = Presses(sync1' \ pad') + Presses(sync2 \ sync1) + Presses(prev \ sync2)
                     + Presses(Waiting) + Presses(swallowed)
      BY <1>4, <1>8 DEF PressOK
    <2> QED
      BY <1>1, <1>4, <1>6, <1>7, <2>1 DEF PressOK
  <1>10. prevAB = Levels(angle) /\ On(sync1) = prevAB /\ On(sync2) = prevAB
    <2>1. PICK b \in 0..3 : prevAB = Levels(b) /\ angle = (b + lag + 4) % 4
      BY <1>4 DEF KnobOK
    <2>2. angle = b
      BY <1>1, <2>1
    <2> QED
      BY <1>1, <1>4, <2>1, <2>2 DEF KnobOK
  <1>11. On(pad') = Levels(angle') /\ On(pad') # prevAB
    <2>1. On(pad') = Levels(angle')
      BY <1>3, <1>5 DEF On
    <2>2. Levels(angle') # Levels(angle)
      BY <1>2, <1>4, StepTold
    <2> QED
      BY <1>10, <2>1, <2>2
  <1>12. KnobOK'
    <2>1. \E b \in 0..3 : prevAB' = Levels(b) /\ angle' = (b + lag' + 4) % 4
      BY <1>2, <1>4, <1>6, <1>10
    <2>2. On(sync1') = prevAB' /\ On(sync2') = prevAB' /\ On(sync2') # On(pad')
      BY <1>6, <1>10, <1>11
    <2> QED
      BY <1>2, <1>4, <1>11, <2>1, <2>2 DEF KnobOK, On
  <1>13. StepOK'
    BY <1>6, <1>10, <1>11 DEF StepOK, Arrived, On
  <1> QED
    BY <1>7, <1>9, <1>12, <1>13 DEF QencInv

LEMMA ButtonStep ==
  ASSUME QencInv, Press \/ Release,
         UNCHANGED <<phase, apb, core, wakeRegisters, ipc, reported, prevAB, swallowed>>
  PROVE  QencInv'
  <1>1. UNCHANGED <<sync1, sync2, prev, swallowed, prevAB, ipc, angle, lag>>
    BY DEF wakeRegisters, Press, Release
  <1>2. pad' = pad \ {"BTN"} \/ pad' = pad \cup {"BTN"}
    BY DEF Press, Release
  <1>3. On(pad') = On(pad) /\ pad' \subseteq Pins
    BY <1>2 DEF On, AB, QencInv, QencTypeOK
  <1>4. QencTypeOK' /\ ProgramOK' /\ SetupOK' /\ Waiting' = Waiting
    <2>1. mask = Pins \/ UNCHANGED <<lag, pressLag>>
      BY DEF Press, Release
    <2> QED
      BY <1>1, <1>3, <2>1, MoveKeeps DEF QencInv, QencTypeOK
  <1>5. pressLag' \in {0, 1}
        /\ pressLag' - pressLag = Presses(sync1' \ pad') - Presses(sync1 \ pad)
    <2>1. CASE Press
      BY <1>1, <2>1 DEF Press, Sampled, Presses
    <2>2. CASE Release
      BY <1>1, <2>2 DEF Release, Sampled, Presses, QencInv, PressOK
    <2> QED
      BY <2>1, <2>2
  <1>6. PressOK'
    <2>1. \A pads : Presses(pads) \in {0, 1}
      BY DEF Presses
    <2>2. pressLag' = Presses(sync1' \ pad') + Presses(sync2 \ sync1) + Presses(prev \ sync2)
                      + Presses(Waiting) + Presses(swallowed)
      BY <1>5, <2>1 DEF QencInv, PressOK
    <2> QED
      BY <1>1, <1>4, <1>5, <2>2 DEF PressOK
  <1>7. KnobOK' /\ StepOK'
    BY <1>1, <1>3, <1>4 DEF QencInv, KnobOK, StepOK, Arrived, On
  <1> QED
    BY <1>4, <1>6, <1>7 DEF QencInv
-----------------------------------------------------------------------------
LEMMA TypeClock == ASSUME QencInv, Clock PROVE QencTypeOK'
  <1>1. apb' = apb /\ pad' = pad /\ angle' = angle /\ phase' = (phase + 1) % N
        /\ sync1' = pad /\ sync2' = sync1 /\ prev' = sync2
    BY DEF Clock, ClockStep, WakeStep, Synchronise
  <1>2. phase' \in 0..(N - 1)
    BY <1>1, RatioAssumption DEF QencInv, QencTypeOK
  <1>3. core' = Idle \/ core'.st \in {"req", "wait"}
    BY DEF Clock, CoreStep, CoreBegin, CoreReset, Request, Await, QencInv, QencTypeOK
  <1>4. reported' \subseteq Pins /\ prevAB' \subseteq AB
    BY Lines DEF Configured, FlagsRead, InputRead, FlagsCleared, WakeRead, QencInv, QencTypeOK
  <1> QED
    BY <1>1, <1>2, <1>3, <1>4, ModesOK, PadsOK DEF QencInv, QencTypeOK

LEMMA SetupClock == ASSUME QencInv, Clock PROVE ProgramOK' /\ SetupOK'
  <1>1. Configure
    BY DEF Clock, WakeStep
  <1>2. CASE ~CoreDone /\ UNCHANGED <<reported, prevAB, lag, pressLag>>
             /\ (ipc' = ipc \/ TakeInterrupt)
    BY <1>1, <1>2, ProgramStay, SetupStay DEF TakeInterrupt, Booting
  <1>3. CASE Configured
    BY <1>1, <1>3, BootLine, ProgramDone, SetupBoot DEF Configured, Booting
  <1>4. CASE FlagsRead
    BY <1>1, <1>4, ProgramDone, SetupStay DEF FlagsRead, Booting
  <1>5. CASE InputRead
    BY <1>1, <1>5, ProgramDone, SetupStay DEF InputRead, Booting
  <1>6. CASE FlagsCleared
    BY <1>1, <1>6, ProgramDone, SetupStay DEF FlagsCleared, Booting
  <1> QED
    BY <1>2, <1>3, <1>4, <1>5, <1>6, Lines DEF QencInv

LEMMA QencStep == ASSUME QencInv, [QencNext]_qencVars PROVE QencInv'
  <1>1. CASE Clock
    BY <1>1, TypeClock, SetupClock, PressClock, KnobClock DEF QencInv
  <1>2. CASE Move
    BY <1>2, TurnStep, ButtonStep DEF Move
  <1>3. CASE UNCHANGED qencVars
    <2>1. UNCHANGED <<phase, apb, core, wakeRegisters, ipc, reported, prevAB, swallowed,
                      pad, angle, lag, pressLag>>
      BY <1>3 DEF qencVars
    <2>2. QencTypeOK' /\ ProgramOK' /\ SetupOK' /\ Waiting' = Waiting
      BY <2>1, MoveKeeps DEF QencInv, QencTypeOK
    <2> QED
      BY <2>1, <2>2 DEF wakeRegisters, QencInv, PressOK, Presses, KnobOK, StepOK, Arrived, On
  <1> QED
    BY <1>1, <1>2, <1>3 DEF QencNext

LEMMA QencHolds == QencSpec => []QencInv
  <1>1. QencInv /\ [QencNext]_qencVars => QencInv'
    BY QencStep
  <1> QED
    BY <1>1, QencInvInit, PTL DEF QencSpec

\* Every register and every variable of the firmware keeps its type.
THEOREM QencTypes == QencSpec => []QencTypeOK
  <1>1. QencInv => QencTypeOK
    BY DEF QencInv
  <1> QED
    BY <1>1, QencHolds, PTL

\* An access of the firmware counts what has happened or nothing.
LEMMA ClockCounts ==
  ASSUME QencInv, Clock PROVE lag' \in {lag, 0} /\ pressLag' \in {pressLag, 0}
  <1>1. pressLag \in {0, 1} /\ pressLag' \in {0, 1}
    BY PressClock DEF QencInv, PressOK
  <1>2. CASE InputRead
    BY <1>2, InputCounts DEF InputRead
  <1>3. CASE FlagsRead
    BY <1>1, <1>3 DEF FlagsRead
  <1>4. CASE Configured \/ FlagsCleared
    BY <1>4 DEF Configured, FlagsCleared
  <1> QED
    BY <1>2, <1>3, <1>4, Lines DEF QencInv

\* Whatever flags an interrupt finds and however the edges of the pads fall
\* between its accesses, the handler counts no step and no press that did not
\* happen, none twice, and a step in the direction in which it was made.
THEOREM CountedOnlyOnce == QencSpec => NothingCountedTwice
  <1>1. ASSUME QencInv, [QencNext]_qencVars PROVE [CountsWhatHappened]_qencVars
    <2>1. CASE Clock
      BY <1>1, <2>1, ClockCounts DEF CountsWhatHappened
    <2>2. CASE Move /\ UNCHANGED pad
      <3>1. ~Turn
        BY <1>1, <2>2, TurnMoves DEF Move
      <3>2. ~Press
        BY <2>2 DEF Press
      <3>3. UNCHANGED <<lag, pressLag>>
        BY <2>2, <3>1, <3>2 DEF Move, Release
      <3> QED
        BY <3>3 DEF CountsWhatHappened
    <2> QED
      BY <1>1, <2>1, <2>2 DEF QencNext, CountsWhatHappened
  <1> QED
    BY <1>1, QencHolds, PTL DEF QencSpec, NothingCountedTwice

\* When the firmware sleeps, nothing pends and the pads are still, every step
\* and every press is counted but those of an edge that the handler's clear
\* took along with an earlier one of the same pad.
THEOREM AllCounted == QencSpec => []NothingLeftBehind
  <1>1. QencInv => NothingLeftBehind
    <2> SUFFICES ASSUME QencInv, AtRest, Settled
                 PROVE  /\ lag # 0 => swallowed \cap AB # {}
                        /\ pressLag # 0 => "BTN" \in swallowed
      BY DEF NothingLeftBehind
    <2>1. ipc = "main" /\ flags \cap mask = {} /\ clear = {}
      BY DEF AtRest, WakeLatch
    <2>2. flags = {}
      BY <2>1 DEF QencInv, SetupOK, Booting, QencTypeOK
    <2>3. Waiting = {}
      BY <2>2 DEF Waiting
    <2>4. lag # 0 => swallowed \cap AB # {}
      BY <2>1, <2>3 DEF QencInv, StepOK, Arrived, Settled, On
    <2>5. pressLag # 0 => "BTN" \in swallowed
      BY <2>3 DEF QencInv, PressOK, Presses, Settled
    <2> QED
      BY <2>4, <2>5
  <1> QED
    BY <1>1, QencHolds, PTL
=============================================================================
