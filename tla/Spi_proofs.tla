------------------------------ MODULE Spi_proofs ------------------------------
(***************************************************************************)
(* Proofs about the exchange of bytes between sw/spi_master/main.c and a   *)
(* slave: with CPHA = 0 both sides get the byte, bit for bit, for every    *)
(* width of a byte, number of bytes and ratio of the clocks, and whenever  *)
(* the host resets the core.                                               *)
(***************************************************************************)
EXTENDS SpiMaster, TLAPS

\* main() up to its first byte.
Opening == {"enable", "idle", "config", "select"}
Config == [cpol |-> slave.cpol, cpha |-> slave.cpha, sck |-> SCK, mosi |-> MOSI]

ProgramOK ==
    /\ ipc \in Opening \cup {"write", "poll", "read", "deselect", "main"}
    /\ core = Idle \/ (core.st \in {"req", "wait"} /\ core.op \in IopOp(ipc))
    /\ core.st = "wait" => ~core.op.wr
    /\ starting \in 0..Startup /\ (starting # 0 => ipc = "enable" /\ core = Idle)
    /\ ipc \in Opening => done = 0
    /\ ipc \in {"write", "poll", "read"} => done \in 0..(Transfers - 1)
    /\ ipc \in {"deselect", "main"} => done = Transfers

IdleLevel == (SCK \in out) <=> slave.cpol = 1

\* What each line has set up for the next.
SetupOK ==
    /\ slave \in [cpol : {0, 1}, cpha : {0}]
    /\ SCK \in out => slave.cpol = 1
    /\ ipc \notin {"enable", "idle"} => IdleLevel
    /\ ipc \notin {"enable", "idle", "config"} => mode = Config
    /\ ipc \in {"config", "select"} => CS \in out
    /\ ipc \in {"write", "poll", "read", "deselect"} => CS \notin out

\* The helper at work.
EngineOK ==
    /\ busy => mode = Config /\ IdleLevel
    /\ busy => sck = IF bitCnt % 2 = 0 THEN slave.cpol ELSE 1 - slave.cpol
    /\ ~busy => bitCnt = 0

\* The cycles since the reset, at least.  A transfer runs while the firmware polls,
\* or is left from before a reset and ends before main() selects the slave.
Reached(pc) == CASE pc = "enable" -> Startup - starting [] pc = "idle" -> Startup + 2
                 [] pc = "config" -> Startup + 4 [] pc = "select" -> Startup + 6
Under == IF core = Idle THEN 0 ELSE 1
LeftOK ==
    busy => \/ ipc = "poll"
            \/ ipc \in Opening /\ Reboots # 0 /\ bitCnt >= Reached(ipc) + Under

\* The slave counts what the helper sends.
CountOK ==
    /\ slaveBit \in 0..(Transfers * Bits)
    /\ busy /\ CS \notin out =>
           \E d \in 0..(Transfers - 1) : slaveBit = d * Bits + bitCnt \div 2
    /\ ipc = "write" => slaveBit = done * Bits
    /\ ipc = "poll" => slaveBit = done * Bits + (IF busy THEN bitCnt \div 2 ELSE Bits)
    /\ ipc = "read" => slaveBit = done * Bits + Bits

\* Bit k is sampled at the edge of the clock after cycle 2 * k.
Elapsed == IF busy THEN bitCnt ELSE 2 * Bits
Places == 0..(Bits - 1)
SentOK ==
    /\ ipc = "poll" /\ busy => txShift = sent
    /\ ipc \in {"poll", "read"} =>
           \A k \in Places : (ipc = "read" \/ 2 * k + 1 <= Elapsed) => slaveRx[k] = sent[k]

\* On its way back it passes the two flops of the synchroniser and is captured
\* two cycles later, the last one when busy has fallen.
High(pads) == IF MISO \in pads THEN 1 ELSE 0
ReceivedOK ==
    /\ ipc = "poll" => \A k \in Places :
           /\ 2 * k + 3 <= Elapsed \/ (~busy /\ ~samplePending) => rxShift[k] = slaveTx[k]
           /\ 2 * k + 1 = Elapsed => High(sync1) = slaveTx[k]
           /\ 2 * k + 2 = Elapsed /\ samplePending => High(sync2) = slaveTx[k] /\ sampleBit = k
    /\ ipc = "poll" /\ busy => (samplePending <=> bitCnt # 0 /\ bitCnt % 2 = 0)
    /\ ipc = "read" => rxShift = slaveTx /\ ~samplePending
    /\ ipc \in {"write", "deselect"} /\ done > 0 => got = slaveTx

MasterInv == /\ phase \in 0..(N - 1) /\ SpiTypeOK /\ ProgramOK /\ SetupOK /\ EngineOK
             /\ LeftOK /\ CountOK /\ SentOK /\ ReceivedOK

\* The proofs are about slaves of CPHA = 0 and resets that leave the helper the
\* time to end its transfer before the slave is selected again.
LateStart == Cpha = {0} /\ (Reboots = 0 \/ 2 * Bits <= Startup + 8)

LEMMA MasterInvInit == ASSUME LateStart, MasterInit PROVE MasterInv
  <1>1. /\ phase = 0 /\ core = Idle /\ mode = [cpol |-> 0, cpha |-> 0, sck |-> 0, mosi |-> 0]
        /\ txShift = Zeros /\ rxShift = Zeros /\ bitCnt = 0 /\ busy = FALSE /\ sck = 0
        /\ samplePending = FALSE /\ sampleBit = 0 /\ out = {} /\ oe = {}
        /\ ipc = "enable" /\ starting = Startup /\ boots = 0 /\ sent = Zeros /\ done = 0
        /\ got = Zeros /\ slaveTx = Zeros /\ slaveRx = Zeros /\ slaveBit = 0
    BY DEF MasterInit, BusInit, SpiReset, GpioReset
  <1>2. slave \in [cpol : {0, 1}, cpha : {0}]
    BY MasterAssumption DEF MasterInit, LateStart
  <1>3. Zeros \in Byte
    BY DEF Zeros, Byte
  <1>4. 0 \in 0..(Transfers * Bits) /\ 0 \in 0..(Bits - 1) /\ 0 \in 0..(2 * Bits - 1)
        /\ 0 \in 0..Reboots /\ 0 \in 0..Transfers
    <2>1. Transfers * Bits \in Nat
      BY MasterAssumption
    <2> QED
      BY <2>1, MasterAssumption
  <1>5. mode \in [cpol : {0, 1}, cpha : {0, 1}, sck : 0..15, mosi : 0..3]
    BY <1>1
  <1>6. SpiTypeOK
    BY <1>1, <1>3, <1>4, <1>5 DEF SpiTypeOK
  <1>7. ProgramOK
    BY <1>1, MasterAssumption DEF ProgramOK, Opening, Idle
  <1>8. SetupOK /\ EngineOK /\ LeftOK
    BY <1>1, <1>2 DEF SetupOK, EngineOK, LeftOK
  <1>9. CountOK /\ SentOK /\ ReceivedOK
    BY <1>1, <1>4 DEF CountOK, SentOK, ReceivedOK
  <1>10. phase \in 0..(N - 1)
    BY <1>1, RatioAssumption
  <1> QED
    BY <1>6, <1>7, <1>8, <1>9, <1>10 DEF MasterInv
-----------------------------------------------------------------------------
(* Places of bits. *)
LEMMA BitOfByte ==
  ASSUME NEW d \in Nat, NEW k \in Places
  PROVE  (d * Bits + k) % Bits = k /\ d * Bits + k \in Nat
  <1>1. \A b \in Nat \ {0} : \A i \in 0..(b - 1) : (d * b + i) % b = i /\ d * b + i \in Nat
    OBVIOUS
  <1> QED
    BY <1>1, MasterAssumption DEF Places

LEMMA BytesOfExchange ==
  ASSUME NEW d \in 0..(Transfers - 1)
  PROVE  /\ d * Bits \in Nat /\ Transfers * Bits \in Nat
         /\ d * Bits + Bits <= Transfers * Bits
         /\ (d + 1) * Bits = d * Bits + Bits
  <1>1. \A b \in Nat, t \in Nat, i \in Nat : i + 1 <= t => /\ i * b \in Nat /\ t * b \in Nat
                                                          /\ i * b + b <= t * b
                                                          /\ (i + 1) * b = i * b + b
    OBVIOUS
  <1> QED
    BY <1>1, MasterAssumption

LEMMA HalfOf ==
  ASSUME NEW j \in 0..(2 * Bits - 1)
  PROVE  /\ j \div 2 \in Places
         /\ j % 2 = 0 => j = 2 * (j \div 2) /\ (j + 1) \div 2 = j \div 2 /\ (j + 1) % 2 = 1
         /\ j % 2 # 0 => j % 2 = 1 /\ j = 2 * (j \div 2) + 1 /\ (j + 1) \div 2 = j \div 2 + 1
                         /\ (j + 1) % 2 = 0
         /\ j % 2 = 0 => j + 1 <= 2 * Bits - 1
         /\ (j + 1) % (2 * Bits) = IF j = 2 * Bits - 1 THEN 0 ELSE j + 1
  <1>1. Bits \in Nat \ {0}
    BY MasterAssumption
  <1>2. (j + 1) % (2 * Bits) = IF j = 2 * Bits - 1 THEN 0 ELSE j + 1
    <2> DEFINE m == 2 * Bits
    <2>1. m \in Nat \ {0} /\ j \in 0..(m - 1)
      BY <1>1
    <2> HIDE DEF m
    <2>2. (j + 1) % m = IF j = m - 1 THEN 0 ELSE j + 1
      BY <2>1
    <2> QED
      BY <2>2 DEF m
  <1> QED
    BY <1>1, <1>2 DEF Places
-----------------------------------------------------------------------------
(* What an access does. *)
LEMMA Done ==
  ASSUME ProgramOK, CoreDone
  PROVE  /\ core.op \in IopOp(ipc) /\ ipc # "main" /\ ClkIop /\ core # Idle /\ starting = 0
         /\ ipc \in {"poll", "read"} => \A reg : ~Stores(reg)
         /\ ipc \notin {"poll", "read"} =>
                core.st = "req" /\ \A reg : Stores(reg) <=> core.op.sel = reg
  <1>1. core.st # "idle" /\ core # Idle /\ ClkIop
    BY DEF CoreDone, Idle
  <1>2. core.op \in IopOp(ipc) /\ starting = 0
    BY <1>1 DEF ProgramOK
  <1>3. ipc # "main"
    BY <1>2 DEF IopOp
  <1>4. CASE ipc \in {"poll", "read"}
    <2>1. \E reg : core.op = Load(reg)
      BY <1>2, <1>4 DEF IopOp
    <2>2. ~core.op.wr
      BY <2>1 DEF Load
    <2> QED
      BY <1>1, <1>2, <1>3, <1>4, <2>2 DEF Stores
  <1>5. CASE ipc \in Opening \cup {"write", "deselect"}
    <2>1. \E reg, v : core.op = Store(reg, v)
      BY <1>2, <1>5 DEF IopOp, Opening
    <2>2. core.op.wr
      BY <2>1 DEF Store
    <2>3. core.st = "req"
      BY <2>2, <1>1 DEF CoreDone, ProgramOK
    <2> QED
      BY <1>1, <1>2, <1>3, <1>5, <2>2, <2>3 DEF Stores, Active, Opening
  <1> QED
    BY <1>3, <1>4, <1>5 DEF ProgramOK

LEMMA NotDone == ASSUME ~CoreDone, NEW reg PROVE ~Stores(reg)
  BY DEF CoreDone, Stores, Active

\* Each line stores to one register.
LEMMA StoredBy ==
  ASSUME ProgramOK, CoreDone
  PROVE  /\ ipc = "enable" => core.op = Store("GPIO_OE_SET", {SCK, MOSI, CS})
         /\ ipc = "idle" => core.op = Store("GPIO_OUT_SET", IdleHigh)
         /\ ipc = "config" => core.op = Store("SPI_CFG", Config)
         /\ ipc = "select" => core.op = Store("GPIO_OUT_CLR", {CS})
         /\ ipc = "write" => \E b \in Byte : core.op = Store("SPI_DATA", b)
         /\ ipc = "deselect" => core.op = Store("GPIO_OUT_SET", {CS})
  <1>1. core.op \in IopOp(ipc)
    BY Done
  <1> QED
    BY <1>1 DEF IopOp, Config

LEMMA Outputs ==
  ASSUME ProgramOK, Hardware
  PROVE  /\ ~(CoreDone /\ ipc \in {"idle", "select", "deselect"}) => out' = out
         /\ CoreDone /\ ipc = "idle" => out' = out \cup IdleHigh
         /\ CoreDone /\ ipc = "select" => out' = out \ {CS}
         /\ CoreDone /\ ipc = "deselect" => out' = out \cup {CS}
         /\ oe' \in {oe, oe \cup {SCK, MOSI, CS}}
         /\ CoreDone /\ ipc = "config" => mode' = Config
         /\ ~(CoreDone /\ ipc = "config") => mode' = mode
         /\ Begins <=> CoreDone /\ ipc = "write" /\ ~busy
  <1> DEFINE NoStore == /\ out' = out /\ oe' = oe /\ mode' = mode /\ ~Begins
  <1>1. /\ out' = Written(out, "GPIO_OUT", "GPIO_OUT_SET", "GPIO_OUT_CLR")
        /\ oe' = Written(oe, "GPIO_OE", "GPIO_OE_SET", "GPIO_OE_CLR")
        /\ ClkIop => mode' = IF Stores("SPI_CFG") THEN core.op.v ELSE mode
        /\ ~ClkIop => mode' = mode
        /\ Begins <=> Stores("SPI_DATA") /\ ~busy
    BY DEF Hardware, GpioStep, SpiStep, Configure, Begins, spiVars
  <1>2. CASE ~CoreDone
    <2>1. \A reg : ~Stores(reg)
      BY <1>2, NotDone
    <2> QED
      BY <1>1, <1>2, <2>1 DEF Written
  <1>3. CASE CoreDone /\ ipc \in {"poll", "read"}
    <2>1. \A reg : ~Stores(reg)
      BY <1>3, Done
    <2> QED
      BY <1>1, <1>3, <2>1 DEF Written
  <1>4. ASSUME NEW reg, NEW v, CoreDone, core.op = Store(reg, v), ipc \notin {"poll", "read"}
        PROVE  core.op.v = v /\ ClkIop /\ \A r : Stores(r) <=> reg = r
    BY <1>4, Done DEF Store
  <1>5. CASE CoreDone /\ ipc = "enable"
    <2>1. core.op = Store("GPIO_OE_SET", {SCK, MOSI, CS})
      BY <1>5, StoredBy
    <2>2. core.op.v = {SCK, MOSI, CS} /\ ClkIop /\ \A r : Stores(r) <=> "GPIO_OE_SET" = r
      BY <1>4, <1>5, <2>1
    <2> QED
      BY <1>1, <1>5, <2>2 DEF Written
  <1>6. CASE CoreDone /\ ipc = "idle"
    <2>1. core.op = Store("GPIO_OUT_SET", IdleHigh)
      BY <1>6, StoredBy
    <2>2. core.op.v = IdleHigh /\ ClkIop /\ \A r : Stores(r) <=> "GPIO_OUT_SET" = r
      BY <1>4, <1>6, <2>1
    <2> QED
      BY <1>1, <1>6, <2>2 DEF Written
  <1>7. CASE CoreDone /\ ipc = "config"
    <2>1. core.op = Store("SPI_CFG", Config)
      BY <1>7, StoredBy
    <2>2. core.op.v = Config /\ ClkIop /\ \A r : Stores(r) <=> "SPI_CFG" = r
      BY <1>4, <1>7, <2>1
    <2> QED
      BY <1>1, <1>7, <2>2 DEF Written
  <1>8. CASE CoreDone /\ ipc \in {"select", "deselect"}
    <2>1. core.op = Store(IF ipc = "select" THEN "GPIO_OUT_CLR" ELSE "GPIO_OUT_SET", {CS})
      BY <1>8, StoredBy
    <2>2. core.op.v = {CS} /\ ClkIop
          /\ \A r : Stores(r) <=> (IF ipc = "select" THEN "GPIO_OUT_CLR" ELSE "GPIO_OUT_SET") = r
      BY <1>4, <1>8, <2>1
    <2> QED
      BY <1>1, <1>8, <2>2 DEF Written
  <1>9. CASE CoreDone /\ ipc = "write"
    <2>1. PICK b : core.op = Store("SPI_DATA", b)
      BY <1>9, StoredBy
    <2>2. ClkIop /\ \A r : Stores(r) <=> "SPI_DATA" = r
      BY <1>4, <1>9, <2>1
    <2> QED
      BY <1>1, <1>9, <2>2 DEF Written
  <1> QED
    BY <1>2, <1>3, <1>5, <1>6, <1>7, <1>8, <1>9, Done DEF ProgramOK, Opening

\* The chip select and the clock's idle level.
LEMMA PadLevels ==
  ASSUME MasterInv, Hardware
  PROVE  /\ CS \in out' => CS \in out \/ (CoreDone /\ ipc \in {"idle", "deselect"})
         /\ CS \in out => CS \in out' \/ (CoreDone /\ ipc = "select")
         /\ IdleLevel => IdleLevel'
         /\ CS \notin out' => (SCK \in out' <=> SCK \in out)
         /\ CoreDone /\ ipc = "idle" => CS \in out' /\ IdleLevel'
         /\ CoreDone /\ ipc = "deselect" => CS \in out'
         /\ CoreDone /\ ipc = "select" => CS \notin out'
         /\ SCK \in out' => slave'.cpol = 1
         /\ slave' = slave
  <1>1. slave' = slave
    BY DEF Hardware, Slave
  <1>2. SCK # CS
    BY DEF SCK, CS
  <1>3. SCK \in IdleHigh <=> slave.cpol = 1
    BY <1>2 DEF IdleHigh
  <1>4. CS \in IdleHigh
    BY DEF IdleHigh
  <1>5. SCK \in out => slave.cpol = 1
    BY DEF MasterInv, SetupOK
  <1>6. ProgramOK
    BY DEF MasterInv
  <1>7. CASE ~(CoreDone /\ ipc \in {"idle", "select", "deselect"})
    BY <1>1, <1>5, <1>6, <1>7, Outputs DEF IdleLevel
  <1>8. CASE CoreDone /\ ipc = "idle"
    BY <1>1, <1>2, <1>3, <1>4, <1>5, <1>6, <1>8, Outputs DEF IdleLevel
  <1>9. CASE CoreDone /\ ipc \in {"select", "deselect"}
    BY <1>1, <1>2, <1>5, <1>6, <1>9, Outputs DEF IdleLevel
  <1> QED
    BY <1>7, <1>8, <1>9
-----------------------------------------------------------------------------
(* The helper over a cycle of clk_iop: at rest, at the store that begins a *)
(* transfer, and in one.                                                   *)
LEMMA EngineRests ==
  ASSUME Hardware, ClkIop, ~busy, ~Begins
  PROVE  /\ ~busy' /\ ~samplePending'
         /\ bitCnt' = bitCnt /\ sck' = sck /\ txShift' = txShift /\ sampleBit' = sampleBit
         /\ rxShift' = IF samplePending THEN [rxShift EXCEPT ![sampleBit] = Miso] ELSE rxShift
  BY DEF Hardware, SpiStep, Shift, Toggle, Sample, Samples, Transmit

LEMMA EngineBegins ==
  ASSUME Hardware, ClkIop, ~busy, Begins
  PROVE  /\ busy' /\ ~samplePending'
         /\ bitCnt' = 0 /\ sck' = mode.cpol /\ txShift' = core.op.v /\ sampleBit' = sampleBit
         /\ rxShift' = IF samplePending THEN [Zeros EXCEPT ![sampleBit] = Miso] ELSE Zeros
  BY DEF Hardware, SpiStep, Shift, Toggle, Sample, Samples, Transmit

LEMMA EngineRuns ==
  ASSUME Hardware, ClkIop, busy, mode.cpha = 0, bitCnt \in 0..(2 * Bits - 1)
  PROVE  /\ busy' <=> bitCnt # 2 * Bits - 1
         /\ bitCnt' = IF bitCnt = 2 * Bits - 1 THEN 0 ELSE bitCnt + 1
         /\ sck' = IF bitCnt = 2 * Bits - 1 THEN mode.cpol ELSE 1 - sck
         /\ txShift' = txShift
         /\ samplePending' <=> bitCnt % 2 = 1
         /\ sampleBit' = IF bitCnt % 2 = 1 THEN bitCnt \div 2 ELSE sampleBit
         /\ rxShift' = IF samplePending THEN [rxShift EXCEPT ![sampleBit] = Miso] ELSE rxShift
  <1>1. ~Begins
    BY DEF Begins
  <1>2. bitCnt' = (bitCnt + 1) % (2 * Bits)
    BY DEF Hardware, SpiStep, Shift
  <1>3. busy' = ((busy /\ ~Last) \/ Begins)
    BY DEF Hardware, SpiStep, Shift
  <1>4. busy' <=> bitCnt # 2 * Bits - 1
    BY <1>1, <1>3 DEF Last
  <1>5. Samples <=> bitCnt % 2 = 1
    BY DEF Samples, CapturePhase
  <1> QED
    BY <1>1, <1>2, <1>4, <1>5, HalfOf DEF Hardware, SpiStep, Toggle, Last, Sample, Transmit

LEMMA AtRest == ASSUME Hardware, ~ClkIop
  PROVE  UNCHANGED <<spiVars, gpioVars, syncVars, pad, slave, slaveTx, slaveRx, slaveBit>>
  <1>1. \A reg : ~Stores(reg)
    BY DEF Stores
  <1> QED
    BY <1>1 DEF Hardware, SpiStep, GpioStep, Written, gpioVars

LEMMA EngineStep == ASSUME MasterInv, Hardware PROVE EngineOK'
  <1>1. /\ EngineOK /\ SetupOK /\ ProgramOK /\ bitCnt \in 0..(2 * Bits - 1) /\ sck \in {0, 1}
        /\ slave.cpol \in {0, 1} /\ slave.cpha = 0 /\ Bits \in Nat \ {0}
    BY MasterAssumption DEF MasterInv, SpiTypeOK, SetupOK
  <1>2. Config' = Config /\ (IdleLevel => IdleLevel') /\ slave' = slave
    BY PadLevels DEF Config
  <1>3. CASE ~ClkIop
    <2>1. UNCHANGED <<busy, mode, sck, bitCnt>>
      BY <1>3, AtRest DEF spiVars
    <2> QED
      BY <1>1, <1>2, <2>1 DEF EngineOK
  <1>4. CASE ClkIop /\ busy
    <2>1. mode = Config /\ IdleLevel /\ mode.cpha = 0 /\ mode.cpol = slave.cpol
      BY <1>1, <1>4 DEF EngineOK, Config
    <2>2. mode' = Config
      BY <1>1, <2>1, Outputs
    <2>3. /\ busy' <=> bitCnt # 2 * Bits - 1
          /\ bitCnt' = IF bitCnt = 2 * Bits - 1 THEN 0 ELSE bitCnt + 1
          /\ sck' = IF bitCnt = 2 * Bits - 1 THEN mode.cpol ELSE 1 - sck
      BY <1>1, <1>4, <2>1, EngineRuns
    <2>4. CASE bitCnt = 2 * Bits - 1
      BY <1>2, <2>1, <2>2, <2>3, <2>4 DEF EngineOK
    <2>5. CASE bitCnt # 2 * Bits - 1
      <3>1. sck = IF bitCnt % 2 = 0 THEN slave.cpol ELSE 1 - slave.cpol
        BY <1>1, <1>4 DEF EngineOK
      <3>2. sck' = 1 - sck /\ bitCnt' = bitCnt + 1 /\ busy'
        BY <2>3, <2>5
      <3>3. sck' = IF bitCnt' % 2 = 0 THEN slave.cpol ELSE 1 - slave.cpol
        BY <1>1, <3>1, <3>2, HalfOf
      <3> QED
        BY <1>2, <2>1, <2>2, <3>2, <3>3 DEF EngineOK
    <2> QED
      BY <2>4, <2>5
  <1>5. CASE ClkIop /\ ~busy /\ ~Begins
    BY <1>1, <1>5, EngineRests DEF EngineOK
  <1>6. CASE ClkIop /\ ~busy /\ Begins
    <2>1. ipc = "write" /\ CoreDone
      BY <1>1, <1>6, Outputs
    <2>2. mode = Config /\ IdleLevel /\ mode' = mode /\ mode.cpol = slave.cpol
      BY <1>1, <2>1, Outputs DEF SetupOK, Config
    <2>3. busy' /\ bitCnt' = 0 /\ sck' = slave.cpol
      BY <1>6, <2>2, EngineBegins
    <2> QED
      BY <1>2, <2>2, <2>3 DEF EngineOK
  <1> QED
    BY <1>3, <1>4, <1>5, <1>6

\* main() selects the slave when a transfer that was left is over.
LEMMA SelectedLate ==
  ASSUME MasterInv, LateStart, CoreDone, ipc = "select"
  PROVE  busy => bitCnt = 2 * Bits - 1
  <1>1. ipc # "poll" /\ Reached(ipc) = Startup + 6
    BY DEF Reached
  <1>2. Under = 1
    BY Done DEF Under, MasterInv
  <1>3. busy => Reboots # 0 /\ bitCnt >= Startup + 6 + 1
    BY <1>1, <1>2 DEF MasterInv, LeftOK
  <1>4. bitCnt \in 0..(2 * Bits - 1) /\ Bits \in Nat /\ Startup \in Nat
    BY MasterAssumption DEF MasterInv, SpiTypeOK
  <1> QED
    BY <1>3, <1>4 DEF LateStart
-----------------------------------------------------------------------------
(* The pads. *)
LEMMA Pads ==
  ASSUME EngineOK, sck \in {0, 1}, Mosi \in {0, 1}
  PROVE  /\ CS \in PadOut <=> CS \in out
         /\ Sck = IF busy THEN sck ELSE IF SCK \in out THEN 1 ELSE 0
         /\ busy => MosiPad = Mosi
  <1>1. SCK # CS /\ SCK # MOSI /\ MOSI # CS
    BY DEF SCK, CS, MOSI
  <1>2. CASE ~busy
    BY <1>2 DEF PadOut, Overridden, SpiPads, Sck
  <1>3. CASE busy
    <2>1. mode.sck = SCK /\ mode.mosi = MOSI
      BY <1>3 DEF EngineOK, Config
    <2>2. PadOut = (out \ {SCK, MOSI}) \cup (SpiHigh \cap {SCK, MOSI})
      BY <1>3, <2>1 DEF PadOut, Overridden, SpiPads
    <2>3. SCK \in SpiHigh <=> sck = 1
      BY <1>1, <2>1 DEF SpiHigh
    <2>4. MOSI \in SpiHigh <=> Mosi = 1
      BY <1>1, <2>1 DEF SpiHigh
    <2>5. CS \in PadOut <=> CS \in out
      BY <1>1, <2>2
    <2>6. SCK \in PadOut <=> sck = 1
      BY <2>2, <2>3
    <2>7. MOSI \in PadOut <=> Mosi = 1
      BY <2>2, <2>4
    <2> QED
      BY <1>3, <2>5, <2>6, <2>7 DEF Sck, MosiPad
  <1> QED
    BY <1>2, <1>3

LEMMA PadsNext ==
  ASSUME EngineOK', sck' \in {0, 1}, Mosi' \in {0, 1}
  PROVE  /\ CS \in PadOut' <=> CS \in out'
         /\ Sck' = IF busy' THEN sck' ELSE IF SCK \in out' THEN 1 ELSE 0
         /\ busy' => MosiPad' = Mosi'
  <1>1. SCK # CS /\ SCK # MOSI /\ MOSI # CS
    BY DEF SCK, CS, MOSI
  <1>2. CASE ~busy'
    BY <1>2 DEF PadOut, Overridden, SpiPads, Sck
  <1>3. CASE busy'
    <2>1. mode'.sck = SCK /\ mode'.mosi = MOSI
      BY <1>3 DEF EngineOK, Config
    <2>2. PadOut' = (out' \ {SCK, MOSI}) \cup (SpiHigh' \cap {SCK, MOSI})
      BY <1>3, <2>1 DEF PadOut, Overridden, SpiPads
    <2>3. SCK \in SpiHigh' <=> sck' = 1
      BY <1>1, <2>1 DEF SpiHigh
    <2>4. MOSI \in SpiHigh' <=> Mosi' = 1
      BY <1>1, <2>1 DEF SpiHigh
    <2>5. CS \in PadOut' <=> CS \in out'
      BY <1>1, <2>2
    <2>6. SCK \in PadOut' <=> sck' = 1
      BY <2>2, <2>3
    <2>7. MOSI \in PadOut' <=> Mosi' = 1
      BY <2>2, <2>4
    <2> QED
      BY <1>3, <2>5, <2>6, <2>7 DEF Sck, MosiPad
  <1> QED
    BY <1>2, <1>3
-----------------------------------------------------------------------------
\* Types of what the helper and the pads hold.
LEMMA Replaced ==
  ASSUME NEW f \in Byte, NEW i, NEW b \in {0, 1} PROVE [f EXCEPT ![i] = b] \in Byte
  BY DEF Byte

LEMMA HelperTypes ==
  ASSUME MasterInv, Hardware
  PROVE  /\ mode' \in [cpol : {0, 1}, cpha : {0, 1}, sck : 0..15, mosi : 0..3]
         /\ txShift' \in Byte /\ rxShift' \in Byte
         /\ bitCnt' \in 0..(2 * Bits - 1) /\ sck' \in {0, 1} /\ sampleBit' \in 0..(Bits - 1)
         /\ busy' \in BOOLEAN /\ samplePending' \in BOOLEAN
         /\ out' \subseteq Pins /\ oe' \subseteq Pins
  <1>1. /\ mode \in [cpol : {0, 1}, cpha : {0, 1}, sck : 0..15, mosi : 0..3]
        /\ txShift \in Byte /\ rxShift \in Byte /\ Zeros \in Byte
        /\ bitCnt \in 0..(2 * Bits - 1) /\ sck \in {0, 1} /\ sampleBit \in 0..(Bits - 1)
        /\ busy \in BOOLEAN /\ samplePending \in BOOLEAN
        /\ out \subseteq Pins /\ oe \subseteq Pins
    <2>1. Zeros \in Byte
      BY DEF Zeros, Byte
    <2> QED
      BY <2>1 DEF MasterInv, SpiTypeOK
  <1>2. ProgramOK /\ slave \in [cpol : {0, 1}, cpha : {0}] /\ Bits \in Nat \ {0}
    BY MasterAssumption DEF MasterInv, SetupOK
  <1>3. {SCK, MOSI, CS} \subseteq Pins /\ IdleHigh \subseteq Pins /\ SCK \in 0..15 /\ MOSI \in 0..3
    BY MasterAssumption DEF IdleHigh, SCK, MOSI
  <1>4. mode' \in [cpol : {0, 1}, cpha : {0, 1}, sck : 0..15, mosi : 0..3]
    BY <1>1, <1>2, <1>3, Outputs DEF Config
  <1>5. out' \subseteq Pins /\ oe' \subseteq Pins
    BY <1>1, <1>2, <1>3, Outputs
  <1>6. CASE ~ClkIop
    <2>1. UNCHANGED <<txShift, rxShift, bitCnt, sck, sampleBit, busy, samplePending>>
      BY <1>6, AtRest DEF spiVars
    <2> QED
      BY <1>1, <1>4, <1>5, <2>1
  <1>7. CASE ClkIop
    <2>1. Miso \in {0, 1}
      BY DEF Miso
    <2>2. \A f \in Byte : (IF samplePending THEN [f EXCEPT ![sampleBit] = Miso] ELSE f) \in Byte
      BY <2>1, Replaced
    <2>3. rxShift' \in Byte
      BY <1>1, <1>7, <2>2 DEF Hardware, SpiStep, Sample
    <2>4. busy' \in BOOLEAN /\ samplePending' \in BOOLEAN
      BY <1>7 DEF Hardware, SpiStep, Shift, Sample, Samples
    <2>5. txShift' \in Byte
      <3>1. Begins => core.op.v \in Byte
        <4>1. Begins => CoreDone /\ ipc = "write"
          BY <1>2, Outputs
        <4> SUFFICES ASSUME Begins PROVE core.op.v \in Byte
          OBVIOUS
        <4>2. PICK b \in Byte : core.op = Store("SPI_DATA", b)
          BY <1>2, <4>1, StoredBy
        <4>3. core.op.v = b
          BY <4>2 DEF Store
        <4> QED
          BY <4>3
      <3> QED
        BY <1>1, <1>7, <3>1 DEF Hardware, SpiStep, Transmit
    <2>6. bitCnt' \in 0..(2 * Bits - 1)
      <3>1. (bitCnt + 1) % (2 * Bits) \in 0..(2 * Bits - 1)
        BY <1>1, <1>2, HalfOf
      <3> QED
        BY <1>1, <1>2, <1>7, <3>1 DEF Hardware, SpiStep, Shift
    <2>7. sck' \in {0, 1}
      BY <1>1, <1>7 DEF Hardware, SpiStep, Toggle
    <2>8. sampleBit' \in 0..(Bits - 1)
      BY <1>1, <1>7, HalfOf DEF Hardware, SpiStep, Sample, Places
    <2> QED
      BY <1>4, <1>5, <2>3, <2>4, <2>5, <2>6, <2>7, <2>8
  <1> QED
    BY <1>6, <1>7

LEMMA MosiLevel ==
  ASSUME MasterInv, Hardware
  PROVE  Mosi \in {0, 1} /\ Mosi' \in {0, 1}
  <1>1. txShift \in Byte /\ bitCnt \div 2 \in Places
    BY HalfOf DEF MasterInv, SpiTypeOK
  <1>2. txShift' \in Byte /\ bitCnt' \div 2 \in Places
    BY HelperTypes, HalfOf
  <1> QED
    BY <1>1, <1>2 DEF Mosi, Byte, Places
-----------------------------------------------------------------------------
(* The slave's view of a step: nothing, or the next edge of its clock. *)
LEMMA SlaveSees ==
  ASSUME MasterInv, Hardware
  PROVE  /\ CS \in PadOut <=> CS \in out
         /\ CS \in PadOut' <=> CS \in out'
         /\ Sck = IF busy THEN sck ELSE IF SCK \in out THEN 1 ELSE 0
         /\ Sck' = IF busy' THEN sck' ELSE IF SCK \in out' THEN 1 ELSE 0
         /\ busy => MosiPad = Mosi
         /\ busy' => MosiPad' = Mosi'
  <1>1. EngineOK /\ sck \in {0, 1}
    BY DEF MasterInv, SpiTypeOK
  <1>2. EngineOK' /\ sck' \in {0, 1}
    BY EngineStep, HelperTypes
  <1> QED
    BY <1>1, <1>2, MosiLevel, Pads, PadsNext

LEMMA SlaveQuiet ==
  ASSUME MasterInv, Hardware, ClkIop, ~busy \/ CS \in out \/ CS \in out'
  PROVE  /\ slaveRx' = slaveRx /\ slaveTx' = slaveTx
         /\ slaveBit' = IF CS \in out /\ CS \notin out' THEN 0 ELSE slaveBit
  <1>1. Selects <=> CS \in out /\ CS \notin out'
    BY SlaveSees DEF Selects
  <1>2. ~Leading /\ ~Trailing
    <2>1. CASE CS \in out \/ CS \in out'
      BY <2>1, SlaveSees DEF Leading, Trailing, Selected
    <2>2. CASE ~busy /\ CS \notin out'
      <3>1. ProgramOK /\ slave.cpol \in {0, 1}
        BY DEF MasterInv, SetupOK
      <3>2. CASE Begins
        <4>1. busy' /\ sck' = mode.cpol
          BY <2>2, <3>2, EngineBegins
        <4>2. mode = Config /\ IdleLevel
          BY <3>1, <3>2, Outputs DEF MasterInv, SetupOK
        <4>3. Sck' = Sck
          BY <2>2, <3>1, <4>1, <4>2, SlaveSees DEF Config, IdleLevel
        <4> QED
          BY <4>3 DEF Leading, Trailing
      <3>3. CASE ~Begins
        <4>1. ~busy'
          BY <2>2, <3>3, EngineRests
        <4>2. Sck' = Sck
          BY <2>2, <4>1, SlaveSees, PadLevels
        <4> QED
          BY <4>2 DEF Leading, Trailing
      <3> QED
        BY <3>2, <3>3
    <2> QED
      BY <2>1, <2>2
  <1>3. ~SlaveSamples
    BY <1>2 DEF SlaveSamples
  <1> QED
    BY <1>1, <1>2, <1>3 DEF Hardware, Slave

LEMMA SlaveClocked ==
  ASSUME MasterInv, Hardware, ClkIop, busy, CS \notin out, CS \notin out'
  PROVE  /\ bitCnt % 2 = 0 => /\ slaveRx' = [slaveRx EXCEPT ![slaveBit % Bits]
                                                       = txShift[bitCnt \div 2]]
                              /\ slaveTx' = [slaveTx EXCEPT ![slaveBit % Bits] = High(pad)]
                              /\ slaveBit' = slaveBit
         /\ bitCnt % 2 # 0 => /\ slaveRx' = slaveRx /\ slaveTx' = slaveTx
                              /\ slaveBit' = slaveBit + 1
  <1>1. /\ slave.cpol \in {0, 1} /\ slave.cpha = 0 /\ bitCnt \in 0..(2 * Bits - 1)
        /\ mode = Config /\ IdleLevel /\ slave' = slave
        /\ sck = IF bitCnt % 2 = 0 THEN slave.cpol ELSE 1 - slave.cpol
    BY PadLevels DEF MasterInv, SetupOK, EngineOK, SpiTypeOK
  <1>2. Selected /\ ~Selects
    BY SlaveSees DEF Selected, Selects
  <1>3. /\ busy' <=> bitCnt # 2 * Bits - 1
        /\ sck' = IF bitCnt = 2 * Bits - 1 THEN slave.cpol ELSE 1 - sck
        /\ txShift' = txShift
        /\ bitCnt # 2 * Bits - 1 => bitCnt' = bitCnt + 1
    BY <1>1, EngineRuns DEF Config
  <1>4. CASE bitCnt % 2 = 0
    <2>1. bitCnt # 2 * Bits - 1 /\ busy' /\ bitCnt' \div 2 = bitCnt \div 2
      BY <1>1, <1>3, <1>4, MasterAssumption, HalfOf
    <2>2. Sck = slave.cpol /\ Sck' # slave.cpol
      BY <1>1, <1>3, <1>4, <2>1, SlaveSees
    <2>3. Leading /\ ~Trailing
      BY <1>2, <2>2 DEF Leading, Trailing
    <2>4. MosiPad = txShift[bitCnt \div 2] /\ MosiPad' = txShift[bitCnt \div 2]
      BY <1>3, <2>1, SlaveSees DEF Mosi
    <2>5. SlaveSamples
      BY <1>1, <2>3 DEF SlaveSamples
    <2> QED
      BY <1>2, <1>4, <2>3, <2>4, <2>5 DEF Hardware, Slave, Level, High
  <1>5. CASE bitCnt % 2 # 0
    <2>1. Sck # slave.cpol
      BY <1>1, <1>5, SlaveSees
    <2>2. Sck' = slave.cpol
      <3>1. CASE bitCnt = 2 * Bits - 1
        <4>1. ~busy' /\ (SCK \in out' <=> slave.cpol = 1)
          BY <1>1, <1>3, <3>1, PadLevels DEF IdleLevel
        <4> QED
          BY <1>1, <4>1, SlaveSees
      <3>2. CASE bitCnt # 2 * Bits - 1
        BY <1>1, <1>3, <1>5, <3>2, SlaveSees
      <3> QED
        BY <3>1, <3>2
    <2>3. Trailing /\ ~Leading
      BY <1>2, <2>1, <2>2 DEF Leading, Trailing
    <2>4. ~SlaveSamples
      BY <1>1, <2>3 DEF SlaveSamples
    <2> QED
      BY <1>2, <1>5, <2>3, <2>4 DEF Hardware, Slave
  <1> QED
    BY <1>4, <1>5
-----------------------------------------------------------------------------
(* The firmware. *)
LEMMA OpKeeps == ASSUME MasterInv, Hardware, ipc' = ipc PROVE IopOp(ipc)' = IopOp(ipc)
  <1>1. slave' = slave
    BY PadLevels
  <1> QED
    BY <1>1 DEF IopOp, IdleHigh

\* A line is done, or its access goes on.
LEMMA LineDone ==
  ASSUME MasterInv, Clock, CoreDone
  PROVE  /\ core' = Idle /\ starting' = 0
         /\ ipc \in Opening \cup {"write", "poll", "read", "deselect"}
         /\ ipc' = After(ipc)
         /\ sent' = IF ipc = "write" THEN core.op.v ELSE sent
         /\ got' = IF ipc = "read" THEN SpiData ELSE got
         /\ done' = IF ipc = "read" THEN done + 1 ELSE done
  <1>1. ProgramOK
    BY DEF MasterInv
  <1>2. ipc # "main" /\ ClkIop /\ core # Idle /\ starting = 0
    BY <1>1, Done
  <1>3. core.st # "idle"
    BY <1>1, <1>2 DEF ProgramOK
  <1>4. core' = Idle
    BY <1>2, <1>3 DEF Clock, CoreStep, CoreBegin, CoreDone, CoreReset
  <1>5. starting' = 0
    BY <1>2 DEF Clock
  <1> QED
    BY <1>1, <1>2, <1>4, <1>5 DEF ProgramOK, Clock, Firmware

LEMMA LineGoesOn ==
  ASSUME MasterInv, Clock, ~CoreDone
  PROVE  /\ UNCHANGED <<ipc, sent, done, got>>
         /\ \/ core' = core
            \/ core = Idle /\ starting = 0 /\ ClkIop
               /\ \E op \in IopOp(ipc) : core' = Request(op)
            \/ core.st = "req" /\ ~core.op.wr /\ core' = Await(core.op)
         /\ ~ClkIop => core' = core
  <1>1. UNCHANGED <<ipc, sent, done, got>>
    BY DEF Clock, Firmware
  <1>2. core = Idle \/ core.st \in {"req", "wait"}
    BY DEF MasterInv, ProgramOK
  <1>3. CoreStep(IF core.st = "idle" /\ starting = 0 THEN IopOp(ipc) ELSE {}, FALSE, FALSE)
    BY DEF Clock
  <1>4. CASE ~ClkIop
    BY <1>1, <1>3, <1>4 DEF CoreStep
  <1>5. CASE ClkIop /\ core = Idle
    <2>1. core.st = "idle"
      BY <1>5 DEF Idle
    <2>2. CoreBegin(IF starting = 0 THEN IopOp(ipc) ELSE {})
      BY <1>3, <1>5, <2>1 DEF CoreStep
    <2> QED
      BY <1>1, <1>5, <2>2 DEF CoreBegin
  <1>6. CASE ClkIop /\ core.st \in {"req", "wait"}
    <2>1. core.st = "req" /\ ~core.op.wr
      BY <1>6 DEF CoreDone
    <2> QED
      BY <1>1, <1>3, <1>6, <2>1 DEF CoreStep
  <1> QED
    BY <1>2, <1>4, <1>5, <1>6

LEMMA ProgramStep == ASSUME MasterInv, Clock PROVE ProgramOK'
  <1>1. ProgramOK /\ Hardware /\ Transfers \in Nat \ {0} /\ Startup \in Nat /\ busy \in BOOLEAN
    BY MasterAssumption DEF MasterInv, Clock, SpiTypeOK
  <1>2. CASE CoreDone
    BY <1>1, <1>2, LineDone DEF ProgramOK, Opening, After, Idle
  <1>3. CASE ~CoreDone
    <2>1. UNCHANGED <<ipc, sent, done, got>> /\ IopOp(ipc)' = IopOp(ipc)
      BY <1>1, <1>3, LineGoesOn, OpKeeps
    <2>2. \/ core' = Idle
          \/ core'.st \in {"req", "wait"} /\ core'.op \in IopOp(ipc)'
      <3>1. CASE core' = core
        BY <1>1, <2>1, <3>1 DEF ProgramOK
      <3>2. CASE \E op \in IopOp(ipc) : core' = Request(op)
        BY <2>1, <3>2 DEF Request
      <3>3. CASE core.st = "req" /\ core' = Await(core.op)
        <4>1. core.op \in IopOp(ipc)
          BY <1>1, <3>3 DEF ProgramOK, Idle
        <4> QED
          BY <2>1, <3>3, <4>1 DEF Await
      <3> QED
        BY <1>3, <3>1, <3>2, <3>3, LineGoesOn
    <2>3. core'.st = "wait" => ~core'.op.wr
      BY <1>1, <1>3, LineGoesOn DEF ProgramOK, Request, Await
    <2>4. starting' \in 0..Startup /\ (starting' # 0 => ipc' = "enable" /\ core' = Idle)
      <3>1. starting' \in 0..Startup /\ (starting' # 0 => starting # 0)
        BY <1>1 DEF Clock, ProgramOK
      <3>2. starting # 0 => ipc = "enable" /\ core = Idle
        BY <1>1 DEF ProgramOK
      <3>3. starting # 0 => core' = Idle
        BY <1>3, <3>2, LineGoesOn DEF Idle
      <3> QED
        BY <2>1, <3>1, <3>2, <3>3
    <2> QED
      BY <1>1, <2>1, <2>2, <2>3, <2>4 DEF ProgramOK
  <1> QED
    BY <1>2, <1>3

LEMMA SetupStep == ASSUME MasterInv, Clock PROVE SetupOK'
  <1>1. ProgramOK /\ SetupOK /\ Hardware /\ busy \in BOOLEAN
    BY DEF MasterInv, Clock, SpiTypeOK
  <1>2. slave' = slave /\ Config' = Config /\ (SCK \in out' => slave'.cpol = 1)
    BY <1>1, PadLevels DEF Config
  <1>3. CASE CoreDone
    <2>1. ipc' = After(ipc) /\ ipc \in Opening \cup {"write", "poll", "read", "deselect"}
      BY <1>3, LineDone
    <2>2. ipc' \notin {"enable", "idle"} => IdleLevel'
      BY <1>1, <1>3, <2>1, PadLevels DEF SetupOK, After, Opening
    <2>3. ipc' \notin {"enable", "idle", "config"} => mode' = Config'
      BY <1>1, <1>2, <1>3, <2>1, Outputs DEF SetupOK, After, Opening
    <2>4. ipc' \in {"config", "select"} => CS \in out'
      BY <1>1, <1>3, <2>1, PadLevels DEF SetupOK, After, Opening
    <2>5. ipc' \in {"write", "poll", "read", "deselect"} => CS \notin out'
      BY <1>1, <1>3, <2>1, PadLevels DEF SetupOK, After, Opening
    <2> QED
      BY <1>1, <1>2, <2>2, <2>3, <2>4, <2>5 DEF SetupOK
  <1>4. CASE ~CoreDone
    <2>1. ipc' = ipc /\ out' = out /\ mode' = mode
      BY <1>1, <1>4, LineGoesOn, Outputs
    <2> QED
      BY <1>1, <1>2, <2>1 DEF SetupOK, IdleLevel
  <1> QED
    BY <1>3, <1>4
-----------------------------------------------------------------------------
(* A transfer that a reset left ends while main() starts. *)
LEMMA NextCycle ==
  ASSUME MasterInv, Hardware, busy, ClkIop, busy'
  PROVE  bitCnt' = bitCnt + 1 /\ bitCnt # 2 * Bits - 1 /\ bitCnt \in Nat
  <1>1. mode.cpha = 0 /\ bitCnt \in 0..(2 * Bits - 1)
    BY DEF MasterInv, EngineOK, SetupOK, SpiTypeOK, Config
  <1> QED
    BY <1>1, EngineRuns

LEMMA BeginsNow ==
  ASSUME MasterInv, Hardware, ~busy, busy'
  PROVE  ClkIop /\ CoreDone /\ ipc = "write" /\ Begins /\ bitCnt' = 0
  <1>1. ClkIop
    BY AtRest DEF spiVars
  <1>2. Begins
    BY <1>1, EngineRests
  <1> QED
    BY <1>1, <1>2, Outputs, EngineBegins DEF MasterInv

LEMMA OpeningCycle ==
  ASSUME MasterInv, Clock, ClkIop, ipc \in Opening, ipc' \in Opening
  PROVE  /\ Reached(ipc) + Under \in Nat
         /\ Reached(ipc)' + Under' <= Reached(ipc) + Under + 1
  <1>1. Startup \in Nat /\ starting \in 0..Startup /\ starting' \in 0..Startup
        /\ ProgramOK /\ (starting # 0 => ipc = "enable" /\ core = Idle)
    BY ProgramStep, MasterAssumption DEF MasterInv, ProgramOK
  <1>2. Under \in {0, 1} /\ Under' \in {0, 1}
    BY DEF Under
  <1>3. Reached(ipc) \in Nat /\ (ipc = "enable" => Reached(ipc) = Startup - starting)
    BY <1>1 DEF Reached, Opening
  <1>4. CASE CoreDone
    <2>1. core' = Idle /\ starting' = 0 /\ ipc' = After(ipc) /\ starting = 0 /\ core # Idle
      BY <1>1, <1>4, LineDone, Done
    <2>2. Under = 1 /\ Under' = 0
      BY <2>1 DEF Under
    <2>3. Reached(ipc)' = Reached(ipc) + 2
      BY <1>1, <2>1 DEF Reached, Opening, After
    <2> QED
      BY <1>3, <2>2, <2>3
  <1>5. CASE ~CoreDone
    <2>1. ipc' = ipc
      BY <1>5, LineGoesOn
    <2>2. core = Idle
      <3>1. SUFFICES ASSUME core # Idle PROVE FALSE
        OBVIOUS
      <3>2. core.op \in IopOp(ipc) /\ core.st \in {"req", "wait"}
        BY <1>1, <3>1 DEF ProgramOK
      <3>3. \E reg, v : core.op = Store(reg, v)
        BY <3>2 DEF IopOp, Opening
      <3>4. core.op.wr
        BY <3>3 DEF Store
      <3> QED
        BY <1>5, <3>2, <3>4 DEF CoreDone
    <2>3. Under = 0
      BY <2>2 DEF Under
    <2>4. CASE starting = 0
      <3>1. starting' = 0
        BY <2>4 DEF Clock
      <3>2. Reached(ipc)' = Reached(ipc)
        BY <2>1, <2>4, <3>1 DEF Reached, Opening
      <3> QED
        BY <1>2, <1>3, <2>3, <3>2
    <2>5. CASE starting # 0
      <3>1. starting' = starting - 1 /\ ipc = "enable"
        BY <1>1, <2>5 DEF Clock
      <3>2. core' = Idle
        <4>1. core.st # "req"
          BY <2>2 DEF Idle
        <4> QED
          BY <1>5, <2>2, <2>5, <4>1, LineGoesOn
      <3>3. Under' = 0
        BY <3>2 DEF Under
      <3>4. Reached(ipc)' = Reached(ipc) + 1
        BY <1>1, <2>1, <3>1 DEF Reached
      <3> QED
        BY <1>3, <2>3, <3>3, <3>4
    <2> QED
      BY <2>4, <2>5
  <1> QED
    BY <1>4, <1>5

LEMMA LeftStep == ASSUME MasterInv, LateStart, Clock PROVE LeftOK'
  <1>1. LeftOK /\ ProgramOK /\ Hardware /\ busy \in BOOLEAN /\ bitCnt \in Nat
    BY DEF MasterInv, Clock, SpiTypeOK
  <1>2. SUFFICES ASSUME busy'
                 PROVE  \/ ipc' = "poll"
                        \/ /\ ipc' \in Opening /\ Reboots # 0
                           /\ bitCnt' >= Reached(ipc)' + Under'
    BY DEF LeftOK
  <1>3. CASE ~busy
    <2>1. CoreDone /\ ipc = "write"
      BY <1>1, <1>2, <1>3, BeginsNow
    <2> QED
      BY <2>1, LineDone DEF After
  <1>4. CASE busy /\ ~ClkIop
    <2>1. UNCHANGED <<busy, bitCnt>> /\ ~CoreDone
      BY <1>1, <1>4, AtRest DEF spiVars, CoreDone
    <2>2. UNCHANGED <<ipc, core, starting>>
      BY <1>4, <2>1, LineGoesOn DEF Clock
    <2>3. ipc \in Opening => Reached(ipc)' = Reached(ipc) /\ Under' = Under
      BY <2>2 DEF Reached, Under, Opening
    <2> QED
      BY <1>1, <1>4, <2>1, <2>2, <2>3 DEF LeftOK
  <1>5. CASE busy /\ ClkIop /\ ipc = "poll"
    BY <1>5, LineDone, LineGoesOn DEF After
  <1>6. CASE busy /\ ClkIop /\ ipc \in Opening
    <2>1. Reboots # 0 /\ bitCnt >= Reached(ipc) + Under
      BY <1>1, <1>6 DEF LeftOK, Opening
    <2>2. bitCnt' = bitCnt + 1 /\ bitCnt # 2 * Bits - 1
      BY <1>1, <1>2, <1>6, NextCycle
    <2>3. ipc' \in Opening
      <3>1. ~(CoreDone /\ ipc = "select")
        BY <1>6, <2>2, SelectedLate
      <3> QED
        BY <1>6, <3>1, LineDone, LineGoesOn DEF After, Opening
    <2>4. Under' \in {0, 1} /\ Reached(ipc)' \in Nat
      <3>1. Startup \in Nat /\ starting' \in 0..Startup
        BY ProgramStep, MasterAssumption DEF ProgramOK
      <3> QED
        BY <2>3, <3>1 DEF Reached, Opening, Under
    <2> QED
      BY <1>1, <1>6, <2>1, <2>2, <2>3, <2>4, OpeningCycle
  <1> QED
    BY <1>1, <1>3, <1>4, <1>5, <1>6 DEF LeftOK
-----------------------------------------------------------------------------
(* The slave's count. *)
LEMMA CountHardware ==
  ASSUME MasterInv, LateStart, Hardware
  PROVE  /\ slaveBit' \in 0..(Transfers * Bits)
         /\ busy' /\ CS \notin out' =>
                \E d \in 0..(Transfers - 1) : slaveBit' = d * Bits + (bitCnt' \div 2)
  <1>1. /\ slaveBit \in 0..(Transfers * Bits) /\ bitCnt \in 0..(2 * Bits - 1)
        /\ Bits \in Nat \ {0} /\ Transfers \in Nat \ {0} /\ Transfers * Bits \in Nat
        /\ ProgramOK /\ busy \in BOOLEAN
    <2>1. \A t, b \in Nat : t * b \in Nat
      OBVIOUS
    <2> QED
      BY <2>1, MasterAssumption DEF MasterInv, SpiTypeOK
  <1>2. CASE ~ClkIop
    <2>1. UNCHANGED <<slaveBit, busy, bitCnt, out>>
      BY <1>2, AtRest DEF spiVars, gpioVars
    <2> QED
      BY <2>1 DEF MasterInv, CountOK
  <1>3. CASE ClkIop /\ CS \in out'
    BY <1>1, <1>3, SlaveQuiet
  <1>4. CASE ClkIop /\ CS \in out /\ CS \notin out'
    <2>1. CoreDone /\ ipc = "select"
      BY <1>4, PadLevels
    <2>2. slaveBit' = 0
      BY <1>4, SlaveQuiet
    <2>3. ~busy'
      <3>1. busy => bitCnt = 2 * Bits - 1
        BY <2>1, SelectedLate
      <3>2. busy' => ~busy
        BY <1>4, <3>1, NextCycle
      <3> QED
        BY <2>1, <3>2, BeginsNow
    <2> QED
      BY <1>1, <2>2, <2>3
  <1>5. CASE ClkIop /\ CS \notin out /\ CS \notin out' /\ ~busy
    <2>1. slaveBit' = slaveBit
      BY <1>5, SlaveQuiet
    <2>2. busy' => done \in 0..(Transfers - 1) /\ slaveBit = done * Bits + 0 /\ bitCnt' = 0
      <3>1. SUFFICES ASSUME busy' PROVE /\ done \in 0..(Transfers - 1)
                                        /\ slaveBit = done * Bits + 0 /\ bitCnt' = 0
        OBVIOUS
      <3>2. ipc = "write" /\ bitCnt' = 0
        BY <1>5, <3>1, BeginsNow
      <3>3. done \in 0..(Transfers - 1) /\ slaveBit = done * Bits
        BY <1>1, <3>2 DEF MasterInv, ProgramOK, CountOK
      <3>4. done * Bits \in Nat
        BY <3>3, BytesOfExchange
      <3> QED
        BY <3>2, <3>3, <3>4
    <2>3. busy' => bitCnt' \div 2 = 0
      BY <2>2
    <2> QED
      BY <1>1, <2>1, <2>2, <2>3
  <1>6. CASE ClkIop /\ CS \notin out /\ CS \notin out' /\ busy
    <2>1. PICK d \in 0..(Transfers - 1) : slaveBit = d * Bits + (bitCnt \div 2)
      BY <1>6 DEF MasterInv, CountOK
    <2>2. busy' => bitCnt' = bitCnt + 1
      BY <1>6, NextCycle
    <2>3. CASE bitCnt % 2 = 0
      <3>1. slaveBit' = slaveBit /\ (bitCnt + 1) \div 2 = bitCnt \div 2
        BY <1>1, <1>6, <2>3, SlaveClocked, HalfOf
      <3> QED
        BY <1>1, <2>1, <2>2, <3>1
    <2>4. CASE bitCnt % 2 # 0
      <3>1. slaveBit' = slaveBit + 1 /\ (bitCnt + 1) \div 2 = (bitCnt \div 2) + 1
            /\ bitCnt \div 2 \in 0..(Bits - 1)
        BY <1>1, <1>6, <2>4, SlaveClocked, HalfOf DEF Places
      <3>2. d * Bits \in Nat /\ d * Bits + Bits <= Transfers * Bits
        BY BytesOfExchange
      <3>3. slaveBit' = d * Bits + ((bitCnt \div 2) + 1)
        BY <2>1, <3>1, <3>2
      <3>4. slaveBit' \in 0..(Transfers * Bits)
        BY <1>1, <3>1, <3>2, <3>3
      <3> QED
        BY <2>2, <3>1, <3>3, <3>4
    <2> QED
      BY <2>3, <2>4
  <1> QED
    BY <1>2, <1>3, <1>4, <1>5, <1>6

LEMMA SlaveTypes ==
  ASSUME MasterInv, Hardware PROVE slaveTx' \in Byte /\ slaveRx' \in Byte
  <1>1. slaveTx \in Byte /\ slaveRx \in Byte
    BY DEF MasterInv, SpiTypeOK
  <1>2. Level \in {0, 1} /\ MosiPad \in {0, 1} /\ MosiPad' \in {0, 1}
    BY DEF Level, MosiPad
  <1>3. CASE ~ClkIop
    BY <1>1, <1>3, AtRest
  <1>4. CASE ClkIop
    <2>1. \/ slaveTx' = slaveTx /\ slaveRx' = slaveRx
          \/ /\ slaveTx' = [slaveTx EXCEPT ![slaveBit % Bits] = Level]
             /\ \E b \in {MosiPad, MosiPad'} :
                  slaveRx' = [slaveRx EXCEPT ![slaveBit % Bits] = b]
      BY <1>4 DEF Hardware, Slave
    <2>2. [slaveTx EXCEPT ![slaveBit % Bits] = Level] \in Byte
      BY <1>1, <1>2, Replaced
    <2>3. \A b \in {MosiPad, MosiPad'} : [slaveRx EXCEPT ![slaveBit % Bits] = b] \in Byte
      BY <1>1, <1>2, Replaced
    <2> QED
      BY <1>1, <2>1, <2>2, <2>3
  <1> QED
    BY <1>3, <1>4

LEMMA TypeHardware ==
  ASSUME MasterInv, LateStart, Hardware,
         sent' \in Byte, got' \in Byte, done' \in 0..Transfers, boots' \in 0..Reboots
  PROVE  SpiTypeOK'
  BY HelperTypes, SlaveTypes, CountHardware DEF SpiTypeOK

LEMMA TypeStep == ASSUME MasterInv, LateStart, Clock PROVE SpiTypeOK'
  <1>1. /\ ProgramOK /\ Hardware /\ sent \in Byte /\ got \in Byte /\ txShift \in Byte
        /\ rxShift \in Byte /\ boots \in 0..Reboots
    BY DEF MasterInv, Clock, SpiTypeOK
  <1>2. done' \in 0..Transfers
    BY ProgramStep, MasterAssumption DEF ProgramOK
  <1>3. boots' \in 0..Reboots
    BY <1>1 DEF Clock
  <1>4. sent' \in Byte
    <2>1. CASE CoreDone /\ ipc = "write"
      <3>1. PICK b \in Byte : core.op = Store("SPI_DATA", b)
        BY <1>1, <2>1, StoredBy
      <3>2. core.op.v = b
        BY <3>1 DEF Store
      <3> QED
        BY <2>1, <3>2, LineDone
    <2> QED
      BY <1>1, <2>1, LineDone, LineGoesOn
  <1>5. got' \in Byte
    BY <1>1, LineDone, LineGoesOn DEF SpiData
  <1> QED
    BY <1>1, <1>2, <1>3, <1>4, <1>5, TypeHardware
-----------------------------------------------------------------------------
(* The exchange, a cycle of clk_iop for each of the firmware's lines. *)
ExchangeOK == CountOK /\ SentOK /\ ReceivedOK

\* While a byte is stored or read and after the last, the helper and the slave rest.
LEMMA Still ==
  ASSUME MasterInv, Hardware, ClkIop, ~busy, CS \notin out
  PROVE  slaveRx' = slaveRx /\ slaveTx' = slaveTx /\ slaveBit' = slaveBit
  BY SlaveQuiet

LEMMA OpeningStep ==
  ASSUME MasterInv, LateStart, Clock, ClkIop, ipc \in Opening
  PROVE  ExchangeOK'
  <1>1. ipc' \in Opening \/ (CoreDone /\ ipc = "select" /\ ipc' = "write")
    BY LineDone, LineGoesOn DEF Opening, After
  <1>2. Hardware /\ done = 0 /\ done' = 0
    BY LineDone, LineGoesOn DEF Clock, MasterInv, ProgramOK, Opening
  <1>3. ipc' = "write" => slaveBit' = done' * Bits
    <2>1. SUFFICES ASSUME ipc' = "write" PROVE slaveBit' = done' * Bits
      OBVIOUS
    <2>2. CoreDone /\ ipc = "select"
      BY <1>1, <2>1 DEF Opening
    <2>3. CS \in out /\ CS \notin out'
      BY <1>2, <2>2, PadLevels DEF MasterInv, SetupOK
    <2>4. slaveBit' = 0
      BY <1>2, <2>3, SlaveQuiet
    <2> QED
      BY <1>2, <2>4, MasterAssumption
  <1>4. CountOK'
    BY <1>1, <1>2, <1>3, CountHardware DEF CountOK, Opening
  <1> QED
    BY <1>1, <1>2, <1>4 DEF ExchangeOK, SentOK, ReceivedOK, Opening

LEMMA WriteStep ==
  ASSUME MasterInv, LateStart, Clock, ClkIop, ipc = "write"
  PROVE  ExchangeOK'
  <1>1. /\ ~busy /\ CS \notin out /\ Hardware /\ ProgramOK /\ busy \in BOOLEAN
        /\ slaveBit = done * Bits /\ done \in 0..(Transfers - 1) /\ (done > 0 => got = slaveTx)
    BY DEF MasterInv, SetupOK, LeftOK, Opening, CountOK, ReceivedOK, ProgramOK, Clock, SpiTypeOK
  <1>2. slaveRx' = slaveRx /\ slaveTx' = slaveTx /\ slaveBit' = slaveBit
    BY <1>1, Still
  <1>3. /\ slaveBit' \in 0..(Transfers * Bits)
        /\ busy' /\ CS \notin out' =>
                \E d \in 0..(Transfers - 1) : slaveBit' = d * Bits + (bitCnt' \div 2)
    BY <1>1, CountHardware
  <1>4. CASE CoreDone
    <2>1. ipc' = "poll" /\ sent' = core.op.v /\ done' = done
      BY <1>4, LineDone DEF After
    <2>2. Begins
      BY <1>1, <1>4, Outputs
    <2>3. busy' /\ ~samplePending' /\ bitCnt' = 0 /\ txShift' = core.op.v
      BY <1>1, <2>2, EngineBegins
    <2>4. slaveBit' = done' * Bits + (bitCnt' \div 2)
      <3>1. done * Bits \in Nat
        BY <1>1, BytesOfExchange
      <3> QED
        BY <1>1, <1>2, <2>1, <2>3, <3>1
    <2>5. CountOK'
      BY <1>3, <2>1, <2>3, <2>4 DEF CountOK
    <2>6. Elapsed' = 0
      BY <2>3 DEF Elapsed
    <2>7. SentOK'
      BY <2>1, <2>3, <2>6 DEF SentOK, Places
    <2>8. ReceivedOK'
      BY <2>1, <2>3, <2>6 DEF ReceivedOK, Places
    <2> QED
      BY <2>5, <2>7, <2>8 DEF ExchangeOK
  <1>5. CASE ~CoreDone
    <2>1. ipc' = "write" /\ sent' = sent /\ done' = done /\ got' = got
      BY <1>5, LineGoesOn
    <2>2. CountOK'
      BY <1>1, <1>2, <1>3, <2>1 DEF CountOK
    <2>3. SentOK' /\ ReceivedOK'
      BY <1>1, <1>2, <2>1 DEF SentOK, ReceivedOK
    <2> QED
      BY <2>2, <2>3 DEF ExchangeOK
  <1> QED
    BY <1>4, <1>5

LEMMA ReadStep ==
  ASSUME MasterInv, LateStart, Clock, ClkIop, ipc = "read"
  PROVE  ExchangeOK'
  <1>1. /\ ~busy /\ CS \notin out /\ Hardware /\ ProgramOK /\ busy \in BOOLEAN
        /\ slaveBit = done * Bits + Bits /\ done \in 0..(Transfers - 1)
        /\ rxShift = slaveTx /\ ~samplePending
        /\ \A k \in Places : slaveRx[k] = sent[k]
    BY DEF MasterInv, SetupOK, LeftOK, Opening, CountOK, SentOK, ReceivedOK, ProgramOK, Clock,
           SpiTypeOK
  <1>2. slaveRx' = slaveRx /\ slaveTx' = slaveTx /\ slaveBit' = slaveBit
    BY <1>1, Still
  <1>3. /\ slaveBit' \in 0..(Transfers * Bits)
        /\ busy' /\ CS \notin out' =>
                \E d \in 0..(Transfers - 1) : slaveBit' = d * Bits + (bitCnt' \div 2)
    BY <1>1, CountHardware
  <1>4. ~Begins
    BY <1>1, Outputs
  <1>5. rxShift' = rxShift /\ ~samplePending' /\ ~busy'
    BY <1>1, <1>4, EngineRests
  <1>6. CASE CoreDone
    <2>1. ipc' \in {"write", "deselect"} /\ got' = SpiData /\ done' = done + 1
      BY <1>6, LineDone DEF After
    <2>2. got' = slaveTx'
      BY <1>1, <1>2, <2>1 DEF SpiData
    <2>3. slaveBit' = done' * Bits
      BY <1>1, <1>2, <2>1, BytesOfExchange
    <2>4. CountOK'
      BY <1>3, <2>1, <2>3 DEF CountOK
    <2>5. SentOK' /\ ReceivedOK'
      BY <2>1, <2>2 DEF SentOK, ReceivedOK
    <2> QED
      BY <2>4, <2>5 DEF ExchangeOK
  <1>7. CASE ~CoreDone
    <2>1. ipc' = "read" /\ sent' = sent /\ done' = done /\ got' = got
      BY <1>7, LineGoesOn
    <2>2. CountOK'
      BY <1>1, <1>2, <1>3, <2>1 DEF CountOK
    <2>3. SentOK'
      BY <1>1, <1>2, <2>1 DEF SentOK
    <2>4. ReceivedOK'
      BY <1>1, <1>2, <1>5, <2>1 DEF ReceivedOK
    <2> QED
      BY <2>2, <2>3, <2>4 DEF ExchangeOK
  <1> QED
    BY <1>6, <1>7

LEMMA ClosingStep ==
  ASSUME MasterInv, LateStart, Clock, ClkIop, ipc \in {"deselect", "main"}
  PROVE  ExchangeOK'
  <1>1. ~busy /\ Hardware /\ ProgramOK
    BY DEF MasterInv, LeftOK, Opening, Clock
  <1>2. ipc' \in {"deselect", "main"} /\ done' = done /\ got' = got
        /\ (ipc' = "deselect" => ipc = "deselect")
    BY LineDone, LineGoesOn DEF After, Opening
  <1>3. slaveTx' = slaveTx
    BY <1>1, SlaveQuiet
  <1>4. CountOK'
    BY <1>1, <1>2, CountHardware DEF CountOK
  <1>5. SentOK'
    BY <1>2 DEF SentOK
  <1>6. ReceivedOK'
    BY <1>2, <1>3 DEF ReceivedOK, MasterInv
  <1> QED
    BY <1>4, <1>5, <1>6 DEF ExchangeOK

\* While the helper sends, the firmware polls: the even cycles bring the edges the
\* slave samples at, and what MISO held there arrives three and more cycles later.
LEMMA PollBusy ==
  ASSUME MasterInv, LateStart, Clock, ClkIop, ipc = "poll", busy
  PROVE  /\ ipc' = "poll" /\ done' = done /\ sent' = sent /\ txShift' = txShift
         /\ txShift = sent /\ CS \notin out /\ CS \notin out' /\ Elapsed = bitCnt
         /\ busy' <=> bitCnt # 2 * Bits - 1
         /\ busy' => bitCnt' = bitCnt + 1
         /\ Elapsed' = bitCnt + 1
         /\ samplePending <=> bitCnt # 0 /\ bitCnt % 2 = 0
         /\ samplePending' <=> bitCnt % 2 = 1
         /\ bitCnt % 2 = 1 => sampleBit' = bitCnt \div 2
         /\ rxShift' = IF samplePending THEN [rxShift EXCEPT ![sampleBit] = High(sync2)]
                                        ELSE rxShift
         /\ sync1' = pad /\ sync2' = sync1
  <1>1. /\ Hardware /\ ProgramOK /\ CS \notin out /\ mode = Config /\ mode.cpha = 0
        /\ bitCnt \in 0..(2 * Bits - 1) /\ txShift = sent /\ Bits \in Nat \ {0}
        /\ (samplePending <=> bitCnt # 0 /\ bitCnt % 2 = 0)
    BY MasterAssumption
    DEF Clock, MasterInv, SetupOK, EngineOK, Config, SpiTypeOK, SentOK, ReceivedOK
  <1>2. ipc' = "poll" /\ done' = done /\ sent' = sent
    BY LineDone, LineGoesOn DEF After
  <1>3. CS \notin out'
    BY <1>1, PadLevels
  <1>4. Miso = High(sync2)
    BY <1>1 DEF Miso, High, Config, MOSI, MISO
  <1>5. sync1' = pad /\ sync2' = sync1
    BY <1>1 DEF Hardware, Synchronise
  <1>6. /\ busy' <=> bitCnt # 2 * Bits - 1
        /\ bitCnt' = IF bitCnt = 2 * Bits - 1 THEN 0 ELSE bitCnt + 1
        /\ txShift' = txShift
        /\ samplePending' <=> bitCnt % 2 = 1
        /\ sampleBit' = IF bitCnt % 2 = 1 THEN bitCnt \div 2 ELSE sampleBit
        /\ rxShift' = IF samplePending THEN [rxShift EXCEPT ![sampleBit] = Miso] ELSE rxShift
    BY <1>1, EngineRuns
  <1>7. Elapsed = bitCnt /\ Elapsed' = bitCnt + 1
    BY <1>1, <1>6 DEF Elapsed
  <1>8. rxShift' = IF samplePending THEN [rxShift EXCEPT ![sampleBit] = High(sync2)] ELSE rxShift
    BY <1>4, <1>6
  <1> QED
    BY <1>1, <1>2, <1>3, <1>5, <1>6, <1>7, <1>8

LEMMA PollLeading ==
  ASSUME MasterInv, LateStart, Clock, ClkIop, ipc = "poll", busy, bitCnt % 2 = 0
  PROVE  ExchangeOK'
  <1> DEFINE j == bitCnt \div 2
  <1>1. /\ Hardware /\ Bits \in Nat \ {0} /\ bitCnt \in 0..(2 * Bits - 1)
        /\ slaveTx \in Byte /\ slaveRx \in Byte /\ rxShift \in Byte
        /\ done \in 0..(Transfers - 1) /\ slaveBit = done * Bits + j /\ done * Bits \in Nat
    BY MasterAssumption, BytesOfExchange
    DEF Clock, MasterInv, ProgramOK, SpiTypeOK, CountOK
  <1>2. /\ j \in Places /\ bitCnt = 2 * j /\ (bitCnt + 1) \div 2 = j /\ (bitCnt + 1) % 2 = 1
        /\ bitCnt # 2 * Bits - 1
    BY <1>1, HalfOf
  <1>3. slaveBit % Bits = j
    <2>1. done \in Nat
      BY <1>1, MasterAssumption
    <2>2. (done * Bits + j) % Bits = j
      BY <1>2, <2>1, BitOfByte
    <2> QED
      BY <1>1, <2>2
  <1>4. /\ slaveRx' = [slaveRx EXCEPT ![j] = sent[j]]
        /\ slaveTx' = [slaveTx EXCEPT ![j] = High(pad)] /\ slaveBit' = slaveBit
    <2>1. CS \notin out /\ CS \notin out' /\ txShift = sent
      BY PollBusy
    <2>2. /\ slaveRx' = [slaveRx EXCEPT ![slaveBit % Bits] = txShift[bitCnt \div 2]]
          /\ slaveTx' = [slaveTx EXCEPT ![slaveBit % Bits] = High(pad)]
          /\ slaveBit' = slaveBit
      BY <1>1, <2>1, SlaveClocked
    <2> QED
      BY <1>3, <2>1, <2>2
  <1>5. /\ busy' /\ bitCnt' = 2 * j + 1 /\ Elapsed' = 2 * j + 1 /\ Elapsed = 2 * j
        /\ ~samplePending' /\ (samplePending <=> j # 0)
    BY <1>1, <1>2, PollBusy
  <1> HIDE DEF j
  <1>6. j \in Nat /\ j \in 0..(Bits - 1)
    BY <1>1, <1>2 DEF Places
  <1>7. CountOK'
    <2>1. (bitCnt' \div 2) = j
      BY <1>2, <1>5, <1>6
    <2> QED
      BY <1>1, <1>4, <1>5, <2>1, CountHardware, PollBusy DEF CountOK
  <1>8. SentOK'
    <2>1. \A k \in Places : 2 * k + 1 <= 2 * j + 1 => slaveRx'[k] = sent[k]
      <3>1. SUFFICES ASSUME NEW k \in Places, 2 * k + 1 <= 2 * j + 1
                     PROVE  slaveRx'[k] = sent[k]
        OBVIOUS
      <3>2. CASE k = j
        BY <1>1, <1>2, <1>4, <3>2 DEF Byte, Places
      <3>3. CASE k # j
        <4>1. 2 * k + 1 <= Elapsed
          BY <1>1, <1>5, <1>6, <3>1, <3>3 DEF Places
        <4>2. slaveRx[k] = sent[k]
          BY <4>1 DEF MasterInv, SentOK
        <4> QED
          BY <1>1, <1>4, <3>3, <4>2 DEF Byte, Places
      <3> QED
        BY <3>2, <3>3
    <2> QED
      BY <1>5, <2>1, PollBusy DEF SentOK
  <1>9. ReceivedOK'
    <2>1. \A k \in Places : 2 * k + 3 <= 2 * j + 1 => rxShift'[k] = slaveTx'[k]
      <3>1. SUFFICES ASSUME NEW k \in Places, 2 * k + 3 <= 2 * j + 1
                     PROVE  rxShift'[k] = slaveTx'[k]
        OBVIOUS
      <3>2. k \in 0..(Bits - 1) /\ k # j /\ j # 0 /\ k \in Nat
        BY <1>1, <1>6, <3>1 DEF Places
      <3>3. slaveTx'[k] = slaveTx[k] /\ samplePending
        BY <1>1, <1>4, <1>5, <3>2 DEF Byte
      <3>4. rxShift' = [rxShift EXCEPT ![sampleBit] = High(sync2)]
        BY <3>3, PollBusy
      <3>5. PICK i \in Places : i + 1 = j
        BY <1>1, <1>6, <3>2 DEF Places
      <3>6. High(sync2) = slaveTx[i] /\ sampleBit = i
        <4>1. 2 * i + 2 = Elapsed
          BY <1>5, <1>6, <3>5 DEF Places
        <4> QED
          BY <3>3, <4>1 DEF MasterInv, ReceivedOK
      <3>7. CASE k = i
        BY <1>1, <3>2, <3>3, <3>4, <3>6, <3>7 DEF Byte
      <3>8. CASE k # i
        <4>1. 2 * k + 3 <= Elapsed
          BY <1>5, <1>6, <3>1, <3>2, <3>5, <3>8 DEF Places
        <4>2. rxShift[k] = slaveTx[k]
          BY <4>1 DEF MasterInv, ReceivedOK
        <4> QED
          BY <1>1, <3>2, <3>3, <3>4, <3>6, <3>8, <4>2 DEF Byte
      <3> QED
        BY <3>7, <3>8
    <2>2. \A k \in Places : 2 * k + 1 = 2 * j + 1 => High(sync1') = slaveTx'[k]
      <3>1. \A k \in Places : 2 * k + 1 = 2 * j + 1 => k = j
        BY <1>6 DEF Places
      <3>2. High(sync1') = slaveTx'[j]
        BY <1>1, <1>4, <1>6, PollBusy DEF Byte, High
      <3> QED
        BY <3>1, <3>2
    <2>3. bitCnt' # 0 /\ bitCnt' % 2 = 1
      BY <1>2, <1>5, <1>6
    <2> QED
      BY <1>5, <2>1, <2>2, <2>3, PollBusy DEF ReceivedOK, High
  <1> QED
    BY <1>7, <1>8, <1>9 DEF ExchangeOK

LEMMA PollTrailing ==
  ASSUME MasterInv, LateStart, Clock, ClkIop, ipc = "poll", busy, bitCnt % 2 # 0
  PROVE  ExchangeOK'
  <1> DEFINE j == bitCnt \div 2
  <1>1. /\ Hardware /\ Bits \in Nat \ {0} /\ bitCnt \in 0..(2 * Bits - 1)
        /\ done \in 0..(Transfers - 1) /\ slaveBit = done * Bits + j /\ done * Bits \in Nat
    BY MasterAssumption, BytesOfExchange
    DEF Clock, MasterInv, ProgramOK, SpiTypeOK, CountOK
  <1>2. /\ j \in Places /\ bitCnt = 2 * j + 1 /\ (bitCnt + 1) \div 2 = j + 1
        /\ (bitCnt + 1) % 2 = 0 /\ bitCnt % 2 = 1
    BY <1>1, HalfOf
  <1>3. CS \notin out /\ CS \notin out'
    BY PollBusy
  <1>4. slaveRx' = slaveRx /\ slaveTx' = slaveTx /\ slaveBit' = slaveBit + 1
    BY <1>1, <1>3, SlaveClocked
  <1>5. /\ busy' <=> bitCnt # 2 * Bits - 1
        /\ busy' => bitCnt' = 2 * j + 2
        /\ Elapsed' = 2 * j + 2 /\ Elapsed = 2 * j + 1
        /\ samplePending' /\ ~samplePending /\ sampleBit' = j /\ rxShift' = rxShift
    BY <1>1, <1>2, PollBusy
  <1>6. busy' => bitCnt' \div 2 = j + 1 /\ bitCnt' % 2 = 0 /\ bitCnt' # 0
    BY <1>1, <1>2, PollBusy
  <1> HIDE DEF j
  <1>7. j \in Nat /\ j \in 0..(Bits - 1)
    BY <1>1, <1>2 DEF Places
  <1>8. CountOK'
    <2>1. slaveBit' = done * Bits + (j + 1)
      BY <1>1, <1>4, <1>7
    <2>2. busy' => slaveBit' = done * Bits + (bitCnt' \div 2)
      BY <1>6, <2>1
    <2>3. ~busy' => slaveBit' = done * Bits + Bits
      <3>1. ~busy' => j + 1 = Bits
        BY <1>1, <1>2, <1>5, <1>7
      <3> QED
        BY <2>1, <3>1
    <2> QED
      BY <1>1, <2>2, <2>3, CountHardware, PollBusy DEF CountOK
  <1>9. SentOK'
    <2>1. \A k \in Places : 2 * k + 1 <= 2 * j + 2 => slaveRx'[k] = sent[k]
      <3>1. \A k \in Places : 2 * k + 1 <= 2 * j + 2 => 2 * k + 1 <= Elapsed
        BY <1>5, <1>7 DEF Places
      <3> QED
        BY <1>4, <3>1 DEF MasterInv, SentOK
    <2> QED
      BY <1>5, <2>1, PollBusy DEF SentOK
  <1>10. ReceivedOK'
    <2>1. \A k \in Places : 2 * k + 3 <= 2 * j + 2 => rxShift'[k] = slaveTx'[k]
      <3>1. \A k \in Places : 2 * k + 3 <= 2 * j + 2 => 2 * k + 3 <= Elapsed
        BY <1>5, <1>7 DEF Places
      <3> QED
        BY <1>4, <1>5, <3>1 DEF MasterInv, ReceivedOK
    <2>2. \A k \in Places : 2 * k + 1 # 2 * j + 2
      BY <1>7 DEF Places
    <2>3. \A k \in Places : 2 * k + 2 = 2 * j + 2 =>
              (IF MISO \in sync2' THEN 1 ELSE 0) = slaveTx'[k] /\ sampleBit' = k
      <3>1. \A k \in Places : 2 * k + 2 = 2 * j + 2 => k = j
        BY <1>7 DEF Places
      <3>2. (IF MISO \in sync1 THEN 1 ELSE 0) = slaveTx[j]
        BY <1>2, <1>5 DEF MasterInv, ReceivedOK, High
      <3>3. sync2' = sync1
        BY PollBusy
      <3> QED
        BY <1>4, <1>5, <3>1, <3>2, <3>3
    <2> QED
      BY <1>5, <1>6, <2>1, <2>2, <2>3, PollBusy DEF ReceivedOK, High
  <1> QED
    BY <1>8, <1>9, <1>10 DEF ExchangeOK

\* The helper is done: its last sample comes in and the firmware sees busy low.
LEMMA PollReady ==
  ASSUME MasterInv, LateStart, Clock, ClkIop, ipc = "poll", ~busy
  PROVE  ExchangeOK'
  <1>1. /\ CS \notin out /\ Hardware /\ ProgramOK /\ Bits \in Nat \ {0}
        /\ slaveBit = done * Bits + Bits /\ done \in 0..(Transfers - 1)
        /\ rxShift \in Byte /\ slaveTx \in Byte /\ sampleBit \in Places
        /\ bitCnt \in 0..(2 * Bits - 1) /\ Elapsed = 2 * Bits
    BY MasterAssumption
    DEF MasterInv, SetupOK, CountOK, ProgramOK, Clock, SpiTypeOK, Places, Elapsed
  <1>2. slaveRx' = slaveRx /\ slaveTx' = slaveTx /\ slaveBit' = slaveBit
    BY <1>1, Still
  <1>3. /\ slaveBit' \in 0..(Transfers * Bits)
        /\ busy' /\ CS \notin out' =>
                \E d \in 0..(Transfers - 1) : slaveBit' = d * Bits + (bitCnt' \div 2)
    BY <1>1, CountHardware
  <1>4. ~Begins
    BY <1>1, Outputs
  <1>5. /\ ~samplePending' /\ ~busy'
        /\ rxShift' = IF samplePending THEN [rxShift EXCEPT ![sampleBit] = Miso] ELSE rxShift
    BY <1>1, <1>4, EngineRests
  <1>6. ipc' \in {"poll", "read"} /\ sent' = sent /\ done' = done
    BY LineDone, LineGoesOn DEF After
  <1>7. Miso = High(sync2)
    <2>1. mode = Config
      BY DEF MasterInv, SetupOK
    <2> QED
      BY <2>1 DEF Miso, High, Config, MOSI, MISO
  <1>8. \A k \in Places : rxShift'[k] = slaveTx[k]
    <2>1. SUFFICES ASSUME NEW k \in Places PROVE rxShift'[k] = slaveTx[k]
      OBVIOUS
    <2>2. k \in 0..(Bits - 1)
      BY DEF Places
    <2>3. CASE ~samplePending
      BY <1>5, <2>3 DEF MasterInv, ReceivedOK
    <2>4. CASE samplePending
      <3>1. rxShift' = [rxShift EXCEPT ![sampleBit] = High(sync2)]
        BY <1>5, <1>7, <2>4
      <3>2. PICK l \in Places : 2 * l + 2 = Elapsed
        BY <1>1 DEF Places
      <3>3. High(sync2) = slaveTx[l] /\ sampleBit = l
        BY <2>4, <3>2 DEF MasterInv, ReceivedOK
      <3>4. CASE k = l
        BY <1>1, <2>2, <3>1, <3>3, <3>4 DEF Byte
      <3>5. CASE k # l
        <4>1. 2 * k + 3 <= Elapsed
          BY <1>1, <2>2, <3>2, <3>5 DEF Places
        <4>2. rxShift[k] = slaveTx[k]
          BY <4>1 DEF MasterInv, ReceivedOK
        <4> QED
          BY <1>1, <2>2, <3>1, <3>3, <3>5, <4>2 DEF Byte
      <3> QED
        BY <3>4, <3>5
    <2> QED
      BY <2>3, <2>4
  <1>9. rxShift' = slaveTx
    <2>1. rxShift' \in Byte
      BY <1>1, HelperTypes
    <2> QED
      BY <1>1, <1>8, <2>1 DEF Byte, Places
  <1>10. \A k \in Places : slaveRx[k] = sent[k]
    <2>1. \A k \in Places : 2 * k + 1 <= Elapsed
      BY <1>1 DEF Places
    <2> QED
      BY <2>1 DEF MasterInv, SentOK
  <1>11. CountOK'
    BY <1>1, <1>2, <1>3, <1>5, <1>6 DEF CountOK
  <1>12. SentOK'
    BY <1>2, <1>5, <1>6, <1>10 DEF SentOK
  <1>13. ReceivedOK'
    <2>1. \A k \in Places : 2 * k + 1 # 2 * Bits
      BY <1>1 DEF Places
    <2>2. Elapsed' = 2 * Bits
      BY <1>5 DEF Elapsed
    <2> QED
      BY <1>2, <1>5, <1>6, <1>8, <1>9, <2>1, <2>2 DEF ReceivedOK
  <1> QED
    BY <1>11, <1>12, <1>13 DEF ExchangeOK

LEMMA PhaseStep == ASSUME MasterInv, Hardware PROVE phase' \in 0..(N - 1)
  <1>1. phase' = (phase + 1) % N /\ phase \in 0..(N - 1) /\ N \in Nat \ {0}
    BY RatioAssumption DEF Hardware, ClockStep, MasterInv
  <1> QED
    BY <1>1

LEMMA ExchangeAtRest ==
  ASSUME MasterInv, ~ClkIop, Clock
  PROVE  ExchangeOK'
  <1>1. Hardware /\ ~CoreDone
    BY DEF Clock, CoreDone
  <1>2. UNCHANGED <<spiVars, gpioVars, syncVars, pad, slave, slaveTx, slaveRx, slaveBit>>
    BY <1>1, AtRest
  <1>3. UNCHANGED <<ipc, sent, done, got>>
    BY <1>1, LineGoesOn
  <1>4. Elapsed' = Elapsed
    BY <1>2 DEF Elapsed, spiVars
  <1>5. CountOK'
    BY <1>2, <1>3 DEF MasterInv, CountOK, spiVars, gpioVars
  <1>6. SentOK'
    BY <1>2, <1>3, <1>4 DEF MasterInv, SentOK, spiVars
  <1>7. ReceivedOK'
    BY <1>2, <1>3, <1>4 DEF MasterInv, ReceivedOK, High, spiVars, syncVars
  <1> QED
    BY <1>5, <1>6, <1>7 DEF ExchangeOK

LEMMA ClockKeeps == ASSUME MasterInv, LateStart, Clock PROVE MasterInv'
  <1>1. Hardware
    BY DEF Clock
  <1>2. ExchangeOK'
    <2>1. CASE ipc = "poll" /\ ClkIop
      BY <2>1, PollLeading, PollTrailing, PollReady
    <2>2. CASE ClkIop /\ ipc # "poll"
      BY <2>2, OpeningStep, WriteStep, ReadStep, ClosingStep DEF MasterInv, ProgramOK
    <2> QED
      BY <2>1, <2>2, ExchangeAtRest
  <1> QED
    BY <1>1, <1>2, PhaseStep, TypeStep, ProgramStep, SetupStep, EngineStep, LeftStep
    DEF MasterInv, ExchangeOK

\* The host resets the core: the helper and the slave go on.
LEMMA RebootKeeps == ASSUME MasterInv, LateStart, Reboot PROVE MasterInv'
  <1>1. /\ Hardware /\ core' = Idle /\ ipc' = "enable" /\ starting' = Startup
        /\ sent' = Zeros /\ done' = 0 /\ got' = Zeros /\ boots' = boots + 1 /\ boots < Reboots
        /\ boots \in 0..Reboots /\ Reboots \in Nat /\ Startup \in Nat /\ Transfers \in Nat
    BY MasterAssumption DEF Reboot, CoreReset, MasterInv, SpiTypeOK
  <1>2. SpiTypeOK'
    <2>1. Zeros \in Byte
      BY DEF Zeros, Byte
    <2>2. boots' \in 0..Reboots /\ done' \in 0..Transfers
      BY <1>1
    <2> QED
      BY <1>1, <2>1, <2>2, TypeHardware
  <1>3. ProgramOK'
    BY <1>1 DEF ProgramOK, Opening, Idle
  <1>4. SetupOK'
    <2>1. slave' \in [cpol : {0, 1}, cpha : {0}] /\ (SCK \in out' => slave'.cpol = 1)
      BY <1>1, PadLevels DEF MasterInv, SetupOK
    <2> QED
      BY <1>1, <2>1 DEF SetupOK
  <1>5. LeftOK'
    <2>1. bitCnt' \in Nat
      BY <1>1, HelperTypes
    <2>2. Reached(ipc)' = 0
      BY <1>1 DEF Reached
    <2>3. Under' = 0
      BY <1>1 DEF Under
    <2>4. Reboots # 0
      BY <1>1
    <2> QED
      BY <1>1, <2>1, <2>2, <2>3, <2>4 DEF LeftOK, Opening
  <1>6. CountOK'
    BY <1>1, CountHardware DEF CountOK
  <1>7. SentOK' /\ ReceivedOK'
    BY <1>1 DEF SentOK, ReceivedOK
  <1> QED
    BY <1>1, <1>2, <1>3, <1>4, <1>5, <1>6, <1>7, PhaseStep, EngineStep DEF MasterInv

LEMMA MasterStep == ASSUME MasterInv, LateStart, [Clock \/ Reboot]_masterVars PROVE MasterInv'
  <1>1. CASE UNCHANGED masterVars
    <2>1. /\ UNCHANGED <<phase, apb, pad, sync1, sync2, out, oe, mode, txShift, rxShift, bitCnt,
                         busy, sck, samplePending, sampleBit>>
          /\ UNCHANGED <<core, ipc, starting, boots, sent, done, got,
                         slave, slaveTx, slaveRx, slaveBit>>
      BY <1>1 DEF masterVars, syncVars, gpioVars, spiVars, iopVars
    <2>2. IopOp(ipc)' = IopOp(ipc) /\ Reached(ipc)' = Reached(ipc) /\ Under' = Under
          /\ Config' = Config /\ Elapsed' = Elapsed
      BY <2>1 DEF IopOp, IdleHigh, Reached, Under, Config, Elapsed
    <2>3. SpiTypeOK' /\ ProgramOK'
      BY <2>1, <2>2 DEF MasterInv, SpiTypeOK, ProgramOK
    <2>4. SetupOK' /\ EngineOK' /\ LeftOK'
      BY <2>1, <2>2 DEF MasterInv, SetupOK, EngineOK, IdleLevel, LeftOK
    <2>5. CountOK' /\ SentOK'
      BY <2>1, <2>2 DEF MasterInv, CountOK, SentOK
    <2>6. ReceivedOK'
      BY <2>1, <2>2 DEF MasterInv, ReceivedOK, High
    <2> QED
      BY <2>1, <2>3, <2>4, <2>5, <2>6 DEF MasterInv
  <1> QED
    BY <1>1, ClockKeeps, RebootKeeps

LEMMA MasterHolds == ASSUME LateStart PROVE MasterSpec => []MasterInv
  <1>1. MasterInit => MasterInv
    BY MasterInvInit
  <1>2. MasterInv /\ [Clock \/ Reboot]_masterVars => MasterInv'
    BY MasterStep
  <1> QED
    BY <1>1, <1>2, PTL DEF MasterSpec
-----------------------------------------------------------------------------
\* The registers of the helper and of the slave keep their types, and the slave is
\* never clocked more often than the bytes have bits.
THEOREM SpiTypes == ASSUME LateStart PROVE MasterSpec => []SpiTypeOK
  <1>1. MasterInv => SpiTypeOK
    BY DEF MasterInv
  <1> QED
    BY <1>1, MasterHolds, PTL

\* The byte that spi_xfer() returns is what the slave held on MISO at the edges it
\* sampled at, although the helper takes it from the synchroniser two cycles later
\* and its last bit when busy has fallen.
THEOREM SpiReceives == ASSUME LateStart PROVE MasterSpec => []ByteReceived
  <1>1. MasterInv => ByteReceived
    BY DEF MasterInv, ReceivedOK, ByteReceived
  <1> QED
    BY <1>1, MasterHolds, PTL

\* When the helper is done the slave has the byte that was stored, and has counted
\* as many bits as were sent since CS fell.
THEOREM SpiSends == ASSUME LateStart PROVE MasterSpec => []ByteSent
  <1>1. MasterInv => ByteSent
    <2> SUFFICES ASSUME MasterInv, ipc = "read"
                 PROVE  slaveBit = (done + 1) * Bits /\ slaveRx = sent
      BY DEF ByteSent
    <2>1. done \in 0..(Transfers - 1) /\ slaveBit = done * Bits + Bits
      BY DEF MasterInv, ProgramOK, CountOK
    <2>2. \A k \in Places : slaveRx[k] = sent[k]
      BY DEF MasterInv, SentOK
    <2>3. slaveRx \in Byte /\ sent \in Byte
      BY DEF MasterInv, SpiTypeOK
    <2>4. slaveRx = sent
      <3>1. slaveRx = [k \in Places |-> slaveRx[k]] /\ sent = [k \in Places |-> sent[k]]
        BY <2>3 DEF Byte, Places
      <3> QED
        BY <2>2, <3>1
    <2> QED
      BY <2>1, <2>4, BytesOfExchange
  <1> QED
    BY <1>1, MasterHolds, PTL
=============================================================================
