------------------------------ MODULE SpiMaster -----------------------------
(***************************************************************************)
(* The SPI helper between sw/spi_master/main.c and a slave on its pads.    *)
(* The firmware sets the pads up, configures the helper and exchanges      *)
(* bytes with spi_xfer(): store, poll SPI_STATUS, load.  Its GPIO_OUT      *)
(* holds SCK at its idle level, for the helper drives the pad during a     *)
(* transfer only.  The host may reset the core at any edge, which neither  *)
(* the helper nor the pads notice.                                         *)
(*                                                                         *)
(* The slave follows its mode while CS is low: CPHA = 0, it samples on the *)
(* leading edge and presents its next bit on the trailing one, the first   *)
(* when selected; CPHA = 1, it presents on the leading and samples on the  *)
(* trailing edge.  It counts bits by their trailing edges, answers within  *)
(* the cycle of clk_iop, and where MOSI changes with the edge it samples   *)
(* on it may take either level.                                            *)
(***************************************************************************)
EXTENDS Spi, Gpio
CONSTANTS Cpol, Cpha, \* the modes of the slave
          Transfers,  \* bytes between CS low and CS high
          Startup,    \* what crt0.S takes before main(), at least
          Reboots     \* bound: how often the host resets the core
SCK == 2
MOSI == 3
MISO == 4
CS == 5
ASSUME MasterAssumption ==
    /\ Pins = {SCK, MOSI, MISO, CS} /\ Bits \in Nat \ {0}
    /\ Cpol \subseteq {0, 1} /\ Cpol # {} /\ Cpha \subseteq {0, 1} /\ Cpha # {}
    /\ Transfers \in Nat \ {0} /\ Startup \in Nat /\ Reboots \in Nat

VARIABLES ipc,      \* the firmware's next access
          starting, \* what is left of Startup
          boots,    \* resets so far
          sent,     \* the byte of the present transfer
          done,     \* transfers completed
          got,      \* the byte it loaded
          slave,    \* the slave's mode, for which the firmware is written
          slaveTx,  \* the bits the slave held on MISO at its last sampling edges
          slaveRx,  \* the bits it took there
          slaveBit  \* its count of bits since it was selected
iopVars == <<core, ipc, starting, boots, sent, done, got>>
masterVars == <<phase, apb, pad, syncVars, gpioVars, spiVars, iopVars,
                slave, slaveTx, slaveRx, slaveBit>>

Store(reg, v) == [sel |-> reg, wr |-> TRUE, v |-> v]
Load(reg) == [sel |-> reg, wr |-> FALSE]

\* The pads that are high between transfers; the code's mode is CPOL = 0.  Mutant:
\* SCK is low in any mode.
IdleHigh_NoSck == {CS}
IdleHigh == {CS} \cup {p \in {SCK} : slave.cpol = 1}
IopOp(pc) ==
    CASE pc = "enable" -> {Store("GPIO_OE_SET", {SCK, MOSI, CS})}
      [] pc = "idle" -> {Store("GPIO_OUT_SET", IdleHigh)}
      [] pc = "config" -> {Store("SPI_CFG", [cpol |-> slave.cpol, cpha |-> slave.cpha,
                                             sck |-> SCK, mosi |-> MOSI])}
      [] pc = "select" -> {Store("GPIO_OUT_CLR", {CS})}
      [] pc = "write" -> {Store("SPI_DATA", b) : b \in Byte}
      [] pc = "poll" -> {Load("SPI_STATUS")}
      [] pc = "read" -> {Load("SPI_DATA")}
      [] pc = "deselect" -> {Store("GPIO_OUT_SET", {CS})}
      [] pc = "main" -> {}
CoreDone == ClkIop /\ (core.st = "wait" \/ (core.st = "req" /\ core.op.wr))

After(pc) ==
    CASE pc = "enable" -> "idle"
      [] pc = "idle" -> "config"
      [] pc = "config" -> "select"
      [] pc = "select" -> "write"
      [] pc = "write" -> "poll"
      [] pc = "poll" -> IF busy THEN "poll" ELSE "read"
      [] pc = "read" -> IF done + 1 < Transfers THEN "write" ELSE "deselect"
      [] pc = "deselect" -> "main"
Firmware ==
    /\ CoreDone
    /\ ipc' = After(ipc)
    /\ sent' = IF ipc = "write" THEN core.op.v ELSE sent
    /\ got' = IF ipc = "read" THEN SpiData ELSE got
    /\ done' = IF ipc = "read" THEN done + 1 ELSE done
-----------------------------------------------------------------------------
\* The levels at the pads, and their edges in the coming step.
PadOut == Overridden(out, SpiPads, SpiHigh)
Sck == IF SCK \in PadOut THEN 1 ELSE 0
MosiPad == IF MOSI \in PadOut THEN 1 ELSE 0
Selected == CS \notin PadOut /\ CS \notin PadOut'
Selects == CS \in PadOut /\ CS \notin PadOut'
Leading == Selected /\ Sck = slave.cpol /\ Sck' # slave.cpol
Trailing == Selected /\ Sck # slave.cpol /\ Sck' = slave.cpol
SlaveSamples == IF slave.cpha = 0 THEN Leading ELSE Trailing
SlavePresents == IF slave.cpha = 0 THEN Trailing \/ Selects ELSE Leading
Level == IF MISO \in pad THEN 1 ELSE 0

Slave ==
    /\ UNCHANGED slave
    /\ pad' \in IF SlavePresents THEN SUBSET {MISO} ELSE {pad}
    /\ IF SlaveSamples
       THEN /\ \E b \in {MosiPad, MosiPad'} :
                 slaveRx' = [slaveRx EXCEPT ![slaveBit % Bits] = b]
            /\ slaveTx' = [slaveTx EXCEPT ![slaveBit % Bits] = Level]
       ELSE UNCHANGED <<slaveRx, slaveTx>>
    /\ slaveBit' = CASE Selects -> 0 [] Trailing -> slaveBit + 1 [] OTHER -> slaveBit
-----------------------------------------------------------------------------
MasterInit ==
    /\ BusInit /\ SpiReset /\ GpioReset /\ SyncReset /\ pad \in SUBSET {MISO}
    /\ ipc = "enable" /\ starting = Startup /\ boots = 0
    /\ sent = Zeros /\ done = 0 /\ got = Zeros
    /\ slave \in [cpol : Cpol, cpha : Cpha]
    /\ slaveTx = Zeros /\ slaveRx = Zeros /\ slaveBit = 0

Hardware ==
    /\ ClockStep /\ UNCHANGED apb /\ SpiStep /\ GpioStep
    /\ IF ClkIop THEN Synchronise /\ Slave
       ELSE UNCHANGED <<syncVars, pad, slave, slaveTx, slaveRx, slaveBit>>
Clock ==
    /\ Hardware /\ UNCHANGED boots
    /\ starting' = IF ClkIop /\ starting > 0 THEN starting - 1 ELSE starting
    /\ CoreStep(IF core.st = "idle" /\ starting = 0 THEN IopOp(ipc) ELSE {}, FALSE, FALSE)
    /\ Firmware \/ (~CoreDone /\ UNCHANGED <<ipc, sent, done, got>>)

\* attoio_hold_reset() and attoio_release_reset().  What is under way in the
\* helper lasts 2 * Bits cycles; crt0.S takes Startup or more, and main()'s first
\* stores two each at least.
Reboot ==
    /\ boots < Reboots /\ boots' = boots + 1
    /\ Hardware /\ CoreReset
    /\ ipc' = "enable" /\ starting' = Startup /\ sent' = Zeros /\ done' = 0 /\ got' = Zeros

MasterSpec == MasterInit /\ [][Clock \/ Reboot]_masterVars
-----------------------------------------------------------------------------
\* Types, and the slave is never clocked more often than the bytes have bits.
SpiTypeOK ==
    /\ mode \in [cpol : {0, 1}, cpha : {0, 1}, sck : 0..15, mosi : 0..3]
    /\ {txShift, rxShift, sent, got, slaveTx, slaveRx} \subseteq Byte
    /\ bitCnt \in 0..(2 * Bits - 1) /\ sck \in {0, 1} /\ sampleBit \in 0..(Bits - 1)
    /\ {busy, samplePending} \subseteq BOOLEAN /\ {out, oe} \subseteq SUBSET Pins
    /\ done \in 0..Transfers /\ slaveBit \in 0..(Transfers * Bits)
    /\ boots \in 0..Reboots

\* The byte spi_xfer() returns has the levels of MISO at the sampling edges of
\* SCK: attoio_spi.v, "CPHA=0: capture on first (leading) edge of SCK" and
\* "CPHA=1: capture on second (trailing) edge", past a synchroniser that is two
\* cycles late and a last sample that is taken when busy has fallen, and whatever
\* a reset of the core has left under way in the helper.
ByteReceived == (ipc \in {"write", "deselect"} /\ done > 0) => got = slaveTx

\* And the slave has the whole byte that was stored, of as many clocks as it has
\* bits, so the two stay in step from CS low to CS high: no pad makes an edge when
\* GPIO_OUT and the helper take it from each other.
ByteSent == ipc = "read" => slaveBit = (done + 1) * Bits /\ slaveRx = sent
=============================================================================
