--------------------------------- MODULE Spi --------------------------------
(***************************************************************************)
(* attoio_spi.v, all of it on clk_iop.  A transfer takes two cycles for a  *)
(* bit, so bitCnt counts to 2 * Bits; a byte is a function of the bit's    *)
(* place in the order of sending, 0 first.  MISO is the pad after MOSI and *)
(* is read through the synchroniser.                                       *)
(***************************************************************************)
EXTENDS PadSync
CONSTANT Bits  \* 8
Byte == [0..(Bits - 1) -> {0, 1}]
Zeros == [k \in 0..(Bits - 1) |-> 0]

VARIABLES mode,     \* SPI_CFG: cpol, cpha and the pads of SCK and MOSI
          txShift, rxShift, bitCnt, busy, sck,
          samplePending, sampleBit
spiVars == <<mode, txShift, rxShift, bitCnt, busy, sck, samplePending, sampleBit>>

SpiReset == /\ mode = [cpol |-> 0, cpha |-> 0, sck |-> 0, mosi |-> 0]
            /\ txShift = Zeros /\ rxShift = Zeros /\ bitCnt = 0
            /\ busy = FALSE /\ sck = 0
            /\ samplePending = FALSE /\ sampleBit = 0

Last == bitCnt = 2 * Bits - 1
CapturePhase == 1 - mode.cpha
Begins == Stores("SPI_DATA") /\ ~busy

Configure == mode' = IF Stores("SPI_CFG") THEN core.op.v ELSE mode
Transmit == txShift' = IF Begins THEN core.op.v ELSE txShift

\* Mutants: busy never falls; it falls one cycle early.
Shift_NoEnd ==
    /\ busy' = (busy \/ Begins)
    /\ bitCnt' = IF busy THEN (bitCnt + 1) % (2 * Bits) ELSE IF Begins THEN 0 ELSE bitCnt
Shift_Short ==
    /\ busy' = ((busy /\ bitCnt # 2 * Bits - 2) \/ Begins)
    /\ bitCnt' = IF busy THEN (bitCnt + 1) % (2 * Bits) ELSE IF Begins THEN 0 ELSE bitCnt
Shift ==
    /\ busy' = ((busy /\ ~Last) \/ Begins)
    /\ bitCnt' = IF busy THEN (bitCnt + 1) % (2 * Bits)
                 ELSE IF Begins THEN 0 ELSE bitCnt

Toggle == sck' = IF busy THEN IF Last THEN mode.cpol ELSE 1 - sck
                 ELSE IF Begins THEN mode.cpol ELSE sck

\* The sample is taken one cycle after its phase.  Mutant: in the phase itself.
Miso == IF mode.mosi + 1 \in sync2 THEN 1 ELSE 0
Samples == busy /\ bitCnt % 2 = CapturePhase
Sample_AtOnce ==
    /\ samplePending' = FALSE /\ sampleBit' = sampleBit
    /\ rxShift' = LET kept == IF Begins THEN Zeros ELSE rxShift
                  IN IF Samples THEN [kept EXCEPT ![bitCnt \div 2] = Miso] ELSE kept
Sample ==
    /\ samplePending' = Samples
    /\ sampleBit' = IF Samples THEN bitCnt \div 2 ELSE sampleBit
    /\ rxShift' = LET kept == IF Begins THEN Zeros ELSE rxShift
                  IN IF samplePending THEN [kept EXCEPT ![sampleBit] = Miso] ELSE kept

SpiStep == IF ClkIop THEN Configure /\ Transmit /\ Shift /\ Toggle /\ Sample
           ELSE UNCHANGED spiVars

\* What drives the pads while busy.  Mutant: the bit changes with the first edge.
Mosi_Early == txShift[((bitCnt + 1) % (2 * Bits)) \div 2]
Mosi == txShift[bitCnt \div 2]

\* The override of attoio_gpio.v: which pads, and which of them are high.
SpiPads == IF busy THEN {mode.sck, mode.mosi} ELSE {}
SpiHigh == ({p \in {mode.sck} : sck = 1} \ {mode.mosi}) \cup {p \in {mode.mosi} : Mosi = 1}

SpiData == IF busy THEN txShift ELSE rxShift
=============================================================================
