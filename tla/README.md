# AttoIO: verification project

AttoIO is an I/O processor: a small RV32E core with private memory, pads and
peripherals behind an APB slave. The host loads firmware, releases the reset
and talks to it through a mailbox, two doorbells and a few control registers.
This directory holds TLA+ models of it, the TLC runs that check them and the
proofs about them. Everything is translated from the Verilog under `rtl/`, the
host library `host_lib/` and the firmware under `sw/`.

## 1. The system

One macro (`rtl/attoio_macro.v`) with two clocks: `sysclk`, the host's, and
`clk_iop`, every N-th edge of it. A register of either clock sees the others
directly: there is no synchroniser between the two domains.

| Component | State | Operations | Interacts by |
|---|---|---|---|
| SRAM macros (`models/dffram_gen`, DFFRAM) | cells, output register Do0 | read, write | both ports of the multiplexer share one Do0 |
| Memory multiplexer (`attoio_memmux.v`, `attoio_apb_if.v`) | read-source registers, capture latch, pending bit | a host access, a core access, stall | APB wait state to the host, rbusy/wbusy to the core |
| Control (`attoio_ctrl.v`) | two doorbells, reset bit, NMI pulse, PINMUX | host and core writes | interrupt lines both ways, core reset |
| GPIO and wake (`attoio_gpio.v`) | outputs, pad control, synchroniser, WAKE_FLAGS, masks | core stores, input edges | interrupt line to the core, pads |
| SPI (`attoio_spi.v`) | shift registers, bit count | core stores, clock | overrides two pads |
| Timer (`attoio_timer.v`) | counter, four compare channels, capture | core stores, clock | interrupt line, toggles pads |
| Watchdog (`attoio_wdt.v`) | count, enables, expired | core stores, clock | NMI to the core, alert to the host |
| Macro top | pad multiplexer, reset tree, decode | - | connects all of it |
| AttoRV32 core | not in the repository | - | memory port, IRQ, NMI |
| RPC protocol (`host_lib/libattoio.c`, `sw/common/attoio_rpc.c`) | mailbox words, doorbells | call, dispatch | mailbox and doorbells |
| Firmware examples (`sw/*`) | globals | main, `__isr` | registers; pads to a device or to an observer |

How they interact:

* The host reads and writes over APB (`attoio_apb_if.v`: no error response, no
  timeout). An access of the register page is answered at once, one of an SRAM
  a cycle later.
* The core's loads and stores take whole clk_iop cycles. A store is driven for
  N sysclk edges, so what listens on sysclk sees it N times; a mailbox access
  is stalled while the host has one.
* IOP_CTRL.reset holds the core, the timer and the watchdog in reset and hands
  SRAM A to the host. GPIO, SPI, doorbells and mailbox keep what they hold.
* The core's interrupt is the OR of levels: DOORBELL_H2C, WAKE_FLAGS under
  their mask, the timer's flags. The NMI is the host's pulse or the watchdog's
  flag. The host's interrupt is DOORBELL_C2H or the watchdog's alert.
* Handlers run on one core with interrupts off, so firmware races with the
  hardware and the host, never with itself, except main() with `__isr()`.

What is hard, and what correctness means:

| Component | Hard because | Correct when |
|---|---|---|
| Memory multiplexer | two clocks, one output register for two readers, priority to the host, a store repeated while it is held, a reset at any edge | each access takes effect once, at one instant; nobody's read is disturbed; every access ends |
| RPC | doorbells and sentinel set and cleared from two sides, poll limits, reloads | a call gets its own answer, its request is carried out once, nothing is lost |
| Wake | an edge in the very cycle of a clear, a clear that lasts a clk_iop cycle | no edge is lost silently, none counted twice |
| Timer | a flag is one bit, set and cleared in one cycle, two sources in one handler | each event is handled once, in the period it belongs to |
| Watchdog | a pet at the expiry, a hang anywhere, a report the host reads while it is written | it expires on time, exactly once, and the report is complete |
| SPI | outputs now, inputs two cycles late, four modes | both sides get the byte |
| Bit-banged drivers | the line is shared with the device, each store is some cycles late, delays start anew or run on | the device decodes what was meant, the program what the device has; no transfer is framed by mistake |
| Waveforms | compare values rewritten while the counter runs, absolute and relative times, 16-bit timestamps | each edge comes at its time |
| Shared handlers | sources that come while another is served, a W1C of more than was read | each event is counted once |
| NMI, PINMUX | a pulse between two clocks, a 32-bit setting in two writes | planned, see section 6 |

The full list of hazards, each at its line, is in `PROJECT.json`.

## 2. The modules

Time is counted in edges of sysclk. A specification's step is one edge of
everything it contains; every N-th step is an edge of clk_iop too. State read
by a step is what the registers hold before the edge. Pads and encoders move
between edges. A register of one bit per pad is the set of pads whose bit is 1.
A definition whose name has a suffix (`HostReqB_Psel`) is a plausible fault of
the definition it is named after; the specifications do not use it, it serves
to show that a property can fail.

| Module | Stands for | State and actions |
|---|---|---|
| `AttoBus` | clk_iop, APB master with wrapper, the core's bus | `phase`; `apb` idle, setup, access; `core` idle, req (driven, stalled while busy), wait (a load's data) |
| `Dffram` | one SRAM macro | cells and Do0 |
| `Memmux` | `attoio_memmux.v` between both masters and both SRAMs | one action, `Edge`, with one operator for each register of the source |
| `MemmuxHistory`, `AtomicMemory` | what the mailbox promises | the abstract memory, the history variables and the mapping |
| `Ctrl` | doorbells, reset bit, NMI of `attoio_ctrl.v` | `H2C`, `C2H`, `ResetRegister`, `Nmi` |
| `Rpc` | `libattoio.c` and `attoio_rpc.c` over `Memmux` and `Ctrl` | program counters `hpc`, `ipc`, one value for each bus access of the C code |
| `RemoteCall` | what a call promises its caller | a stage and a result; asked, carried out once, answered; `Rpc` states the mapping |
| `Wake` | inputs of `attoio_gpio.v` | synchroniser, `WakeFlags`, the clear registers |
| `Qenc` | `sw/qenc/main.c` over `Wake` | `ipc` as above; `Turn`, `Press`, `Release` outside |
| `PadSync` | the clk_iop synchroniser of `attoio_macro.v` | `Synchronise` |
| `Timer` | `attoio_timer.v` | `Count`, `Capture`, `Status`, `Toggle`, `Configure` |
| `FreqCounter` | `sw/freq_counter/main.c` over `Timer` | `ipc`; the signal `Move`s at any time |
| `Wdt` | `attoio_wdt.v` | `Count`, `Expire`, `Control` |
| `WdtTest` | `sw/wdt_test/main.c` over `Wdt` | `ipc`; `Reboot` by the host |
| `Spi` | `attoio_spi.v` | `Shift`, `Toggle`, `Sample`, `Mosi` |
| `SpiMaster` | `sw/spi_master/main.c` over `Spi` and `Gpio`, with the slave of `tb_spi.v` at the pads | `ipc`; `Slave`; `Reboot` by the host |
| `Gpio` | output registers of `attoio_gpio.v`, the override of a pad | `Written`, `Overridden` |
| `Iop` | core, `Timer`, `Gpio` and `Wake` under a program; idioms the images share | `todo`, the items left; `Begin`, `Finish`, `Trap`, `Return`, ... |
| `I2cEeprom`, `Tm1637`, `Ht1621`, `Hd44780`, `OneWire`, `CapTouch`, `Uart` | an image (or two) and the device of its testbench | `Main`, `Body`; `Device` |
| `Ws2812`, `Ir`, `Stepper`, `Periodic` | images that make waveforms, and `ir_rx`, `ir_learn` that capture them | the same; an observer of a pad |
| `Wakes` | `wake_test`, `bldc6`, `irq_aggregate`, `dc_tacho` | the same; pads that change in a window of times |
| `Examples` | all of these, one image at a time | `Clock`, `Finished` |
| `MCMemmux` | instance of `MemmuxHistory` for TLC (symmetry of the words) | |
| `Memmux_proofs` | theorems about `MemmuxHistory` | |
| `Wdt_proofs`, `WdtReport_proofs` | theorems about `WdtTest` | |
| `Freq_proofs`, `Qenc_proofs`, `Spi_proofs` | theorems about `FreqCounter`, `Qenc` and `SpiMaster` | |
| `Rpc_proofs`, `Examples_proofs` | theorems about `Rpc` and `Examples` | |

A firmware model has one value of `ipc` for each access of a register or a
mailbox word, in the order of the C code; what the code computes between two
accesses happens at the end of the first of them. Stores that nothing in the
model reads are kept where their time matters and left out elsewhere; each
module says which.

`Iop` is the other way to model firmware, for images that are long and run in
a straight line. A program is a sequence of items (`Load`, `Store`, `Publish`
for a mailbox word, `Let` for a C variable, `Call`, `Spin`); a call is replaced
by the items of its body when it comes up, so that the body may depend on the
value last loaded, and a loop is a call of itself. An item takes its accesses
and then `pace` cycles of computation. An interrupt is taken between two items,
lasts as long as the save and restore of `crt0.S`, and puts `__isr` in front of
the program. `wfi` returns at once, as RISC-V allows; a main program that has
come to its last loop has nothing `todo`. `pace` stands for the instructions
the compiler puts between two accesses; each module names in `Paces` the values
it is run with. Sizes are cut at the places marked "Bound".

What is assumed of the parts whose source is not here:

* AttoRV32: the bus behaviour in `AttoBus`, after the comments of
  `attoio_memmux.v` and the testbenches. It takes an interrupt between two
  instructions; its NMI handler is not entered again before it returns, as
  `tb_wdt.v` expects.
* The clock divider: clk_iop is every N-th edge of sysclk. The specification
  document says N is 2, 4 or 8 as a rule; the testbenches use 4 and 2.
* The knob and the button of `qenc` move at any edge, but the knob makes no second
  step before the first has been counted, the button no second press. So after a
  step whose edge was swallowed the knob of the model stays where it is. In the
  code a next step in the same direction finds prev_ab two steps behind, `q_lut`
  has 0 for that, and both steps are lost.
* An SPI slave answers an edge of SCK within a cycle of clk_iop.

## 3. The runs

| Run | Instance | States | Shows |
|---|---|---|---|
| `memmux` | N = 2, 1 word in A, 2 in B, 2 values | 583 k | `CoreReadAtomic`, `FirmwareReadStable`, `StallBound`, `StoreWrittenOnce`, and that `AtomicMemory` is implemented, for any host, any core and a reset bit that changes at any time |
| `memmux_unmapped` | same, host also at unmapped addresses | | finding: such an access is never answered |
| `rpc` | N = 2, 2 calls, 1 reload, poll limit | 37 k | answers stay with their calls, requests are carried out once, none is ignored, every call returns, every ring is acknowledged, and `RemoteCall` is implemented (`CallsKept`) |
| `rpc_timeout` | same | | finding: after a call has given up the next takes its answer |
| `rpc_n4` | N = 4, no limit | | finding: at N = 4 a host's clear of C2H can be undone by the store it answers |
| `qenc` | N = 2, two channels and a button | 36 k | the handler counts only what has happened, once and in its direction; a step or press is missed only if its edge falls between its reading and the end of the clear; every other step is counted in the end |
| `wdt` | N = 2, reload 20, one reboot | 7 k | the watchdog expires on time, the handler runs once and its report is complete, a hang is caught |
| `freq` | N = 1, gate 27, one channel | 314 k | each captured edge is counted once, before the tick that ends its window, and a window is off by one edge at most |
| `spi` | N = 1, 3 bits, 2 bytes, CPHA = 0, both polarities, one reset | 156 k | both sides receive the byte the other has sent and stay in step, also after a reset of the core at any edge |
| `spi_cpha` | same, CPHA = 1 | | finding: the received byte is shifted by one bit |
| `firmware` | N = 1, 24 images | 175 k | `CleanBus`, `DeviceServed` (buses and displays), `DelayKept`, `LevelsPlayed`, `EdgesOnTime` (waveforms), `EventsCounted`, `GatesApart`, and that every image ends |
| `ir_learn` | same, one image, timestamps of 9 bits | | finding: an interval over a wrap of the timestamp is replayed at the wrong time |

A run of a finding stops at a counterexample to what a comment or a document
of the repository says; `PROJECT.json` quotes the line.

The bounds, and why they are enough:

* *N.* N = 2 is the smallest ratio at which the clocks differ and the one at
  which most statements hold; N = 4 is the testbenches'. Modules that live on
  clk_iop alone (timer, SPI) are checked at N = 1, where a sysclk edge is a
  clk_iop edge and nothing else changes.
* *Words and values.* The multiplexer moves words and never looks into them:
  two words and two values separate any access from any other.
* *Calls, reloads.* Two calls let the answer of one meet the other; one reload
  is placed before, between or after them, at any edge.
* *Gate and Rest, Reload.* The real gate is 50000 cycles, the real reload 2000,
  the handlers some tens. With a period no longer than the handler a tick or an
  expiry is lost, rightly; so the firmware is slow only at the start of a gate,
  and main() only while no NMI waits. Section 5 has the
  exact bounds: a reload of 15, a gate of Rest + 23, the handlers' lengths.
* *Counter widths.* `CountMod` is above the largest value used, as 2^24 and
  2^16 are in the firmware.
* *Paces.* The device's times are those of the testbench, in cycles of 40 ns
  where it has nanoseconds. A pace is chosen inside the range in which the image
  works, as the repository's own timing allows it; the range is a result too.
  `onewire` works at a pace of 6 and 7 only, `ws2812` at 3 and 4: a slower
  compiler breaks a slot or a pulse. `uart_echo` fails at 5 with bits of 217
  cycles, since the echo of one byte then covers the start bit of the next.
* *Times outside.* An edge at a pad of `wake_test`, `irq_aggregate` or `dc_tacho`
  may come at any third cycle of a window that covers the handler of the event
  before it: before, inside and after it.
* *Scaled images.* `ir_tx` sends three bits, `ir_rx` frames of four, `ws2812` two
  bytes of nine, `onewire` reads two bytes of nine, `pwm_dac` half the period and
  four samples, and so on: a loop is run often enough to have a first, an inner
  and a last turn. `CountMod` is 4096 in `firmware`: the counter of `ir_rx` wraps,
  no delay does unless its match is missed. `CapMod` is 2^16 there and never
  reached; 512 in `ir_learn`, where the recording passes it as a longer one
  passes 2^16.
* *Bits.* A byte of 3 bits has a first, an inner and a last bit. A transfer that
  a reset leaves under way ends after 6 cycles, before main() selects the slave:
  after 8 cycles in the model, where `Startup`, the time of `crt0.S`, is 0. With 4
  bits, 8 cycles, the run passes as well (1.5 million states); section 5 has the
  bound for any width.

## 4. Fairness

Clocks do not stop: weak fairness of the clock edge, everywhere. It is all that
`HostCompletes`, `HangCaught` and `Ends` use. The call of `rpc` needs in addition that
neither program rests for ever between two accesses of a call (`HostGoesOn`,
weak, since a host that can begin a transfer goes on being able to;
`IopGoesOn`, strong, since the core can move at clk_iop edges only). `qenc` assumes
the same of its firmware. Nothing is assumed of the arbiter, of pads or of the
core's waiting for the mailbox. A hang of main() is part of `wdt`: no fairness
is assumed of it, the NMI alone ends it.

## 5. Theorems

Proved with TLAPS for every value of the constants that meets the assumptions
the modules name (`RatioAssumption`, `ContentAssumption`, `RegionAssumption`,
`WdtAssumption`, `ChannelAssumption`, `FreqAssumption`, `QencAssumption`,
`MasterAssumption`, `RpcAssumption`, `IopAssumption`) and the bound each theorem
states. A bound stands where the property is false beyond
it, and is as wide as the property is true:

| Theorem | Property | For |
|---|---|---|
| `TypeCorrect` | `TypeOK` | all constants |
| `ReadAtomicity` | `CoreReadAtomic` | N >= 2 |
| `FetchStability` | `FirmwareReadStable` | N in 1..5 |
| `BoundedStall` | `StallBound` | N = 2 |
| `StoresWrittenOnce` | `StoreWrittenOnce` | N = 2 |
| `MailboxIsAtomic` | `AtomicMailbox` (refinement) | N = 2 |
| `WdtTypeCorrect` | `TestTypeOK` | all constants |
| `ExpiryOnTime`, `ExpiryNeverLate` | `ExpiresOnTime`, `NeverLate` | all constants |
| `ReportedOnce`, `ReportIsComplete` | `ReportsOnce`, `ReportComplete` | Reload >= 15 |
| `EdgesCountedOnce` | `CountedOnce` | all constants |
| `MeasuredBeforeTick`, `MeasuredWithinOne`, `FreqTypes` | `EdgesBeforeTick`, `WithinOne`, `FreqTypeOK` | Gate >= Rest + 23 |
| `QencTypes` | `QencTypeOK` | every N |
| `CountedOnlyOnce` | `NothingCountedTwice` (action property) | every N |
| `AllCounted` | `NothingLeftBehind` | every N |
| `SpiTypes`, `SpiReceives`, `SpiSends` | `SpiTypeOK`, `ByteReceived`, `ByteSent` | CPHA = 0; 2 * Bits <= Startup + 8 if the core is reset |
| `RpcTypes` | `RpcTypeOK` | all constants |
| `AnswersInStep`, `RequestsOnce`, `RequestsSeen` | `AnswerInStep`, `ServedOnce`, `NoRequestIgnored` | N = 2, 3 |
| `RpcIsRemoteCall` | `CallsKept` (refinement) | N = 2, 3 |
| `GatesNeverTogether` | `GatesApart` | all constants; the motor and the pace of `bldc6` |
| `DelaysKept` | `DelayKept` | the images `tm1637`, `ht1621`, `hd44780`, `onewire` with their devices and paces; channel 0 in use |

`Memmux_proofs`:

* `TypeCorrect`: one lemma for each register.
* `ReadAtomicity`: the property alone is not inductive, as it speaks of the last
  edge of a load. `LoadOnItsWay` says where the word is before that: in Do0 while
  `grantQ` is up (phase 0), in the latch after it. The host can replace Do0 only
  at the edge at which the latch takes it. At N = 1 the invariant would be false,
  since the core's edge comes before the capture.
* `FetchStability`: to write SRAM A under a load the host must set the reset,
  write, and clear the reset again, all within one cycle of clk_iop: three
  transfers of two edges. Up to N = 5 there is no room for them; from N = 6
  there is, and TLC shows it (section 8).
* `BoundedStall`: `AfterRefusal` relates the number of refusals so far to the
  host's position: a refusal at the first ACCESS edge is followed by SETUP at
  the next clk_iop edge.
* `StoresWrittenOnce`, `MailboxIsAtomic`: a store is driven for two edges and the
  port writes at each edge it is granted. `StoreInv` says that SRAM B is the
  abstract memory or that memory with the store under way in it. They differ
  only between the edge on which the store was first written and the one on
  which its cycle ends, and one transfer of the host fits in between
  (`BetweenFreeEdges`). The refinement takes the moves of host, core and memory
  at an edge one by one: the host's access takes effect on its first ACCESS
  edge, the core's when it is accepted or, for a store, when the host sees it.

`Wdt_proofs`, `WdtReport_proofs`:

* `WdtInv` has three parts. `ProgramOK`: the access under way is the one of the
  firmware's present line, and the handler returns to a line after the arming.
  `CountOK`: from the first pet on, count plus edges since the last pet is the
  reload value. `RegistersOK`: types. The proof goes over what the firmware does
  at an edge (nothing, NMI, return, an access) and which register, if any, the
  access stores to.
* `ReportInv` adds how far the handler has come for each number of edges since
  it was entered (`PromptOK`), what it found (`EntryOK`) and what it has left
  in the mailbox and on the alert (`MailOK`, `AlertOK`). The handler disables the
  watchdog before it can expire again: with a reload of 14 it does not.

`Freq_proofs`:

* `FlagInv`: the timer runs with one channel enabled, at the end of the gate; the
  handler acknowledges the flags it read and no others; the capture flag is up
  or its log is being written if and only if one edge is not counted.
* `GateInv` adds that the handler is through its lines within a number of counts
  that depends on the line (`PromptOK`), and what the four counters of edges are
  to each other at each line (`CountsOK`). The difference a gate inherits is 0
  or 1 and is given to the next one, so nothing adds up. With a gate of
  Rest + 22 `WithinOne` is false.

`Qenc_proofs`, with one invariant for its three theorems, `QencInv`:

* `PressOK` is a conservation law: a press that is not counted is in exactly one
  of five places, the two flops of the synchroniser, the edge detector, the
  flags that wait for an interrupt, or the swallowed ones. Which flags wait
  depends on the handler: `Waiting` leaves out those being cleared and those
  reported that the handler will clear without having looked again.
* `KnobOK`: prev_ab is lag steps behind the knob, and each flop shows the level
  before or after the last step, in order. So `Direction` adds the lag or 0.
  `StepOK`: a step not counted is on its way, or its flag waits, or GPIO_IN is
  about to be read, or it was swallowed.
* `CountedOnlyOnce` is about steps of the system, not about states: that lag stays in
  -1..1 would leave room for a step counted twice (1, 0, -1) and for a count
  without a step. While the pads are still, lag and pressLag may only go to 0. For
  the knob this is `KnobOK` with what q_lut gives (`InputCounts`), for the button that
  `PressOK` holds before and after (`ClockCounts`).

`Spi_proofs`, with one invariant for its three theorems, `MasterInv`, for any
number of bits, bytes and resets, any N and both polarities:

* `EngineOK` is the helper at work: SCK follows the parity of bitCnt, and before
  and after a transfer it has the level GPIO_OUT gives the pad. So a step is
  nothing to the slave, or the next edge of its clock (`SlaveQuiet`,
  `SlaveClocked`), and `CountOK` says how far it has come: done bytes and half
  of bitCnt.
* `SentOK` and `ReceivedOK` say where each bit is. Bit k is sampled at the edge
  after cycle 2k; on its way back it is in the first flop one cycle later, in the
  second with its capture scheduled after two, in rxShift after three, the last
  bit when busy has fallen.
* `LeftOK` is about resets, which do not reach the helper: a transfer that was
  under way is further on than main() is since then. main() selects the slave
  eight cycles after `crt0.S` is done at the earliest, so a transfer of 2 * Bits
  cycles must end within Startup + 8. With Bits = 8 that asks of `crt0.S` eight
  cycles: its jump, three loads of an address, comparison and call are six
  instructions, whose fetches take two cycles each. The bound is exact: with 5
  bits and a Startup of 1 TLC finds a slave that is clocked by the old transfer.

`Freq_proofs` has one more theorem, `FreqTypes`, whose invariant bounds the edges of a
gate by its length. It is a rate argument: an edge passes the synchroniser's
two flops and raises a flag that the handler has to see and clear before the
next one is counted, so at most one edge in four cycles is (`RateOK`). What was
counted before main() opens the first window is bounded with the rest.

`Rpc_proofs`, with one invariant for four theorems (TLC checks it at N = 2 and 3):

* `HostReads`: when the host takes a status or a reply, Do0 of SRAM B is that word.
  `Loading` says the same of the core's load, which is in Do0 for one edge and in
  the latch from then on.
* `CallInv` says who owns the call. Outside `wait` and `clear` all is quiet
  (`Quiet`): both doorbells are down and the dispatcher polls. While the host
  waits, `Service` says for each line of the dispatcher what is in the mailbox,
  which doorbell is up and what the core has read. While the host clears C2H the
  dispatcher is back at its loop or ends the store that raised it (`Clearing`).
* At N = 1 the invariant fails: a load ends before its word is latched. At N = 4 it
  fails and `AnswerInStep` with it: the store of C2H is driven for N edges and sets
  the bit at each, so that its last edge undoes the host's clear (run `rpc_n4`;
  with N = 8 in its place TLC finds the same). At N = 3 the host is one edge short
  of that.
* `RpcIsRemoteCall` maps the two program counters to a stage (rest, asked, carried, lost)
  and a result. A call that gives up ends what is promised: from then on the
  abstract call may do anything, as `rpc_timeout` shows the program does.

`Examples_proofs`, about programs that are data: an invariant describes the front of
what is left of the program, item by item, and says of everything behind it
only what it leaves alone.

* `GatesNeverTogether` (`bldc6`). `GatesInv`: an item is calm if it turns no gate on,
  gives the timer no pad and keeps the index of the commutation in 0..5. The
  program is calm throughout, but for the handler, where the store that turns the gates
  on follows the one that turns all of them off, interrupts being masked
  between the two, and for the start, where main() sets the index before it
  unmasks interrupts. The theorem is about `Spec`, in which the
  sensors' edges come at the times of the image and the pace is fixed. The invariant
  and the lemma about a step (`GatesStep`) mention neither: they would serve as they
  stand for any motor and any pace.
* `DelaysKept` (`tm1637`, `ht1621`, `hd44780`, `onewire`). `DelayInv` splits a delay
  into eight stages, each with the latest count at which it can be reached; between
  two delays items are `Plain`: they touch neither timer nor interrupts. The one
  race is between the counter, which runs as soon as TIMER_CTL is stored, and
  the store after it that clears the flag of the delay before: `Unmissed` says
  that with the flag down the match is still ahead. That needs n >= pace + 3 for
  the shortest delay n, which the proof finds true of the four images at the paces
  they are run with: 25, 32, 16 and 12 cycles at paces of 5, 5, 8 and 6. The
  comment of `sw/ht1621/main.c:54-58` that calls 16 cycles the floor is on the safe
  side up to a pace of 13. The theorem has the devices and the paces of `Spec`; the
  invariant mentions no device, and of a pace it asks that inequality only. The other images
  never set the variable the property is about.

Model-checked only:

* `CleanBus`, `DeviceServed`, `LevelsPlayed`, `EdgesOnTime`, `EventsCounted` of
  `Examples`. What they say is a result of the images' data: the bytes sent, the
  paces and the times at which things happen outside. There is no constant to
  be general in; a proof would walk through each program as TLC does.
* `SpiMaster` with CPHA = 1, where `ByteReceived` is false (run `spi_cpha`).
* Liveness (`HostCompletes`, `StepCounted`, `HangCaught`, `Ends`, `CallReturns`,
  `RingAcknowledged`): fairness and ENABLED are out of the prover's reach.

## 6. Plan

Next modules, in this order:

1. PINMUX and the pad multiplexer of `attoio_macro.v`, with the host's bundles, in
   front of the pads of `SpiMaster`: a pad that changes hands while its bus is at
   rest makes no edge.
2. The host's NMI (`Ctrl.Nmi` with `attoio_pulse_nmi`): at N > 2 the core's
   clock can miss the pulse, and the call releases a held reset.
3. The CF_SRAM variant of the multiplexer against the same `AtomicMemory`.

Theorems to come with them: that a pad which changes hands at rest makes no edge,
and that the CF_SRAM variant implements `AtomicMemory` at the same ratios.

## 7. Not modelled

* Byte lanes: a word is one value. The lanes share all control; sub-word stores
  differ in the write mask only.
* The typed wrappers of `libattoio.c`, which call `attoio_rpc` with other
  numbers, and VERSION.
* Images that test the core's pipeline or nothing: `core_hazard`,
  `core_hazard_isr`, `empty`; and `irq_doorbell`, whose handshake is the one of
  `Rpc` without its sentinel. `sw/common/mailbox.c` and `timing.c`: no image calls
  them.
* What the C compiler makes of an image: see `pace`.
* The trap entry of `crt0.S` saves ra, t0-t2 and a0-a3. Whether a handler uses
  a4 or a5 depends on the compiler, which is not in the repository.
* Synthesis, layout, build files and testbenches.

## 8. Remarks without a run

Met while modelling, outside the findings:

* `attoio_gpio.v:150-151`: a clear of WAKE_FLAGS is held in `wake_clear_mask` for
  a clk_iop cycle and applied on each of its N sysclk edges, so that at N > 1 a
  flag set after the first of them is cleared too. `docs/spec.md:384` promises a
  flag that stays until it is cleared. `qenc` counts on it and tolerates the loss:
  `NothingLeftBehind` states what is left of the promise.
* `attoio_memmux.v:131`: at N = 4 a host that polls `mbox[0]`, as
  `attoio_rpc.h:26` offers, in step with clk_iop holds the mailbox at each of its
  edges and keeps the core's store out for ever; `docs/known_bugs.md:44-46` says
  that writes always commit eventually. `StallBound` holds at N = 2.
* `attoio_macro.v:204`: IOP_CTRL.reset acts on sysclk and the core samples it on
  clk_iop. From N = 6 on a host can set the reset, write SRAM A and clear the reset
  within one cycle of clk_iop, so that a core that never notices fetches a word
  that was replaced under its load: `FirmwareReadStable` holds up to N = 5
  and fails at N = 6, in the model where the core's reset may act at its next
  clock edge only. The documents ask for N = 2, 4 or 8.
* `attoio_wdt.v:22-23` calls the expired flag sticky through a reset; the code
  clears it, as `docs/spec.md` section 10B.3 says.
* `attoio_timer.v:232-238`: the store to TIMER_STATUS comes after the events in the
  register's process, so an edge or a match in the very cycle of a W1C of its flag is
  dropped. `CountedOnce` and `WithinOne` speak of edges that raise the flag and leave
  such an edge out.
* `sw/spi_master/main.c:42-43` says the helper forces the output enable;
  `attoio_gpio.v` overrides levels only. The firmware sets the enables itself.
* `sw/ir_learn/main.c:23-25` lists mailbox words 1, 3 and 4 that the code never
  writes. Line 89 tests `capture_done` and then sleeps: an interrupt between the
  two is the last one, and whether `wfi` then returns is up to the core.
* `sw/ht1621/main.c:54-58` calls 16 cycles the floor of `delay_cycles()`, which
  starts the counter before it clears the flag; `sw/onewire/main.c` has the same
  function and delays of 12 and 15.
* `sw/ws2812/main.c`: the first pulse is longer than the others by the stores
  that precede the start of the counter, and the last reload raises the pad once more
  before the timer is switched off: a 73rd pulse.
* `sw/bldc6` and `sw/wake_test` count handlers, not edges: two edges that one
  handler serves are one. Their runs leave time between edges of `bldc6`.
