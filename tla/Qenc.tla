-------------------------------- MODULE Qenc --------------------------------
(***************************************************************************)
(* Interrupt-driven inputs: the quadrature encoder with push-button of     *)
(* sw/qenc/main.c over the wake system.  Main arms the three pads and      *)
(* sleeps; __isr() reads WAKE_FLAGS, for a channel reads GPIO_IN and       *)
(* counts the step, counts a press, and clears the flags it read.  Its     *)
(* stores to the mailbox take time and nothing else.                       *)
(*                                                                         *)
(* The knob and the button move at any edge once the pads are armed, but   *)
(* the knob makes no second step before the first has been counted, the    *)
(* button no second press.  So they stay still for good after a step or a  *)
(* press whose edge was swallowed: what the code makes of the next one is  *)
(* not modelled.  lag and pressLag are what has happened and has not been  *)
(* counted.                                                                *)
(***************************************************************************)
EXTENDS Wake, Integers
ASSUME QencAssumption == Pins = {"A", "B", "BTN"}

VARIABLES ipc,        \* the firmware's next access
          reported,   \* flags of the present interrupt
          prevAB,     \* prev_ab
          angle,      \* the knob, in quarter periods
          lag,        \* steps clockwise not in position
          pressLag,   \* presses not in btn_count
          swallowed   \* pads whose edge was cleared with an earlier one
qencVars == <<phase, apb, core, pad, wakeRegisters, ipc, reported, prevAB,
              angle, lag, pressLag, swallowed>>

AB == {"A", "B"}
\* Clockwise, A leads: 00, 01, 11, 10 of (B << 1) | A.
Levels(a) == CASE a = 0 -> {} [] a = 1 -> {"A"} [] a = 2 -> AB [] a = 3 -> {"B"}
AngleOf(levels) == CHOOSE a \in 0..3 : Levels(a) = levels
\* Mutant: the entry of q_lut for 00 -> 10 has the wrong sign.
Direction_Entry(from, to) ==
    LET turn == (AngleOf(to) - AngleOf(from) + 4) % 4
    IN CASE turn = 1 \/ (turn = 3 /\ from = {}) -> 1
         [] turn = 3 /\ from # {} -> -1 [] OTHER -> 0
\* q_lut: one step either way, 0 for none and for two at once.
Direction(from, to) == LET turn == (AngleOf(to) - AngleOf(from) + 4) % 4
                       IN CASE turn = 1 -> 1 [] turn = 3 -> -1 [] OTHER -> 0

Armed == [p \in Pins |-> IF p = "BTN" THEN "fall" ELSE "both"]
SetMode(p) == [sel |-> "WAKE_EDGE", wr |-> TRUE, v |-> [mode EXCEPT ![p] = Armed[p]]]
Enable(p) == [sel |-> "WAKE_MASK", wr |-> TRUE, v |-> mask \cup {p}]
Load(reg) == [sel |-> reg, wr |-> FALSE]
\* Mutant: only the channels' flags are cleared.
ClearFlags_AB(set) == [sel |-> "WAKE_FLAGS", wr |-> TRUE, v |-> set \cap AB]
ClearFlags(set) == [sel |-> "WAKE_FLAGS", wr |-> TRUE, v |-> set]
-----------------------------------------------------------------------------
(* The firmware. *)
Boot == <<"edgeA", "edgeB", "edgeBTN", "maskA", "maskB", "maskBTN", "main">>
IopOp(pc) ==
    CASE pc = "edgeA" -> {SetMode("A")} [] pc = "maskA" -> {Enable("A")}
      [] pc = "edgeB" -> {SetMode("B")} [] pc = "maskB" -> {Enable("B")}
      [] pc = "edgeBTN" -> {SetMode("BTN")} [] pc = "maskBTN" -> {Enable("BTN")}
      [] pc = "flags" -> {Load("WAKE_FLAGS")}
      [] pc = "in" -> {Load("GPIO_IN")}
      [] pc = "clear" -> {ClearFlags(reported)}
      [] pc = "main" -> {}

CoreDone == ClkIop /\ (core.st = "wait" \/ (core.st = "req" /\ core.op.wr))

TakeInterrupt == /\ ClkIop /\ core.st = "idle" /\ ipc = "main" /\ WakeLatch
                 /\ ipc' = "flags" /\ UNCHANGED <<reported, prevAB, lag, pressLag>>
Configured == /\ CoreDone /\ \E i \in 1..6 : ipc = Boot[i] /\ ipc' = Boot[i + 1]
              /\ UNCHANGED <<reported, prevAB, lag, pressLag>>
FlagsRead == /\ CoreDone /\ ipc = "flags"
             /\ reported' = WakeRead("WAKE_FLAGS")
             /\ ipc' = IF reported' \cap AB # {} THEN "in" ELSE "clear"
             /\ pressLag' = IF "BTN" \in reported' THEN pressLag - 1 ELSE pressLag
             /\ UNCHANGED <<prevAB, lag>>
\* Mutant: prev_ab is stored with the button's bit.
InputRead_Unmasked ==
    /\ CoreDone /\ ipc = "in"
    /\ LET in == WakeRead("GPIO_IN")
       IN prevAB' = in /\ lag' = lag - Direction(prevAB \cap AB, in \cap AB)
    /\ ipc' = "clear" /\ UNCHANGED <<reported, pressLag>>
InputRead ==
    /\ CoreDone /\ ipc = "in"
    /\ LET curr == WakeRead("GPIO_IN") \cap AB
       IN prevAB' = curr /\ lag' = lag - Direction(prevAB, curr)
    /\ ipc' = "clear" /\ UNCHANGED <<reported, pressLag>>
FlagsCleared == /\ CoreDone /\ ipc = "clear" /\ ipc' = "main" /\ reported' = {}
                /\ UNCHANGED <<prevAB, lag, pressLag>>
Firmware == TakeInterrupt \/ Configured \/ FlagsRead \/ InputRead \/ FlagsCleared
-----------------------------------------------------------------------------
(* The knob and the button, between two edges of sysclk: a level lasts until  *)
(* one edge has sampled it.                                                   *)
Sampled(pads) == pad \cap pads = sync1 \cap pads
Turn == /\ mask = Pins /\ lag = 0 /\ Sampled(AB)
        /\ \E d \in {-1, 1} : angle' = (angle + d + 4) % 4 /\ lag' = d
        /\ pad' = Levels(angle') \cup (pad \cap {"BTN"})
        /\ UNCHANGED pressLag
Press == /\ mask = Pins /\ pressLag = 0 /\ "BTN" \in pad /\ Sampled({"BTN"})
         /\ pad' = pad \ {"BTN"} /\ pressLag' = 1 /\ UNCHANGED <<angle, lag>>
Release == /\ "BTN" \notin pad /\ Sampled({"BTN"}) /\ pad' = pad \cup {"BTN"}
           /\ UNCHANGED <<angle, lag, pressLag>>
Move == /\ Turn \/ Press \/ Release
        /\ UNCHANGED <<phase, apb, core, wakeRegisters, ipc, reported, prevAB,
                       swallowed>>
-----------------------------------------------------------------------------
(* An edge of a pad whose flag is about to be cleared for an earlier edge, too *)
(* late for this interrupt to see it: a press is seen with the flags, a step  *)
(* with GPIO_IN.                                                              *)
SeenLate == CASE ipc = "in" -> {"BTN"} [] ipc = "clear" -> Pins [] OTHER -> {}
Doomed == clear' \cup (reported \cap SeenLate)
History ==
    swallowed' = (IF CoreDone /\ ipc = "in" THEN swallowed \ AB ELSE swallowed)
                 \cup (WakeEvents \cap Doomed)

QencInit ==
    /\ BusInit /\ WakeReset
    /\ angle = 0 /\ pad = {"BTN"} /\ prevAB = {}
    /\ ipc = Boot[1] /\ reported = {} /\ lag = 0 /\ pressLag = 0
    /\ swallowed = {}

Clock ==
    /\ WakeStep /\ ClockStep
    /\ CoreStep(IF core.st = "idle" THEN IopOp(ipc) ELSE {}, FALSE, FALSE)
    /\ \/ Firmware
       \/ ~CoreDone /\ UNCHANGED <<ipc, reported, prevAB, lag, pressLag>>
    /\ History
    /\ UNCHANGED <<apb, pad, angle>>

QencNext == Clock \/ Move

\* The clock runs, and the firmware does not rest for ever between accesses.
FirmwareGoesOn == Clock /\ (core' # core \/ ipc' # ipc)
QencSpec == /\ QencInit /\ [][QencNext]_qencVars
            /\ WF_qencVars(Clock) /\ SF_qencVars(FirmwareGoesOn)
-----------------------------------------------------------------------------
QencTypeOK ==
    /\ phase \in 0..(N - 1) /\ apb = Idle
    /\ core = Idle \/ core.st \in {"req", "wait"}
    /\ pad \subseteq Pins /\ sync1 \subseteq Pins /\ sync2 \subseteq Pins
    /\ prev \subseteq Pins /\ flags \subseteq Pins /\ mask \subseteq Pins
    /\ mode \in [Pins -> Modes] /\ clear \subseteq Pins
    /\ reported \subseteq Pins /\ prevAB \subseteq AB /\ angle \in 0..3
    /\ swallowed \subseteq Pins

\* The handler counts only what has happened, once and in its direction,
\* whichever flags it finds and however an edge of another pad follows the first:
\* while the pads are still, a step or a press that is not counted yet becomes
\* counted or stays as it is, and with none to count position and btn_count stay.
CountsWhatHappened ==
    UNCHANGED pad => lag' \in {lag, 0} /\ pressLag' \in {pressLag, 0}
NothingCountedTwice == [][CountsWhatHappened]_qencVars

Settled == sync1 = pad /\ sync2 = pad /\ prev = pad
AtRest == ipc = "main" /\ core = Idle /\ ~WakeLatch /\ clear = {}

\* When the firmware sleeps with no interrupt pending it has counted every step
\* and every press, but for an edge of the same pad that came while the ISR was
\* between its GPIO_IN and the end of its clear.
NothingLeftBehind ==
    (AtRest /\ Settled) => /\ lag # 0 => swallowed \cap AB # {}
                           /\ pressLag # 0 => "BTN" \in swallowed

\* A step is counted in the end, however the interrupts of the three pads fall
\* together, unless it was swallowed.
StepCounted == (lag # 0) ~> (lag = 0 \/ swallowed \cap AB # {})
=============================================================================
