----------------------------- MODULE FreqCounter ----------------------------
(***************************************************************************)
(* Counting edges in a gate window with the capture and the periodic match *)
(* of the timer: sw/freq_counter/main.c, whose handler dc_tacho shares.    *)
(* The pad changes at any time, each level for one edge of clk_iop at      *)
(* least, so edges may come faster than the handler counts them.           *)
(***************************************************************************)
EXTENDS Timer, Integers
CONSTANTS Gate,  \* GATE_CYCLES
          Rest   \* the firmware is slow in the first Rest counts of a gate only,
                 \* which stands for a gate much longer than the handler
ASSUME FreqAssumption ==
    /\ Pins = {"CAP"} /\ 0 \in Channels
    /\ Gate \in 1..CountMod /\ Rest \in Nat

VARIABLES ipc,       \* the firmware's next access
          seen,      \* status of the present interrupt
          resume,    \* where main() goes on
          edgeCount, \* edge_count
          lag,       \* edges that raised the capture flag and are not counted
          inGate,    \* edges that raised it since the last gate tick
          due,       \* inGate at that tick
          older      \* lag at that tick, until it is counted
freqVars == <<phase, apb, core, pad, syncVars, timerVars, ipc, seen, resume, edgeCount,
              lag, inGate, due, older>>

Load(reg) == [sel |-> reg, wr |-> FALSE]
Store(reg, v) == [sel |-> reg, wr |-> TRUE, v |-> v]
GateChannel == [sel |-> "TIMER_CMP", wr |-> TRUE, i |-> 0,
                v |-> [CmpOff EXCEPT !.val = Gate - 1, !.en = TRUE, !.irq = TRUE]]
Start == Store("TIMER_CTL", [reset |-> TRUE,
                             ctl |-> [en |-> TRUE, auto |-> TRUE, pad |-> "CAP",
                                      edge |-> "rise", irq |-> TRUE]])
\* Mutants: an acknowledgement that clears nothing.
AckCapture_None == Store("TIMER_STATUS", {})
AckCapture == Store("TIMER_STATUS", {CAPTURED})
AckGate_None == Store("TIMER_STATUS", {})
AckGate == Store("TIMER_STATUS", {0})

\* The window's index and main()'s stores before and after the timer is armed,
\* which nothing here depends on, are left out.
IopOp(pc) ==
    CASE pc = "gate" -> {GateChannel} [] pc = "start" -> {Start}
      [] pc = "clear" -> {Store("TIMER_STATUS", {0, CAPTURED})}
      [] pc = "status" -> {Load("TIMER_STATUS")}
      [] pc = "stamp" -> {Load("TIMER_CAP")}
      [] pc = "log" -> {Store("B", 0)}
      [] pc = "ackCapture" -> {AckCapture}
      [] pc = "publish" -> {Store("B", edgeCount)}
      [] pc = "ackGate" -> {AckGate}
      [] pc = "main" -> {}

CoreDone == ClkIop /\ (core.st = "wait" \/ (core.st = "req" /\ core.op.wr))

TakeInterrupt == /\ ClkIop /\ core.st = "idle" /\ ipc \in {"start", "clear", "main"}
                 /\ TimerIrq /\ core' = Idle
                 /\ resume' = ipc /\ ipc' = "status" /\ UNCHANGED <<seen, edgeCount>>
\* What __isr() and main() do next.  Mutant: the gate first.
Handle_GateFirst(bits) == IF 0 \in bits THEN "publish"
                          ELSE IF CAPTURED \in bits THEN "stamp" ELSE resume
Handle(bits) == IF CAPTURED \in bits THEN "stamp"
                ELSE IF 0 \in bits THEN "publish" ELSE resume
After(pc) == CASE pc = "gate" -> "start" [] pc = "start" -> "clear"
               [] pc = "clear" -> "main" [] pc = "status" -> Handle(status)
               [] pc = "stamp" -> "log" [] pc = "log" -> "ackCapture"
               [] pc = "ackCapture" -> Handle(seen \ {CAPTURED})
               [] pc = "publish" -> "ackGate" [] pc = "ackGate" -> Handle(seen \ {0})
AccessDone ==
    /\ CoreDone
    /\ ipc' = After(ipc)
    /\ seen' = CASE ipc = "status" -> status
                 [] ipc = "ackCapture" -> seen \ {CAPTURED}
                 [] ipc = "ackGate" -> seen \ {0}
                 [] OTHER -> seen
    /\ edgeCount' = CASE ipc = "log" -> edgeCount + 1
                      [] ipc = "publish" -> 0
                      [] OTHER -> edgeCount
    /\ UNCHANGED resume
Firmware == TakeInterrupt \/ AccessDone
MayRest == ipc \in {"gate", "start"} \/ cnt < Rest \/ (ipc = "main" /\ ~TimerIrq)
-----------------------------------------------------------------------------
FreqInit ==
    /\ BusInit /\ TimerReset /\ SyncReset /\ pad = {}
    /\ ipc = "gate" /\ seen = {} /\ resume = "main" /\ edgeCount = 0
    /\ lag = 0 /\ inGate = 0 /\ due = 0 /\ older = 0

\* An edge counts if the flag was down and is not being cleared: the flag is one
\* bit.  main() clears whatever came before it had finished.
Raised == IF CapEvent /\ CAPTURED \notin status \cup Cleared THEN 1 ELSE 0
Counted == IF CoreDone /\ ipc = "log" THEN 1 ELSE 0
Opened == CoreDone /\ ipc = "clear"
Tick == 0 \in Matches
History ==
    IF Opened THEN lag' = 0 /\ inGate' = edgeCount /\ due' = 0 /\ older' = 0
    ELSE /\ lag' = lag + Raised - Counted
         /\ inGate' = IF Tick THEN 0 ELSE inGate + Raised
         /\ due' = IF Tick THEN inGate + Raised ELSE due
         /\ older' = IF Tick THEN lag' ELSE IF Counted = 1 THEN 0 ELSE older

Clock ==
    /\ ClockStep /\ TimerStep
    /\ IF ClkIop THEN Synchronise ELSE UNCHANGED syncVars
    /\ CoreStep(IF core.st = "idle" THEN IopOp(ipc) ELSE {}, FALSE, FALSE)
    /\ \/ Firmware
       \/ /\ ~CoreDone /\ (~ClkIop \/ core'.st # "idle" \/ MayRest)
          /\ UNCHANGED <<ipc, seen, resume, edgeCount>>
    /\ IF ClkIop THEN History ELSE UNCHANGED <<lag, inGate, due, older>>
    /\ UNCHANGED <<apb, pad>>

Move == /\ ctl.en /\ sync1 = pad /\ pad' = Pins \ pad
        /\ UNCHANGED <<phase, apb, core, syncVars, timerVars, ipc, seen, resume, edgeCount,
                       lag, inGate, due, older>>

FreqNext == Clock \/ Move

FreqSpec == FreqInit /\ [][FreqNext]_freqVars /\ WF_freqVars(Clock)
-----------------------------------------------------------------------------
FreqTypeOK ==
    /\ phase \in 0..(N - 1) /\ cnt \in 0..(Gate - 1)
    /\ status \subseteq Channels \cup {CAPTURED} /\ capVal \in 0..(Gate - 1)
    /\ seen \subseteq Channels \cup {CAPTURED}
    /\ edgeCount \in 0..Gate /\ inGate \in 0..Gate /\ due \in 0..Gate

Publishing == ipc = "publish" /\ CoreDone

\* Every edge that raises the flag is counted exactly once, however the edges
\* fall on the handler's reads and clears.
CountedOnce ==
    /\ lag \in {0, 1}
    /\ (ipc = "main" /\ core = Idle /\ ~TimerIrq) => lag = 0

\* A measurement has every edge from before its gate tick: freq_counter/main.c,
\* "count every edge before the gate tick potentially overwrites it".
EdgesBeforeTick == Publishing => older = 0

\* It is off by one edge at most.
WithinOne == Publishing => edgeCount - due \in -1..1
=============================================================================
