--------------------------------- MODULE Iop --------------------------------
(***************************************************************************)
(* A firmware image running on the core, with the timer, the pads and the  *)
(* wake flags around it; a step is a cycle of clk_iop and the host rests.  *)
(*                                                                         *)
(* What is left of a program is a sequence of items: a load or a store, a  *)
(* call, which its body replaces when it comes up, an assignment to a C    *)
(* variable, a busy wait.  Control between accesses takes pace cycles, so  *)
(* an image is run at the speeds in its Paces.  An interrupt is taken between *)
(* two items: crt0.S saves registers, calls __isr() and returns; registers *)
(* are the last value loaded.  wfi may return at any time, as RISC-V lets  *)
(* it, and does so at once here.                                           *)
(***************************************************************************)
EXTENDS Gpio, Timer, Sequences, FiniteSets, TLC
VARIABLES flags, mask, mode, clear  \* the wake system of attoio_gpio.v
wakeVars == <<flags, mask, mode, clear>>
W == INSTANCE Wake WITH prev <- padPrev
ASSUME IopAssumption == N = 1

VARIABLES todo,   \* what is left of the program
          rest,   \* cycles until the next item
          mie,    \* MSTATUS.MIE
          acc,    \* the last value loaded
          var,    \* the C variables
          mail,   \* mailbox words, and DOORBELL_C2H
          pace,   \* cycles between two items
          dev,    \* the device on the pads, with what it has seen
          image   \* the program
coreVars == <<core, todo, rest, mie, acc, var, mail>>

Load(reg) == [sel |-> reg, wr |-> FALSE]
Store(reg, v) == [sel |-> reg, wr |-> TRUE, v |-> v]
Publish(word, v) == [sel |-> "MAIL", wr |-> TRUE, i |-> word, v |-> v]
Call(f, x) == [call |-> f, arg |-> x]
Let(name, v) == [var |-> name, val |-> v]
Spin(n) == [spin |-> n]
EnableIrq == [mie |-> TRUE]
Mret == [mret |-> acc]

Each(f, xs) == [i \in DOMAIN xs |-> Call(f, xs[i])]
BitOf(b, i) == (b \div 2^i) % 2
LsbFirst(b, n) == [i \in 1..n |-> BitOf(b, i - 1)]
MsbFirst(b, n) == [i \in 1..n |-> BitOf(b, n - i)]
-----------------------------------------------------------------------------
Read(reg) == CASE reg = "TIMER_STATUS" -> status
               [] reg = "TIMER_CAP" -> capVal
               [] reg = "WAKE_EDGE" -> mode
               [] OTHER -> W!WakeRead(reg)

\* iop_irq.
Irq == TimerIrq \/ W!WakeLatch

\* f with v at x, whether it had a value there or not.
Put(f, x, v) == [y \in DOMAIN f \cup {x} |-> IF y = x THEN v ELSE f[y]]

Ready == core = Idle /\ rest = 0
Interrupted == Ready /\ mie /\ Irq
At(kind) == Ready /\ ~Interrupted /\ todo # <<>> /\ kind \in DOMAIN Head(todo)
TrapEntry == 8 + pace

Trap == /\ Interrupted /\ mie' = FALSE /\ rest' = TrapEntry
        /\ todo' = <<Call("__isr", 0), Mret>> \o todo
        /\ UNCHANGED <<core, acc, var>>
Return == /\ At("mret") /\ mie' = TRUE /\ rest' = TrapEntry
          /\ acc' = Head(todo).mret /\ todo' = Tail(todo) /\ UNCHANGED <<core, var>>
Begin == /\ At("sel") /\ CoreStep({Head(todo)}, FALSE, FALSE) /\ core' # Idle
         /\ todo' = Tail(todo) /\ rest' = pace /\ UNCHANGED <<mie, acc, var>>
Finish == /\ core # Idle /\ CoreStep({}, FALSE, FALSE)
          /\ acc' = IF core.st = "wait" THEN Read(core.op.sel) ELSE acc
          /\ UNCHANGED <<todo, rest, mie, var>>
Expand(body) == /\ At("call") /\ todo' = body \o Tail(todo) /\ rest' = pace
                /\ UNCHANGED <<core, mie, acc, var>>
Assign == /\ At("var") /\ var' = Put(var, Head(todo).var, Head(todo).val)
          /\ todo' = Tail(todo) /\ UNCHANGED <<core, rest, mie, acc>>
BusyWait == /\ At("spin") /\ rest' = Head(todo).spin /\ todo' = Tail(todo)
            /\ UNCHANGED <<core, mie, acc, var>>
Unmask == /\ At("mie") /\ mie' = TRUE /\ todo' = Tail(todo)
          /\ UNCHANGED <<core, rest, acc, var>>
Compute == /\ core = Idle /\ rest > 0 /\ rest' = rest - 1
           /\ UNCHANGED <<core, todo, mie, acc, var>>
Sleep == /\ Ready /\ ~Interrupted /\ todo = <<>>
         /\ UNCHANGED <<core, todo, rest, mie, acc, var>>

Core(body) ==
    /\ \/ Trap \/ Return \/ Begin \/ Finish \/ Expand(body) \/ Assign
       \/ BusyWait \/ Unmask \/ Compute \/ Sleep
    /\ mail' = IF Stores("MAIL") THEN Put(mail, core.op.i, core.op.v) ELSE mail

Registers == TimerStep /\ W!WakeStep /\ GpioStep /\ ClockStep /\ UNCHANGED apb

IopInit(program) ==
    /\ BusInit /\ TimerReset /\ W!WakeReset /\ GpioReset
    /\ todo = program /\ rest = 0 /\ mie = FALSE /\ acc = {}
    /\ var = <<>> /\ mail = <<>>

\* attoio_pad_out and attoio_pad_oe: a pad that a channel of the timer toggles is
\* taken from the timer and driven.
PadOut == Overridden(out, TimerPads, padVal)
PadOe == oe \cup TimerPads

\* A pad nobody drives is where the outside holds it, and a device may pull low
\* one that the other side releases.  Edges are those of the last cycle.
Lines(up, low) == ((PadOut \cap PadOe) \cup (up \ PadOe)) \ low
Rising == pad \ sync1
Falling == sync1 \ pad

\* No edge is on its way to the flags.
Settled == pad = sync1 /\ sync1 = sync2 /\ sync2 = padPrev

\* An observer of one pad: its edges and the cycles since the last one.
Quiet == [n |-> 0, t |-> 0]
Edge(p) == p \in Rising \cup Falling
Watch(p) == CASE Edge(p) -> [dev EXCEPT !.n = @ + 1, !.t = 1]
              [] ~Edge(p) /\ dev.n > 0 -> [dev EXCEPT !.t = @ + 1]
              [] OTHER -> dev
-----------------------------------------------------------------------------
(* Idioms the images share. *)
Started == Publish(2, 1)
Zero(words) == [i \in DOMAIN words |-> Publish(words[i], 0)]
Cmp(ch, v) == [sel |-> "TIMER_CMP", wr |-> TRUE, i |-> ch, v |-> v]
CmpOn(v) == [CmpOff EXCEPT !.val = v, !.en = TRUE]
CmpIrq(v) == [CmpOn(v) EXCEPT !.irq = TRUE]
CmpToggle(v, p) == [CmpOn(v) EXCEPT !.toggle = TRUE, !.pad = p]
\* TIMER_CTL_EN with RESET or not, AUTO_RELOAD or not.
Ctl(reset, auto) == Store("TIMER_CTL", [reset |-> reset,
                          ctl |-> [CtlOff EXCEPT !.en = TRUE, !.auto = auto]])
CtlCapture(p, edge) ==
    Store("TIMER_CTL", [reset |-> TRUE,
          ctl |-> [CtlOff EXCEPT !.en = TRUE, !.pad = p, !.edge = edge, !.irq = TRUE]])
TimerOff == Store("TIMER_CTL", [reset |-> FALSE, ctl |-> CtlOff])
W1C(bits) == Store("TIMER_STATUS", bits)

\* while (!(TIMER_STATUS & MATCHi)) {}  TIMER_STATUS = MATCHi;
WaitMatch(i) == <<Call("poll", i), W1C({i})>>
Poll(i) == <<Load("TIMER_STATUS"), Call("matched", i)>>
Matched(i) == IF i \in acc THEN <<>> ELSE <<Call("poll", i)>>

\* delay_cycles() of ht1621, hd44780 and onewire, qtr() of tm1637: a fresh count
\* of n cycles.  wait_until() of ir_tx and ir_learn: the count that is running.
\* Mutant: the counter is not reset.
DelayCycles_NoReset(n) ==
    <<Cmp(0, CmpOn(n - 1)), Ctl(FALSE, FALSE), W1C({0}), Let("delay", n)>>
    \o WaitMatch(0) \o <<Let("delay", 0)>>
DelayCycles(n) ==
    <<Cmp(0, CmpOn(n - 1)), Ctl(TRUE, FALSE), W1C({0}), Let("delay", n)>>
    \o WaitMatch(0) \o <<Let("delay", 0)>>
WaitUntil(t) == <<Cmp(0, CmpOn((t - 1) % CountMod)), W1C({0})>> \o WaitMatch(0)

\* wake_set_edge() and wake_enable() of attoio.h, read-modify-write.
WakeEdge(p, m) == <<Load("WAKE_EDGE"), Call("edge", [pad |-> p, mode |-> m])>>
SetEdge(x) == <<Store("WAKE_EDGE", [acc EXCEPT ![x.pad] = x.mode])>>
WakeEnable(p) == <<Load("WAKE_MASK"), Call("enable", p)>>
SetMask(p) == <<Store("WAKE_MASK", acc \cup {p})>>

Idiom(f, x) == CASE f = "poll" -> Poll(x) [] f = "matched" -> Matched(x)
                 [] f = "delay" -> DelayCycles(x) [] f = "until" -> WaitUntil(x)
                 [] f = "edge" -> SetEdge(x) [] f = "enable" -> SetMask(x)
Idioms == {"poll", "matched", "delay", "until", "edge", "enable"}
=============================================================================
