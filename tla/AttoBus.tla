------------------------------- MODULE AttoBus ------------------------------
(***************************************************************************)
(* What drives AttoIO from its two sides, and the two clocks.  A step of   *)
(* every specification that uses this module is one rising edge of sysclk; *)
(* every N-th of them is a rising edge of clk_iop too.  State read by a    *)
(* step is what the registers and lines hold just before the edge.         *)
(*                                                                         *)
(*   apb   the host's APB master with the wrapper of attoio_apb_if.v: one  *)
(*         transfer at a time, SETUP, then ACCESS held until PREADY.       *)
(*   core  the AttoRV32 bus master (its source is not in the repository):  *)
(*         a request is driven for a whole clk_iop cycle and held while    *)
(*         the busy line is high at the clk_iop edge; a load takes its     *)
(*         data one clk_iop cycle after its request was accepted, with the *)
(*         request lines idle.                                             *)
(***************************************************************************)
EXTENDS Naturals
CONSTANT N
ASSUME RatioAssumption == N \in Nat \ {0}

VARIABLES phase,  \* sysclk edges since the last clk_iop edge
          apb,    \* the host's transfer
          core    \* the core's bus cycle

Idle == [st |-> "idle"]
Setup(op) == [st |-> "setup", op |-> op]
InAccess(op) == [st |-> "access", op |-> op]
Request(op) == [st |-> "req", op |-> op]
Await(op) == [st |-> "wait", op |-> op]

HostStates(ops) == {Idle} \cup [st : {"setup", "access"}, op : ops]
CoreStates(ops) == {Idle} \cup [st : {"req", "wait"}, op : ops]

\* The coming sysclk edge is a clk_iop edge too.
ClkIop == phase = N - 1
ClockStep == phase' = (phase + 1) % N

\* PSEL and PENABLE both high: host_wen or host_ren of the wrapper.
Access(sels) == apb.st = "access" /\ apb.op.sel \in sels
\* core_active with the address in one of these regions.
Active(sels) == core.st = "req" /\ core.op.sel \in sels
\* A store of the core to this register of clk_iop, taken at the coming edge.
Stores(reg) == ClkIop /\ Active({reg}) /\ core.op.wr

\* The master may rest or begin another transfer, back to back or later.
HostBegin(ops) == apb' = Idle \/ \E op \in ops : apb' = Setup(op)

HostStep(ops, pready) ==
    \/ apb.st = "idle" /\ HostBegin(ops)
    \/ apb.st = "setup" /\ apb' = InAccess(apb.op)
    \/ apb.st = "access" /\ ~pready /\ UNCHANGED apb
    \/ apb.st = "access" /\ pready /\ HostBegin(ops)

CoreBegin(ops) == core' = Idle \/ \E op \in ops : core' = Request(op)

\* Whether the core's reset acts at once or at its next clock edge is not
\* visible here, so a held reset may abandon a bus cycle at any sysclk edge
\* and has done so at the next clk_iop edge.
CoreReset == core' = Idle

CoreStep(ops, busy, reset) ==
    \/ ~ClkIop /\ UNCHANGED core
    \/ ClkIop /\ ~reset /\ core.st \in {"idle", "wait"} /\ CoreBegin(ops)
    \/ ClkIop /\ ~reset /\ core.st = "req" /\ busy /\ UNCHANGED core
    \/ ClkIop /\ ~reset /\ core.st = "req" /\ ~busy /\ core.op.wr /\ CoreBegin(ops)
    \/ ClkIop /\ ~reset /\ core.st = "req" /\ ~busy /\ ~core.op.wr
       /\ core' = Await(core.op)
    \/ reset /\ CoreReset

BusInit == phase = 0 /\ apb = Idle /\ core = Idle
=============================================================================
