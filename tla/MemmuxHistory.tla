---------------------------- MODULE MemmuxHistory ---------------------------
(***************************************************************************)
(* Memmux with history variables, its correctness properties, and the      *)
(* mapping under which it implements the memory of AtomicMemory.           *)
(*                                                                         *)
(* A core store is written into SRAM B on every sysclk edge on which it is *)
(* granted while its request is held, so its first write may be seen by    *)
(* the host before the core's cycle ends.  Its instant is chosen as late   *)
(* as the host's reads allow: when the host reads the word it has already  *)
(* replaced, or else when the core's cycle ends.                           *)
(***************************************************************************)
EXTENDS Memmux

VARIABLES cell,    \* the contents of the atomic memory
          early,   \* the core's store has had its instant, its cycle not ended
          held,    \* what the word held when the core's last load was accepted
          stalls   \* clk_iop edges that refused the core's present request
hvars == <<cell, early, held, stalls>>

Accepted == ClkIop /\ core.st = "req" /\ ~Busy /\ ~iopReset
StoreHeld == core.st = "req" /\ core.op.sel = "B" /\ core.op.wr
\* The first of the two ACCESS edges, where the host's transfer happens.
HostActs == HostReqB /\ ~pending

StoreVisible == StoreHeld /\ memB[core.op.w] = core.op.v
HostSeesStore == /\ StoreVisible /\ HostActs /\ ~apb.op.wr
                 /\ apb.op.w = core.op.w /\ cell[core.op.w] # core.op.v
\* A reset drops the store after its first write: the write stays.
StoreDropped == StoreHeld /\ core' = Idle /\ ~Accepted /\ memB'[core.op.w] = core.op.v

AfterCore ==
    IF ~early /\ StoreHeld /\ (Accepted \/ HostSeesStore \/ StoreDropped)
    THEN [cell EXCEPT ![core.op.w] = core.op.v] ELSE cell

HistoryInit == cell = memB /\ early = FALSE /\ held = Zero /\ stalls = 0

HistoryStep ==
    /\ cell' = IF HostActs /\ apb.op.wr
               THEN [AfterCore EXCEPT ![apb.op.w] = apb.op.v] ELSE AfterCore
    /\ early' = (StoreHeld /\ core' = core /\ ~Accepted
                 /\ (early \/ HostSeesStore))
    /\ held' = IF ~Accepted \/ core.op.wr THEN held
               ELSE IF core.op.sel = "B" THEN memB[core.op.w]
               ELSE IF core.op.sel = "A" THEN memA[core.op.w] ELSE held
    /\ stalls' = IF core.st # "req" \/ Accepted \/ core' = Idle THEN 0
                 ELSE IF ClkIop THEN stalls + 1 ELSE stalls

HInit == Init /\ HistoryInit
HNext == Edge /\ HistoryStep
HSpec == HInit /\ [][HNext]_<<vars, hvars>> /\ WF_<<vars, hvars>>(HNext)
-----------------------------------------------------------------------------
TypeOK ==
    /\ phase \in 0..(N - 1)
    /\ apb \in HostStates(HostOps) /\ core \in CoreStates(CoreOps)
    /\ memA \in A!Contents /\ doA \in Values
    /\ memB \in B!Contents /\ doB \in Values
    /\ iopReset \in BOOLEAN /\ coreSrc \in {"A", "B", "mmio"}
    /\ grantQ \in BOOLEAN /\ rdataQ \in Values
    /\ hostSrc \in {"A", "B", "unmapped"} /\ pending \in BOOLEAN
    /\ cell \in B!Contents /\ early \in BOOLEAN /\ held \in Values
    /\ stalls \in Nat

\* The core's load from the mailbox delivers what the word held at the edge
\* that accepted the load, whatever the host reads or writes between that
\* edge and the clk_iop edge where the core takes the data (the BUG-001 fix).
CoreReadAtomic ==
    (core.st = "wait" /\ core.op.sel = "B" /\ ClkIop) => CoreRdata = held

\* Nothing the host does on SRAM A while the firmware runs reaches the core:
\* a fetch or load delivers what the word held when it was accepted.
FirmwareReadStable ==
    (core.st = "wait" /\ core.op.sel = "A" /\ ClkIop /\ ~iopReset)
        => CoreRdata = held

\* The host can hold the core off the mailbox for two clk_iop edges at most:
\* back-to-back transfers leave their SETUP cycle to the core.
StallBound == stalls <= 2

\* What the core is on its way to receive: Do0 until the capture, then the
\* latch; at the clk_iop edge whatever the multiplexer shows it.
Arriving == IF ClkIop THEN CoreRdata ELSE IF grantQ THEN doB ELSE rdataQ

MappedOp(op) == IF op.wr THEN [wr |-> TRUE, w |-> op.w, v |-> op.v]
                         ELSE [wr |-> FALSE, w |-> op.w]
MappedHost ==
    IF apb.st = "idle" \/ apb.op.sel # "B" THEN [st |-> "rest"]
    ELSE IF ~(apb.st = "access" /\ pending) THEN [st |-> "call", op |-> MappedOp(apb.op)]
    ELSE IF apb.op.wr THEN [st |-> "done"] ELSE [st |-> "done", v |-> HostRdata]
MappedCore ==
    IF core.st = "idle" \/ core.op.sel # "B" THEN [st |-> "rest"]
    ELSE IF core.st = "wait" THEN [st |-> "done", v |-> Arriving]
    ELSE IF early THEN [st |-> "done"] ELSE [st |-> "call", op |-> MappedOp(core.op)]

Atomic == INSTANCE AtomicMemory WITH Words <- WordsB, host <- MappedHost, iop <- MappedCore

\* Two clocks, two masters and one read port behave as one atomic memory:
\* loads and stores of the core and transfers of the host each take effect
\* once, in one order, and every read returns what that order says.
AtomicMailbox == Atomic!Spec

\* While no core store is under way SRAM B holds what the order of accesses
\* says: a store the host has seen is not written again over what the host
\* wrote since.  The core's port repeats the write on every granted edge of
\* the held request, so this depends on the ratio of the clocks.
StoreWrittenOnce == ~StoreHeld => memB = cell
=============================================================================
