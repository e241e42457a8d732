------------------------------- MODULE Memmux -------------------------------
(***************************************************************************)
(* attoio_memmux.v with what it connects: the APB wrapper, the core's      *)
(* memory port, SRAM A (owned by the host while IOP_CTRL.reset is 1 and by *)
(* the core while it is 0) and SRAM B, the mailbox (host priority, the     *)
(* core is stalled).  One step is one sysclk edge of all of it.            *)
(*                                                                         *)
(* HostRegions says where the host sends transfers: "A", "B", "IOP_CTRL"   *)
(* (a write that sets or clears the reset bit) and "unmapped" (0x400-0x5FF *)
(* and 0x680-0x6FF).  Accesses are of whole words.                         *)
(***************************************************************************)
EXTENDS AttoBus
CONSTANTS WordsA, WordsB, Values, Zero, HostRegions, CoreRegions
ASSUME RegionAssumption ==
    /\ HostRegions \subseteq {"A", "B", "IOP_CTRL", "unmapped"}
    /\ CoreRegions \subseteq {"A", "B", "mmio"}
ASSUME ContentAssumption == WordsA # {} /\ WordsB # {} /\ Zero \in Values

VARIABLES memA, doA, memB, doB,
          iopReset,  \* IOP_CTRL.reset, a register of attoio_ctrl.v
          coreSrc,   \* core_rd_src
          grantQ,    \* core_b_grant_q
          rdataQ,    \* core_b_rdata_q
          hostSrc,   \* host_rd_src
          pending    \* host_access_pending
vars == <<phase, apb, core, memA, doA, memB, doB, iopReset, coreSrc, grantQ,
          rdataQ, hostSrc, pending>>

A == INSTANCE Dffram WITH Words <- WordsA, mem <- memA, do0 <- doA
B == INSTANCE Dffram WITH Words <- WordsB, mem <- memB, do0 <- doB

Accesses(sel, words) == [sel : {sel}, wr : {FALSE}, w : words]
                        \cup [sel : {sel}, wr : {TRUE}, w : words, v : Values]
SramAccesses == Accesses("A", WordsA) \cup Accesses("B", WordsB)
Plain(sels) == [sel : sels, wr : BOOLEAN]

HostOps == {op \in SramAccesses \cup Plain({"unmapped"})
                   \cup [sel : {"IOP_CTRL"}, wr : {TRUE}, reset : BOOLEAN] :
                op.sel \in HostRegions}
CoreOps == {op \in SramAccesses \cup Plain({"mmio"}) : op.sel \in CoreRegions}

\* The requests that reach each memory.  Mutants: the reset bit does not gate
\* the host's port of SRAM A; a request without PENABLE counts.
HostReqA_Ungated == Access({"A"})
HostReqA == Access({"A"}) /\ iopReset
HostReqB_Psel == apb.st \in {"setup", "access"} /\ apb.op.sel = "B"
HostReqB == Access({"B"})
GrantCoreA == Active({"A"}) /\ ~iopReset
CoreReqB == Active({"B"})

\* Who gets SRAM B: the host if it asks, the core otherwise.
GrantHostB == HostReqB
GrantCoreB_First == CoreReqB
GrantCoreB == CoreReqB /\ ~HostReqB

SramA ==
    \/ HostReqA /\ A!Access(apb.op)
    \/ GrantCoreA /\ A!Access(core.op)
    \/ ~HostReqA /\ ~GrantCoreA /\ A!Hold

SramB ==
    \/ GrantHostB /\ ~GrantCoreB /\ B!Access(apb.op)
    \/ GrantCoreB /\ B!Access(core.op)
    \/ ~GrantHostB /\ ~GrantCoreB /\ B!Hold

\* core_rbusy or core_wbusy, by the direction of the request.
Busy == HostReqB /\ CoreReqB

\* The read-data multiplexer of the core follows the last accepted request.
CoreSource ==
    coreSrc' = IF ClkIop /\ core.st = "req" /\ ~Busy
               THEN IF core.op.sel \in {"A", "B"} THEN core.op.sel ELSE "mmio"
               ELSE coreSrc

\* The capture latch of BUG-001: Do0 is kept for the core one sysclk edge
\* after a granted access, before a host access can replace it.
CaptureB ==
    /\ grantQ' = GrantCoreB
    /\ rdataQ' = IF grantQ THEN doB ELSE rdataQ

CoreRdata_NoLatch == IF coreSrc = "A" THEN doA ELSE doB
CoreRdata == IF coreSrc = "A" THEN doA ELSE rdataQ

HostSource_NoPageMask ==
    /\ pending' = Access({"A", "B"})
    /\ hostSrc' = IF apb.st = "access" THEN apb.op.sel ELSE hostSrc
HostSource ==
    /\ pending' = Access({"A", "B"})
    /\ hostSrc' = IF Access({"A", "B", "unmapped"}) THEN apb.op.sel ELSE hostSrc
HostRdata == IF hostSrc = "A" THEN doA ELSE doB

\* host_ready: the register page answers at once, the rest when pending.
RegisterPage == {"IOP_CTRL", "H2C", "C2H"}
HostReady == Access(RegisterPage) \/ pending

\* attoio_ctrl.v stores the reset bit on the access edge.
ResetBit ==
    iopReset' = IF Access({"IOP_CTRL"}) THEN apb.op.reset ELSE iopReset

Init ==
    /\ BusInit
    /\ A!PowerUp /\ B!PowerUp
    /\ iopReset = TRUE
    /\ coreSrc = "A" /\ grantQ = FALSE /\ rdataQ = Zero
    /\ hostSrc = "A" /\ pending = FALSE

Edge ==
    /\ HostStep(HostOps, HostReady)
    /\ CoreStep(CoreOps, Busy, iopReset)
    /\ SramA /\ SramB
    /\ CoreSource /\ CaptureB /\ HostSource /\ ResetBit
    /\ ClockStep

\* The clocks never stop; nothing else is assumed of either master.
Spec == Init /\ [][Edge]_vars /\ WF_vars(Edge)
-----------------------------------------------------------------------------
\* Every transfer the host has begun ends: PREADY comes.  The wrapper has no
\* timeout and no error response (attoio_apb_if.v), so this is all a host has.
HostCompletes == (apb.st = "access") ~> (apb.st # "access")
=============================================================================
