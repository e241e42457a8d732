---------------------------- MODULE Memmux_proofs ---------------------------
(***************************************************************************)
(* Proofs about Memmux and its history, for every ratio of the clocks and  *)
(* every size of the memories.                                             *)
(***************************************************************************)
EXTENDS MemmuxHistory, TLAPS

\* The state after any edge has the types of TypeOK: no register takes a
\* value its users do not expect, whatever the two masters do.
LEMMA TypeInit == HInit => TypeOK
  <1> SUFFICES ASSUME HInit PROVE TypeOK
    OBVIOUS
  <1>1. phase \in 0..(N - 1) /\ apb \in HostStates(HostOps)
        /\ core \in CoreStates(CoreOps)
    BY RatioAssumption DEF HInit, Init, BusInit, HostStates, CoreStates, Idle
  <1> QED
    BY <1>1, ContentAssumption
    DEF HInit, Init, HistoryInit, TypeOK, A!PowerUp, B!PowerUp, A!Contents, B!Contents

LEMMA PhaseStep == ASSUME TypeOK, ClockStep PROVE phase' \in 0..(N - 1)
  BY RatioAssumption DEF TypeOK, ClockStep

LEMMA HostTypeStep ==
  ASSUME TypeOK, HostStep(HostOps, HostReady) PROVE apb' \in HostStates(HostOps)
  BY DEF TypeOK, HostStep, HostBegin, HostStates, Idle, Setup, InAccess

LEMMA CoreTypeStep ==
  ASSUME TypeOK, CoreStep(CoreOps, Busy, iopReset)
  PROVE  core' \in CoreStates(CoreOps)
  BY DEF TypeOK, CoreStep, CoreBegin, CoreReset, CoreStates, Idle, Request, Await

\* An operation on a bank is a read of one of its words, or a write of a value.
LEMMA OpTypes ==
  ASSUME NEW op \in HostOps \cup CoreOps
  PROVE  /\ op.wr \in BOOLEAN
         /\ op.sel = "A" => op.w \in WordsA
         /\ op.sel = "B" => op.w \in WordsB
         /\ op.sel \in {"A", "B"} /\ op.wr => op.v \in Values
         /\ op.sel \in {"A", "B", "IOP_CTRL", "unmapped", "mmio"}
         /\ op.sel = "IOP_CTRL" => op.reset \in BOOLEAN
  BY DEF HostOps, CoreOps, SramAccesses, Accesses, Plain

LEMMA UserTypes ==
  ASSUME TypeOK
  PROVE  /\ apb.st \in {"idle", "setup", "access"}
         /\ core.st \in {"idle", "req", "wait"}
         /\ apb.st # "idle" => apb.op \in HostOps
         /\ core.st # "idle" => core.op \in CoreOps
  BY DEF TypeOK, HostStates, CoreStates, Idle

LEMMA SramATypeStep ==
  ASSUME TypeOK, SramA PROVE memA' \in A!Contents /\ doA' \in Values
  <1>1. CASE HostReqA /\ A!Access(apb.op)
    BY <1>1, UserTypes, OpTypes
    DEF TypeOK, HostReqA, Access, A!Access, A!Contents
  <1>2. CASE GrantCoreA /\ A!Access(core.op)
    BY <1>2, UserTypes, OpTypes
    DEF TypeOK, GrantCoreA, Active, A!Access, A!Contents
  <1>3. CASE A!Hold
    BY <1>3 DEF TypeOK, A!Hold
  <1> QED
    BY <1>1, <1>2, <1>3 DEF SramA

LEMMA SramBTypeStep ==
  ASSUME TypeOK, SramB PROVE memB' \in B!Contents /\ doB' \in Values
  <1>1. CASE GrantHostB /\ B!Access(apb.op)
    BY <1>1, UserTypes, OpTypes
    DEF TypeOK, GrantHostB, HostReqB, Access, B!Access, B!Contents
  <1>2. CASE GrantCoreB /\ B!Access(core.op)
    BY <1>2, UserTypes, OpTypes
    DEF TypeOK, GrantCoreB, CoreReqB, Active, B!Access, B!Contents
  <1>3. CASE B!Hold
    BY <1>3 DEF TypeOK, B!Hold
  <1> QED
    BY <1>1, <1>2, <1>3 DEF SramB

LEMMA RegisterTypeStep ==
  ASSUME TypeOK, CoreSource, CaptureB, HostSource, ResetBit
  PROVE  /\ coreSrc' \in {"A", "B", "mmio"} /\ grantQ' \in BOOLEAN
         /\ rdataQ' \in Values /\ iopReset' \in BOOLEAN
         /\ hostSrc' \in {"A", "B", "unmapped"} /\ pending' \in BOOLEAN
  <1>1. coreSrc' \in {"A", "B", "mmio"}
    BY UserTypes DEF TypeOK, CoreSource
  <1>2. grantQ' \in BOOLEAN /\ rdataQ' \in Values
    BY DEF TypeOK, CaptureB, GrantCoreB, CoreReqB, HostReqB, Access, Active
  <1>3. iopReset' \in BOOLEAN
    BY UserTypes, OpTypes DEF TypeOK, ResetBit, Access
  <1>4. hostSrc' \in {"A", "B", "unmapped"} /\ pending' \in BOOLEAN
    BY DEF TypeOK, HostSource, Access
  <1> QED
    BY <1>1, <1>2, <1>3, <1>4

LEMMA HistoryTypeStep ==
  ASSUME TypeOK, HistoryStep
  PROVE  /\ cell' \in B!Contents /\ early' \in BOOLEAN
         /\ held' \in Values /\ stalls' \in Nat
  <1>1. AfterCore \in B!Contents
    BY UserTypes, OpTypes DEF TypeOK, AfterCore, StoreHeld, B!Contents
  <1>2. cell' \in B!Contents
    BY <1>1, UserTypes, OpTypes
    DEF HistoryStep, HostActs, HostReqB, Access, B!Contents
  <1>3. early' \in BOOLEAN
    BY DEF TypeOK, HistoryStep
  <1>4. held' \in Values
    BY UserTypes, OpTypes
    DEF TypeOK, HistoryStep, Accepted, A!Contents, B!Contents
  <1>5. stalls' \in Nat
    BY DEF TypeOK, HistoryStep
  <1> QED
    BY <1>2, <1>3, <1>4, <1>5

LEMMA TypeStep == ASSUME TypeOK, [HNext]_<<vars, hvars>> PROVE TypeOK'
  <1>1. CASE HNext
    <2> USE <1>1 DEF HNext, Edge
    <2>1. phase' \in 0..(N - 1) /\ apb' \in HostStates(HostOps)
          /\ core' \in CoreStates(CoreOps)
      BY PhaseStep, HostTypeStep, CoreTypeStep
    <2>2. /\ memA' \in A!Contents /\ doA' \in Values
          /\ memB' \in B!Contents /\ doB' \in Values
      BY SramATypeStep, SramBTypeStep
    <2> QED
      BY <2>1, <2>2, RegisterTypeStep, HistoryTypeStep
      DEF TypeOK, A!Contents, B!Contents
  <1>2. CASE UNCHANGED <<vars, hvars>>
    BY <1>2 DEF TypeOK, vars, hvars, HostStates, CoreStates, A!Contents, B!Contents
  <1> QED
    BY <1>1, <1>2

THEOREM TypeCorrect == HSpec => []TypeOK
  <1> QED
    BY TypeInit, TypeStep, PTL DEF HSpec
-----------------------------------------------------------------------------
(***************************************************************************)
(* Loads of the mailbox.  The word read sits in Do0 for one sysclk edge    *)
(* (grantQ says so) and in the latch from then on; the clk_iop edge where  *)
(* the core takes it comes later than that as soon as N >= 2.              *)
(***************************************************************************)
LoadOnItsWay ==
    (core.st = "wait" /\ core.op.sel = "B") =>
        /\ coreSrc = "B"
        /\ IF phase = 0 THEN grantQ /\ doB = held ELSE ~grantQ /\ rdataQ = held

LEMMA LoadAccepted ==
  ASSUME TypeOK, HNext, core.st # "wait", core'.st = "wait", core'.op.sel = "B"
  PROVE  LoadOnItsWay'
  <1>1. /\ ClkIop /\ ~iopReset /\ core.st = "req" /\ ~Busy /\ ~core.op.wr
        /\ core' = Await(core.op)
    BY DEF HNext, Edge, CoreStep, CoreBegin, CoreReset, Idle, Request
  <1>2. core.op.sel = "B"
    BY <1>1 DEF Await
  <1>3. GrantCoreB /\ ~HostReqB
    BY <1>1, <1>2 DEF GrantCoreB, CoreReqB, Active, Busy
  <1>4. doB' = memB[core.op.w] /\ grantQ'
    BY <1>1, <1>3 DEF HNext, Edge, SramB, B!Access, CaptureB
  <1>5. held' = memB[core.op.w]
    BY <1>1, <1>2 DEF HNext, HistoryStep, Accepted
  <1>6. coreSrc' = "B"
    BY <1>1, <1>2 DEF HNext, Edge, CoreSource
  <1>7. phase' = 0
    BY <1>1, RatioAssumption DEF HNext, Edge, ClockStep, ClkIop
  <1> QED
    BY <1>4, <1>5, <1>6, <1>7 DEF LoadOnItsWay

LEMMA LoadWaits ==
  ASSUME N >= 2, TypeOK, LoadOnItsWay, HNext,
         core.st = "wait", core'.st = "wait", core'.op.sel = "B"
  PROVE  LoadOnItsWay'
  <1>1. ~ClkIop /\ core' = core
    BY DEF HNext, Edge, CoreStep, CoreBegin, CoreReset, Idle, Request
  <1>2. ~GrantCoreB /\ ~Accepted
    BY DEF GrantCoreB, CoreReqB, Active, Accepted
  <1>3. ~grantQ' /\ held' = held /\ coreSrc' = coreSrc
    BY <1>1, <1>2 DEF HNext, Edge, CaptureB, HistoryStep, CoreSource
  <1>4. phase' # 0
    BY <1>1, RatioAssumption DEF TypeOK, HNext, Edge, ClockStep, ClkIop
  <1>5. rdataQ' = held
    BY <1>1 DEF HNext, Edge, CaptureB, LoadOnItsWay
  <1> QED
    BY <1>1, <1>3, <1>4, <1>5 DEF LoadOnItsWay

LEMMA LoadInit == HInit => LoadOnItsWay
  BY DEF HInit, Init, BusInit, Idle, LoadOnItsWay

LEMMA LoadStep ==
  ASSUME N >= 2, TypeOK, LoadOnItsWay, [HNext]_<<vars, hvars>> PROVE LoadOnItsWay'
  <1>1. CASE HNext
    BY <1>1, LoadAccepted, LoadWaits DEF LoadOnItsWay
  <1>2. CASE UNCHANGED <<vars, hvars>>
    BY <1>2 DEF vars, hvars, LoadOnItsWay
  <1> QED
    BY <1>1, <1>2

\* At every ratio of two or more, and for a host doing anything whatever, a
\* mailbox load of the core delivers what its word held when it was accepted.
THEOREM ReadAtomicity == ASSUME N >= 2 PROVE HSpec => []CoreReadAtomic
  <1>1. TypeOK /\ LoadOnItsWay /\ [HNext]_<<vars, hvars>> => LoadOnItsWay'
    BY LoadStep
  <1>2. TypeOK /\ LoadOnItsWay => CoreReadAtomic
    BY RatioAssumption DEF TypeOK, LoadOnItsWay, CoreReadAtomic, CoreRdata, ClkIop
  <1> QED
    BY <1>1, <1>2, LoadInit, TypeCorrect, PTL DEF HSpec
-----------------------------------------------------------------------------
(***************************************************************************)
(* Waiting for the mailbox at N = 2.  A transfer of the host covers two    *)
(* ACCESS edges and the next one begins with a SETUP edge.  Where the host *)
(* stands after a refusal says which edge that was.                        *)
(***************************************************************************)
AfterRefusal ==
    /\ stalls \in 0..2
    /\ stalls > 0 /\ phase = 0 => (apb.st = "access" => pending)
    /\ stalls = 1 /\ phase = 1 => (apb.st = "access" => ~pending)
    /\ stalls = 2 /\ phase = 0 => apb.st = "access"
    /\ stalls = 2 /\ phase = 1 => apb.st # "access"

LEMMA RefusalStep ==
  ASSUME N = 2, TypeOK, AfterRefusal, HNext PROVE AfterRefusal'
  <1> DEFINE Refused == core.st = "req" /\ ClkIop /\ HostReqB
  <1>1. stalls' \in {0, stalls, stalls + 1}
        /\ (stalls' # 0 => core.st = "req")
    BY DEF TypeOK, HNext, HistoryStep
  <1>2. /\ phase \in {0, 1} /\ phase' = 1 - phase /\ (ClkIop <=> phase = 1)
    BY DEF TypeOK, HNext, Edge, ClockStep, ClkIop
  <1>3. phase = 0 => stalls' \in {0, stalls}
    BY <1>2 DEF HNext, HistoryStep
  <1>4. phase = 1 /\ stalls' # 0 => HostReqB /\ stalls' = stalls + 1
    BY <1>2 DEF HNext, Edge, HistoryStep, CoreStep, Accepted, Busy, CoreReset
  <1>5. apb.st = "setup" /\ apb' = InAccess(apb.op) => ~pending'
    BY DEF HNext, Edge, HostSource, Access
  <1>6. apb'.st = "access" =>
           \/ apb.st = "setup" /\ ~pending'
           \/ apb.st = "access" /\ ~HostReady
    BY <1>5 DEF HNext, Edge, HostStep, HostBegin, Idle, Setup
  <1>7. apb.st = "access" /\ pending => apb'.st # "access"
    BY <1>6 DEF HostReady
  <1>8. HostReqB /\ apb'.st = "access" => pending'
    BY <1>6 DEF HNext, Edge, HostReqB, HostSource, Access
  <1>9. HostReqB /\ ~pending => apb'.st = "access"
    BY DEF HNext, Edge, HostStep, HostReqB, HostReady, RegisterPage, Access
  <1>10. CASE phase = 0
    BY <1>1, <1>2, <1>3, <1>6, <1>7, <1>10 DEF AfterRefusal
  <1>11. CASE phase = 1
    BY <1>1, <1>2, <1>4, <1>8, <1>9, <1>11 DEF AfterRefusal, HostReqB, Access
  <1> QED
    BY <1>2, <1>10, <1>11

\* At N = 2 no request of the core is refused more than twice in a row.
THEOREM BoundedStall == ASSUME N = 2 PROVE HSpec => []StallBound
  <1>1. HInit => AfterRefusal
    BY DEF HInit, HistoryInit, AfterRefusal
  <1>2. TypeOK /\ AfterRefusal /\ [HNext]_<<vars, hvars>> => AfterRefusal'
    BY RefusalStep DEF vars, hvars, AfterRefusal
  <1>3. AfterRefusal => StallBound
    BY DEF AfterRefusal, StallBound
  <1> QED
    BY <1>1, <1>2, <1>3, TypeCorrect, PTL DEF HSpec
-----------------------------------------------------------------------------
(***************************************************************************)
(* Loads of SRAM A.  The word stays in Do0 until the core takes it, unless *)
(* the host resets the core, replaces Do0 and releases the core within one *)
(* clk_iop cycle, so that the core need not have noticed.  Those are three *)
(* transfers, which take six edges: phase says how many there have been    *)
(* since the load was accepted.                                            *)
(***************************************************************************)
Replaced == doA # held
HostReads == apb.st = "access" /\ apb.op.sel = "A" /\ pending

FetchOnItsWay ==
    (core.st = "wait" /\ core.op.sel = "A") =>
        /\ coreSrc = "A"
        /\ phase = 0 /\ iopReset => apb.st # "access"
        /\ phase = 1 /\ iopReset /\ apb.st = "access" => ~pending
        /\ Replaced => iopReset /\ phase > 1
        /\ Replaced /\ phase = 2 => HostReads
        /\ Replaced /\ phase = 3 => HostReads \/ apb.st # "access"

\* The reset bit changes by a write of the host, which takes one ACCESS edge.
LEMMA ResetChange ==
  ASSUME Edge
  PROVE  /\ ~iopReset /\ iopReset' => Access({"IOP_CTRL"})
         /\ iopReset /\ ~iopReset' => Access({"IOP_CTRL"})
         /\ Access({"IOP_CTRL"}) => apb'.st # "access"
  <1>1. CASE ~Access({"IOP_CTRL"})
    <2>1. iopReset' = iopReset
      BY <1>1, Zenon DEF Edge, ResetBit
    <2> QED
      BY <1>1, <2>1
  <1>2. Access({"IOP_CTRL"}) => apb.st = "access" /\ HostReady
    BY DEF Access, HostReady, RegisterPage
  <1>3. Access({"IOP_CTRL"}) => HostBegin(HostOps)
    BY <1>2 DEF Edge, HostStep
  <1>4. HostBegin(HostOps) => apb'.st # "access"
    BY DEF HostBegin, Idle, Setup
  <1> QED
    BY <1>1, <1>3, <1>4

LEMMA FetchAccepted ==
  ASSUME TypeOK, HNext, core.st # "wait", core'.st = "wait", core'.op.sel = "A"
  PROVE  FetchOnItsWay'
  <1>1. /\ ClkIop /\ ~iopReset /\ core.st = "req" /\ ~Busy /\ ~core.op.wr
        /\ core' = Await(core.op)
    BY DEF HNext, Edge, CoreStep, CoreBegin, CoreReset, Idle, Request
  <1>2. core.op.sel = "A"
    BY <1>1 DEF Await
  <1>3. GrantCoreA /\ ~HostReqA
    BY <1>1, <1>2 DEF GrantCoreA, Active, HostReqA
  <1>4. doA' = memA[core.op.w]
    BY <1>3 DEF HNext, Edge, SramA, A!Access
  <1>5. held' = memA[core.op.w]
    BY <1>1, <1>2 DEF HNext, HistoryStep, Accepted
  <1>6. coreSrc' = "A"
    BY <1>1, <1>2 DEF HNext, Edge, CoreSource
  <1>7. phase' = 0
    BY <1>1, RatioAssumption DEF HNext, Edge, ClockStep, ClkIop
  <1>8. iopReset' => apb'.st # "access"
    BY <1>1, ResetChange DEF HNext
  <1> QED
    BY <1>4, <1>5, <1>6, <1>7, <1>8 DEF FetchOnItsWay, Replaced

LEMMA FetchWaits ==
  ASSUME N \in 1..5, TypeOK, FetchOnItsWay, HNext,
         core.st = "wait", core'.st = "wait", core'.op.sel = "A"
  PROVE  FetchOnItsWay'
  <1>1. ~ClkIop /\ core' = core
    BY DEF HNext, Edge, CoreStep, CoreBegin, CoreReset, Idle, Request
  <1>2. ~GrantCoreA /\ ~Accepted
    BY <1>1 DEF GrantCoreA, Active, Accepted
  <1>3. phase \in 0..3 /\ phase' = phase + 1
    BY <1>1 DEF TypeOK, HNext, Edge, ClockStep, ClkIop
  <1>4. held' = held /\ coreSrc' = coreSrc
    BY <1>1, <1>2 DEF HNext, Edge, HistoryStep, CoreSource
  <1>5. doA' = doA \/ (iopReset /\ HostReqA)
    BY <1>2 DEF HNext, Edge, SramA, A!Hold, HostReqA
  <1>6. (iopReset /\ iopReset') \/ (~iopReset /\ ~iopReset')
        \/ (Access({"IOP_CTRL"}) /\ apb'.st # "access")
    BY ResetChange DEF HNext
  <1>7. /\ pending' = Access({"A", "B"})
        /\ apb'.st = "access" =>
               \/ apb.st = "setup"
               \/ apb.st = "access" /\ ~pending /\ apb' = apb
    BY DEF HNext, Edge, HostSource, HostStep, HostBegin, HostReady, Idle, Setup
  <1>8. HostReqA => IF pending THEN apb'.st # "access" ELSE HostReads'
    <2>1. CASE HostReqA /\ pending
      BY <1>7, <2>1 DEF HostReqA, Access
    <2>2. CASE HostReqA /\ ~pending
      <3>1. ~HostReady /\ apb.st = "access"
        BY <2>2 DEF HostReqA, HostReady, RegisterPage, Access
      <3>2. apb' = apb
        BY <3>1 DEF HNext, Edge, HostStep
      <3> QED
        BY <1>7, <2>2, <3>2 DEF HostReqA, Access, HostReads
    <2> QED
      BY <2>1, <2>2
  <1>9. doA' # doA =>
             /\ iopReset /\ iopReset' /\ phase > 0
             /\ HostReads' \/ (phase > 1 /\ apb'.st # "access")
    <2> SUFFICES ASSUME iopReset, HostReqA
                 PROVE  /\ iopReset' /\ phase > 0
                        /\ HostReads' \/ (phase > 1 /\ apb'.st # "access")
      BY <1>5
    <2>1. apb.st = "access" /\ apb.op.sel = "A"
      BY DEF HostReqA, Access
    <2>2. iopReset'
      BY <1>6, <2>1 DEF Access
    <2>3. phase > 0 /\ (phase = 1 => ~pending)
      BY <1>1, <1>3, <2>1 DEF FetchOnItsWay
    <2> QED
      BY <1>3, <1>8, <2>2, <2>3
  <1>10. Replaced' => iopReset' /\ phase' > 1
    BY <1>1, <1>3, <1>4, <1>6, <1>9
    DEF FetchOnItsWay, Replaced, HostReads, Access
  <1>11. Replaced' /\ phase' = 2 => HostReads'
    BY <1>1, <1>3, <1>4, <1>9 DEF FetchOnItsWay, Replaced
  <1>12. Replaced' /\ phase' = 3 => HostReads' \/ apb'.st # "access"
    BY <1>1, <1>3, <1>4, <1>7, <1>9 DEF FetchOnItsWay, Replaced, HostReads
  <1>13. phase' = 1 /\ iopReset' /\ apb'.st = "access" => ~pending'
    <2> SUFFICES ASSUME phase' = 1, iopReset', apb'.st = "access" PROVE ~pending'
      OBVIOUS
    <2>1. iopReset /\ phase = 0
      BY <1>3, <1>6
    <2>2. apb.st # "access"
      BY <1>1, <2>1 DEF FetchOnItsWay
    <2> QED
      BY <1>7, <2>2 DEF Access
  <1>14. coreSrc' = "A" /\ phase' # 0
    BY <1>1, <1>3, <1>4 DEF FetchOnItsWay
  <1> QED
    BY <1>10, <1>11, <1>12, <1>13, <1>14 DEF FetchOnItsWay

\* At a ratio of five or less, and whatever the host sends to SRAM A while the
\* firmware runs, a fetch of the core delivers what its word held when it was
\* accepted.
THEOREM FetchStability == ASSUME N \in 1..5 PROVE HSpec => []FirmwareReadStable
  <1>1. HInit => FetchOnItsWay
    BY DEF HInit, Init, BusInit, Idle, FetchOnItsWay
  <1>2. TypeOK /\ FetchOnItsWay /\ [HNext]_<<vars, hvars>> => FetchOnItsWay'
    <2> SUFFICES ASSUME TypeOK, FetchOnItsWay, [HNext]_<<vars, hvars>>
                 PROVE  FetchOnItsWay'
      OBVIOUS
    <2>1. CASE HNext
      BY <2>1, FetchAccepted, FetchWaits DEF FetchOnItsWay
    <2>2. CASE UNCHANGED <<vars, hvars>>
      BY <2>2 DEF vars, hvars, FetchOnItsWay, Replaced, HostReads
    <2> QED
      BY <2>1, <2>2
  <1>3. TypeOK /\ FetchOnItsWay => FirmwareReadStable
    BY DEF TypeOK, FetchOnItsWay, FirmwareReadStable, CoreRdata, Replaced
  <1> QED
    BY <1>1, <1>2, <1>3, TypeCorrect, PTL DEF HSpec
-----------------------------------------------------------------------------
(***************************************************************************)
(* At N = 2 SRAM B behind its multiplexer implements AtomicMemory, for     *)
(* every size of the memories, every set of values and every choice of     *)
(* accesses of the two masters.                                            *)
(***************************************************************************)
\* The contents once the core's present store is in them.
Stored(c) == [c EXCEPT ![core.op.w] = core.op.v]

\* The edges at which a store is in SRAM B before its instant, or has had its
\* instant and is still held: between the free edge on which it was written and
\* the free edge on which its cycle ends lies one transfer of the host at most.
BetweenFreeEdges ==
    /\ phase = 0 => HostReqB /\ pending
    /\ phase = 1 /\ HostReqB => ~pending

\* SRAM B and the atomic memory differ by the present store at most.  One whose
\* instant has come meets no other transfer before its cycle ends.
OneStoreApart ==
    /\ ~StoreHeld => memB = cell /\ ~early
    /\ StoreHeld => memB = cell \/ memB = Stored(cell)
    /\ early => memB = cell /\ cell[core.op.w] = core.op.v
    /\ early /\ phase = 1 => apb.st # "access"
    /\ early \/ memB # cell => BetweenFreeEdges

\* The second edge of a host's write finds it done.
HostWritten == HostReqB /\ pending /\ apb.op.wr => memB[apb.op.w] = apb.op.v

StoreInv == OneStoreApart /\ HostWritten

LEMMA StoreInvInit == HInit => StoreInv
  BY DEF HInit, HistoryInit, Init, BusInit, Idle, StoreInv, OneStoreApart, HostWritten,
         StoreHeld, HostReqB, Access
-----------------------------------------------------------------------------
(* What one edge does, part by part. *)

LEMMA PhaseAtTwo ==
  ASSUME N = 2, TypeOK, HNext
  PROVE  phase \in {0, 1} /\ phase' = 1 - phase /\ (ClkIop <=> phase = 1)
  BY DEF TypeOK, HNext, Edge, ClockStep, ClkIop

\* A transfer to SRAM B has two edges, the first without pending and the second
\* with it.
LEMMA HostMoves ==
  ASSUME TypeOK, HNext
  PROVE  /\ apb.st = "idle" => HostBegin(HostOps)
         /\ apb.st = "setup" => apb' = InAccess(apb.op)
         /\ apb.st = "access" => apb' = apb \/ HostBegin(HostOps)
         /\ HostReqB /\ ~pending => apb' = apb
         /\ HostReqB /\ pending => HostBegin(HostOps)
         /\ HostReqB => pending' /\ hostSrc' = "B"
         /\ apb.st # "access" => ~pending'
  <1>1. /\ apb.st = "idle" => HostBegin(HostOps)
        /\ apb.st = "setup" => apb' = InAccess(apb.op)
        /\ apb.st = "access" /\ HostReady => HostBegin(HostOps)
        /\ apb.st = "access" /\ ~HostReady => apb' = apb
    BY DEF HNext, Edge, HostStep
  <1>2. HostReqB => apb.st = "access" /\ (HostReady <=> pending)
    BY DEF HostReqB, Access, HostReady, RegisterPage
  <1>3. /\ HostReqB => pending' /\ hostSrc' = "B"
        /\ apb.st # "access" => ~pending'
    BY DEF HNext, Edge, HostSource, HostReqB, Access
  <1> QED
    BY <1>1, <1>2, <1>3

LEMMA HostBegun ==
  ASSUME HostBegin(HostOps)
  PROVE  apb' = Idle \/ (apb'.st = "setup" /\ apb'.op \in HostOps)
  BY DEF HostBegin, Setup

LEMMA SramBMoves ==
  ASSUME TypeOK, HNext
  PROVE  /\ HostReqB =>
                /\ doB' = memB[apb.op.w]
                /\ memB' = IF apb.op.wr THEN [memB EXCEPT ![apb.op.w] = apb.op.v] ELSE memB
         /\ CoreReqB /\ ~HostReqB =>
                /\ doB' = memB[core.op.w]
                /\ memB' = IF core.op.wr THEN Stored(memB) ELSE memB
         /\ ~HostReqB /\ ~CoreReqB => memB' = memB /\ doB' = doB
  BY DEF HNext, Edge, SramB, GrantHostB, GrantCoreB, B!Access, B!Hold, Stored

\* A store is held until it is accepted or dropped by a reset.
LEMMA CoreMoves ==
  ASSUME TypeOK, HNext
  PROVE  /\ core.st = "req" /\ ~Accepted => core' = core \/ core' = Idle
         /\ core' = core \/ core' = Idle \/ ClkIop
         /\ Accepted /\ core.op.wr => CoreBegin(CoreOps)
         /\ Accepted /\ ~core.op.wr => core' = Await(core.op)
         /\ core.st = "wait" => (core' = core /\ ~ClkIop) \/ CoreBegin(CoreOps)
         /\ core.st = "idle" => core' = core \/ CoreBegin(CoreOps)
  BY DEF HNext, Edge, CoreStep, CoreBegin, CoreReset, Accepted, Idle, Request, Await

LEMMA StoreWords ==
  ASSUME TypeOK, StoreHeld
  PROVE  /\ core.op \in CoreOps /\ core.op.w \in WordsB /\ core.op.v \in Values
         /\ core.st = "req" /\ core.op.sel = "B" /\ core.op.wr /\ CoreReqB
  BY UserTypes, OpTypes DEF StoreHeld, CoreReqB, Active

LEMMA HostWords ==
  ASSUME TypeOK, HostReqB
  PROVE  /\ apb.op \in HostOps /\ apb.op.w \in WordsB /\ apb.op.wr \in BOOLEAN
         /\ apb.op.wr => apb.op.v \in Values
         /\ apb.st = "access" /\ apb.op.sel = "B"
  BY UserTypes, OpTypes DEF HostReqB, Access

\* The write of a host is in SRAM B from its first edge on.
LEMMA HostWrittenStep == ASSUME TypeOK, HNext, HostWritten PROVE HostWritten'
  <1> SUFFICES ASSUME HostReqB', pending', apb'.op.wr
               PROVE  memB'[apb'.op.w] = apb'.op.v
    BY DEF HostWritten
  <1>1. apb'.st = "access" /\ ~(apb.st # "access")
    BY HostMoves DEF HostReqB, Access
  <1>2. apb' = apb
    BY <1>1, HostMoves, HostBegun DEF Idle
  <1>3. HostReqB
    BY <1>2 DEF HostReqB, Access
  <1> QED
    BY <1>2, <1>3, HostWords, SramBMoves DEF TypeOK, B!Contents
-----------------------------------------------------------------------------
(* The store, part by part of the multiplexer's decision. *)

\* Writing one word twice, and two words in either order.
LEMMA Overwriting ==
  ASSUME NEW S, NEW T, NEW f \in [S -> T], NEW x \in S, NEW y \in S, NEW a \in T, NEW b \in T
  PROVE  /\ [[f EXCEPT ![x] = a] EXCEPT ![x] = b] = [f EXCEPT ![x] = b]
         /\ x # y => [[f EXCEPT ![x] = a] EXCEPT ![y] = b]
                     = [[f EXCEPT ![y] = b] EXCEPT ![x] = a]
         /\ f[x] = a => [f EXCEPT ![x] = a] = f
         /\ [f EXCEPT ![x] = a][x] = a
         /\ y # x => [f EXCEPT ![x] = a][y] = f[y]
         /\ [f EXCEPT ![x] = a] \in [S -> T]
  OBVIOUS

LEMMA StoredTwice ==
  ASSUME TypeOK, StoreHeld
  PROVE  /\ memB \in [WordsB -> Values] /\ cell \in [WordsB -> Values]
         /\ Stored(Stored(cell)) = Stored(cell)
         /\ cell[core.op.w] = core.op.v => Stored(cell) = cell
         /\ memB[core.op.w] = core.op.v => Stored(memB) = memB
         /\ Stored(cell) \in [WordsB -> Values]
         /\ Stored(cell)[core.op.w] = core.op.v
  BY StoreWords, Overwriting DEF TypeOK, B!Contents, Stored

\* A write of the host over the store and next to it.
LEMMA HostOverwrites ==
  ASSUME TypeOK, StoreHeld, HostReqB, apb.op.wr
  PROVE  /\ apb.op.w = core.op.w =>
                [Stored(cell) EXCEPT ![apb.op.w] = apb.op.v]
                    = [cell EXCEPT ![apb.op.w] = apb.op.v]
         /\ apb.op.w # core.op.w =>
                [Stored(cell) EXCEPT ![apb.op.w] = apb.op.v]
                    = Stored([cell EXCEPT ![apb.op.w] = apb.op.v])
  <1>1. /\ cell \in [WordsB -> Values] /\ core.op.w \in WordsB /\ core.op.v \in Values
        /\ apb.op.w \in WordsB /\ apb.op.v \in Values
    BY StoreWords, HostWords DEF TypeOK, B!Contents
  <1>2. apb.op.w = core.op.w =>
            [Stored(cell) EXCEPT ![apb.op.w] = apb.op.v]
                = [cell EXCEPT ![apb.op.w] = apb.op.v]
    BY <1>1 DEF Stored
  <1>3. apb.op.w # core.op.w =>
            [Stored(cell) EXCEPT ![apb.op.w] = apb.op.v]
                = Stored([cell EXCEPT ![apb.op.w] = apb.op.v])
    BY <1>1 DEF Stored
  <1> QED
    BY <1>2, <1>3

LEMMA InstantOf ==
  ASSUME TypeOK
  PROVE  /\ ~StoreHeld \/ early => AfterCore = cell
         /\ StoreHeld /\ ~early /\ (Accepted \/ HostSeesStore \/ StoreDropped)
                => AfterCore = Stored(cell)
         /\ ~Accepted /\ ~HostSeesStore /\ ~StoreDropped => AfterCore = cell
  BY DEF AfterCore, Stored

LEMMA CellMoves ==
  ASSUME HNext
  PROVE  /\ HostActs /\ apb.op.wr => cell' = [AfterCore EXCEPT ![apb.op.w] = apb.op.v]
         /\ ~HostActs \/ ~apb.op.wr => cell' = AfterCore
         /\ early' = (StoreHeld /\ core' = core /\ ~Accepted /\ (early \/ HostSeesStore))
  BY DEF HNext, HistoryStep

LEMMA NoStore ==
  ASSUME TypeOK, HNext, StoreInv, ~StoreHeld PROVE memB' = cell' /\ ~early'
  <1>1. memB = cell /\ AfterCore = cell
    BY InstantOf DEF StoreInv, OneStoreApart
  <1>2. CoreReqB => ~core.op.wr
    BY DEF CoreReqB, Active, StoreHeld
  <1>3. CASE HostReqB
    <2>1. pending /\ apb.op.wr => [memB EXCEPT ![apb.op.w] = apb.op.v] = memB
      BY <1>3, HostWords DEF StoreInv, HostWritten, TypeOK, B!Contents
    <2> QED
      BY <1>1, <1>3, <2>1, SramBMoves, CellMoves DEF HostActs
  <1>4. CASE ~HostReqB
    BY <1>1, <1>2, <1>4, SramBMoves, CellMoves DEF HostActs
  <1> QED
    BY <1>3, <1>4, CellMoves

LEMMA StoreAccepted ==
  ASSUME TypeOK, HNext, StoreInv, StoreHeld, Accepted PROVE memB' = cell' /\ ~early'
  <1>1. ~HostReqB
    BY StoreWords DEF Accepted, Busy
  <1>2. memB' = Stored(memB)
    BY <1>1, StoreWords, SramBMoves
  <1>3. memB' = Stored(cell)
    BY <1>2, StoredTwice DEF StoreInv, OneStoreApart
  <1>4. AfterCore = Stored(cell)
    BY InstantOf, StoredTwice DEF StoreInv, OneStoreApart
  <1> QED
    BY <1>1, <1>3, <1>4, CellMoves DEF HostActs

\* What a reset leaves of the store.
LEMMA StoreLeft ==
  ASSUME TypeOK, HNext, StoreInv, StoreHeld, ~Accepted, core' = Idle
  PROVE  memB' = cell' /\ ~early'
  <1>1. core' # core
    BY DEF StoreHeld, Idle
  <1>2. memB'[core.op.w] = core.op.v <=> StoreDropped
    BY DEF StoreDropped
  <1>3. memB[core.op.w] = core.op.v => memB = Stored(cell)
    BY StoredTwice DEF StoreInv, OneStoreApart
  <1>4. CASE ~HostReqB
    <2>1. memB' = Stored(memB)
      BY <1>4, StoreWords, SramBMoves
    <2>2. memB' = Stored(cell)
      BY <2>1, StoredTwice DEF StoreInv, OneStoreApart
    <2>3. AfterCore = Stored(cell)
      BY <1>2, <2>2, InstantOf, StoredTwice DEF StoreInv, OneStoreApart
    <2> QED
      BY <1>1, <1>4, <2>2, <2>3, CellMoves DEF HostActs
  <1>5. CASE HostReqB /\ (pending \/ ~apb.op.wr)
    <2>1. memB' = memB
      BY <1>5, HostWords, SramBMoves DEF StoreInv, HostWritten, TypeOK, B!Contents
    <2>2. AfterCore = memB
      <3>1. CASE memB[core.op.w] = core.op.v
        BY <1>2, <1>3, <2>1, <3>1, InstantOf, StoredTwice DEF StoreInv, OneStoreApart
      <3>2. CASE memB[core.op.w] # core.op.v
        <4>1. memB = cell /\ ~HostSeesStore /\ ~StoreDropped
          BY <1>2, <2>1, <3>2, StoredTwice
          DEF StoreInv, OneStoreApart, HostSeesStore, StoreVisible
        <4> QED
          BY <4>1, InstantOf
      <3> QED
        BY <3>1, <3>2
    <2> QED
      BY <1>1, <1>5, <2>1, <2>2, CellMoves DEF HostActs
  <1>6. CASE HostReqB /\ ~pending /\ apb.op.wr
    <2>1. /\ memB' = [memB EXCEPT ![apb.op.w] = apb.op.v]
          /\ cell' = [AfterCore EXCEPT ![apb.op.w] = apb.op.v]
      BY <1>6, SramBMoves, CellMoves DEF HostActs
    <2>2. AfterCore \in {cell, Stored(cell)} /\ memB \in {cell, Stored(cell)}
      BY InstantOf DEF StoreInv, OneStoreApart
    <2>3. CASE apb.op.w = core.op.w
      <3>1. [Stored(cell) EXCEPT ![apb.op.w] = apb.op.v] = [cell EXCEPT ![apb.op.w] = apb.op.v]
        BY <1>6, <2>3, HostOverwrites
      <3> QED
        BY <1>1, <2>1, <2>2, <3>1, CellMoves
    <2>4. CASE apb.op.w # core.op.w
      <3>1. memB'[core.op.w] = memB[core.op.w]
        BY <1>6, <2>1, <2>4, StoreWords, StoredTwice, HostWords, Overwriting
      <3>2. CASE memB[core.op.w] = core.op.v
        <4>1. AfterCore = memB
          BY <1>2, <1>3, <3>1, <3>2, InstantOf, StoredTwice DEF StoreInv, OneStoreApart
        <4> QED
          BY <1>1, <2>1, <4>1, CellMoves
      <3>3. CASE memB[core.op.w] # core.op.v
        <4>1. memB = cell /\ ~HostSeesStore /\ ~StoreDropped
          BY <1>2, <3>1, <3>3, StoredTwice
          DEF StoreInv, OneStoreApart, HostSeesStore, StoreVisible
        <4> QED
          BY <1>1, <2>1, <4>1, InstantOf, CellMoves
      <3> QED
        BY <3>2, <3>3
    <2> QED
      BY <2>3, <2>4
  <1> QED
    BY <1>4, <1>5, <1>6

\* A store that is refused: two edges at most, the second of them a host's.
LEMMA StoreRefused ==
  ASSUME N = 2, TypeOK, HNext, StoreInv, StoreHeld, ~Accepted, core' = core
  PROVE  OneStoreApart'
  <1> USE DEF StoreInv
  <1>1. /\ StoreHeld' /\ ~StoreDropped /\ Stored(cell)' = Stored(cell')
        /\ early' = (early \/ HostSeesStore)
    BY CellMoves DEF StoreHeld, StoreDropped, Idle, Stored
  <1>2. phase \in {0, 1} /\ phase' = 1 - phase
    BY PhaseAtTwo
  <1>3. CASE ~HostReqB
    <2>1. phase = 0
      BY <1>2, <1>3, PhaseAtTwo, StoreWords
      DEF HNext, Edge, CoreStep, CoreReset, Accepted, Busy, Idle
    <2>2. ~early /\ memB = cell /\ ~HostSeesStore
      BY <1>3, <2>1 DEF OneStoreApart, BetweenFreeEdges, HostSeesStore, HostActs
    <2>3. memB' = Stored(cell) /\ cell' = cell /\ ~early'
      BY <1>1, <1>3, <2>2, StoreWords, SramBMoves, InstantOf, CellMoves DEF HostActs
    <2>4. HostReqB' => ~pending'
      BY <1>3, HostMoves, HostBegun DEF HostReqB, Access, Idle
    <2> QED
      BY <1>1, <1>2, <2>1, <2>3, <2>4 DEF OneStoreApart, BetweenFreeEdges
  <1>4. CASE HostReqB /\ pending
    <2>1. memB' = memB
      BY <1>4, HostWords, SramBMoves DEF HostWritten, TypeOK, B!Contents
    <2>2. cell' = cell /\ early' = early
      BY <1>1, <1>4, InstantOf, CellMoves DEF HostActs, HostSeesStore, OneStoreApart, TypeOK
    <2>3. early \/ memB # cell => phase = 0 /\ phase' = 1
      BY <1>2, <1>4 DEF OneStoreApart, BetweenFreeEdges
    <2>4. apb'.st # "access" /\ ~HostReqB'
      BY <1>4, HostMoves, HostBegun DEF Idle, HostReqB, Access
    <2> QED
      BY <1>1, <1>2, <2>1, <2>2, <2>3, <2>4 DEF OneStoreApart, BetweenFreeEdges
  <1>5. CASE HostReqB /\ ~pending
    <2>1. HostReqB' /\ pending'
      BY <1>5, HostMoves DEF HostReqB, Access
    <2>2. ~early
      BY <1>2, <1>5 DEF OneStoreApart, BetweenFreeEdges, HostReqB, Access
    <2>3. phase = 0 => memB = cell
      BY <1>5 DEF OneStoreApart, BetweenFreeEdges
    <2>4. early' => phase' = 0
      <3>1. HostSeesStore => memB # cell
        BY DEF HostSeesStore, StoreVisible
      <3>2. early' => HostSeesStore
        BY <1>1, <2>2, Zenon
      <3> QED
        BY <1>2, <2>3, <3>1, <3>2
    <2>5. memB' # cell' => phase' = 0
      <3>1. phase = 0 => AfterCore = cell
        BY <1>1, <2>3, InstantOf DEF HostSeesStore, StoreVisible
      <3>2. phase = 0 => memB' = cell'
        BY <1>5, <2>3, <3>1, SramBMoves, CellMoves DEF HostActs
      <3> QED
        BY <1>2, <3>2
    <2>6. CASE ~apb.op.wr
      <3>1. memB' = memB /\ cell' = AfterCore
        BY <1>5, <2>6, SramBMoves, CellMoves
      <3>2. CASE HostSeesStore
        <4>1. memB = Stored(cell) /\ cell' = Stored(cell)
          BY <2>2, <3>1, <3>2, InstantOf DEF OneStoreApart, HostSeesStore, StoreVisible
        <4> QED
          BY <1>1, <1>2, <2>1, <2>4, <2>5, <3>1, <4>1, StoredTwice
          DEF OneStoreApart, BetweenFreeEdges
      <3>3. CASE ~HostSeesStore
        <4>1. cell' = cell /\ ~early'
          BY <1>1, <2>2, <3>1, <3>3, InstantOf
        <4> QED
          BY <1>1, <1>2, <2>1, <2>5, <3>1, <4>1 DEF OneStoreApart, BetweenFreeEdges
      <3> QED
        BY <3>2, <3>3
    <2>7. CASE apb.op.wr
      <3>1. ~HostSeesStore /\ AfterCore = cell /\ ~early'
        BY <1>1, <2>2, <2>7, InstantOf DEF HostSeesStore
      <3>2. /\ memB' = [memB EXCEPT ![apb.op.w] = apb.op.v]
            /\ cell' = [cell EXCEPT ![apb.op.w] = apb.op.v]
        BY <1>5, <2>7, <3>1, SramBMoves, CellMoves DEF HostActs
      <3>3. memB' = cell' \/ memB' = Stored(cell')
        BY <1>5, <2>7, <3>2, HostOverwrites DEF OneStoreApart
      <3> QED
        BY <1>1, <1>2, <2>1, <2>5, <3>1, <3>3 DEF OneStoreApart, BetweenFreeEdges
    <2> QED
      BY <2>6, <2>7
  <1> QED
    BY <1>3, <1>4, <1>5

LEMMA StoreInvStep ==
  ASSUME N = 2, TypeOK, StoreInv, [HNext]_<<vars, hvars>> PROVE StoreInv'
  <1>1. CASE HNext
    <2>1. memB' = cell' /\ ~early' => OneStoreApart'
      BY DEF OneStoreApart
    <2>2. CASE StoreHeld /\ ~Accepted
      BY <1>1, <2>1, <2>2, CoreMoves, StoreWords, StoreLeft, StoreRefused, HostWrittenStep
      DEF StoreInv
    <2> QED
      BY <1>1, <2>1, <2>2, NoStore, StoreAccepted, HostWrittenStep DEF StoreInv
  <1>2. CASE UNCHANGED <<vars, hvars>>
    BY <1>2 DEF vars, hvars, StoreInv, OneStoreApart, HostWritten, StoreHeld, Stored,
                BetweenFreeEdges, HostReqB, Access
  <1> QED
    BY <1>1, <1>2

\* At N = 2 the store that the core's port repeats on every granted edge has one
\* effect: whenever none is under way SRAM B holds what the order of the accesses
\* says, also where a host reads the store early and writes the word again.
THEOREM StoresWrittenOnce == ASSUME N = 2 PROVE HSpec => []StoreWrittenOnce
  <1>1. StoreInv => StoreWrittenOnce
    BY DEF StoreInv, OneStoreApart, StoreWrittenOnce
  <1>2. TypeOK /\ StoreInv /\ [HNext]_<<vars, hvars>> => StoreInv'
    BY StoreInvStep
  <1> QED
    BY <1>1, <1>2, StoreInvInit, TypeCorrect, PTL DEF HSpec
-----------------------------------------------------------------------------
(* The refinement.  In one edge the core's access takes effect first, from    *)
(* cell to AfterCore, and the host's second, from AfterCore to cell'.         *)

LEMMA MappedOps ==
  ASSUME NEW op \in HostOps \cup CoreOps, op.sel = "B"
  PROVE  /\ MappedOp(op) \in Atomic!Ops
         /\ (MappedOp(op).wr <=> op.wr) /\ MappedOp(op).w = op.w
         /\ op.wr => MappedOp(op).v = op.v
  <1>1. op.wr \in BOOLEAN /\ op.w \in WordsB /\ (op.wr => op.v \in Values)
    BY OpTypes
  <1>2. CASE op.wr
    <2>1. MappedOp(op) = [wr |-> TRUE, w |-> op.w, v |-> op.v]
      BY <1>2 DEF MappedOp
    <2>2. MappedOp(op) \in Atomic!Ops
      <3>1. op.w \in WordsB /\ op.v \in Values
        BY <1>1, <1>2
      <3>2. [wr |-> TRUE, w |-> op.w, v |-> op.v] \in Atomic!Ops
        BY <3>1 DEF Atomic!Ops
      <3> QED
        BY <2>1, <3>2
    <2>3. MappedOp(op).wr /\ MappedOp(op).w = op.w /\ MappedOp(op).v = op.v
      BY <2>1
    <2> QED
      BY <1>2, <2>2, <2>3
  <1>3. CASE ~op.wr
    <2>1. MappedOp(op) = [wr |-> FALSE, w |-> op.w]
      BY <1>3 DEF MappedOp
    <2>2. MappedOp(op) \in Atomic!Ops
      <3>1. op.w \in WordsB
        BY <1>1
      <3>2. [wr |-> FALSE, w |-> op.w] \in Atomic!Ops
        BY <3>1 DEF Atomic!Ops
      <3> QED
        BY <2>1, <3>2
    <2>3. ~MappedOp(op).wr /\ MappedOp(op).w = op.w
      BY <2>1
    <2> QED
      BY <1>3, <2>2, <2>3
  <1> QED
    BY <1>2, <1>3

\* The host.
LEMMA MappedHostBegins ==
  ASSUME HostBegin(HostOps) PROVE Atomic!Begin(MappedHost')
  <1>1. CASE apb' = Idle
    <2>1. MappedHost' = Atomic!Rest
      BY <1>1 DEF MappedHost, Idle, Atomic!Rest
    <2> QED
      BY <2>1 DEF Atomic!Begin
  <1>2. CASE \E op \in HostOps : apb' = Setup(op)
    <2>1. PICK op \in HostOps : apb' = Setup(op)
      BY <1>2
    <2>2. apb'.st = "setup" /\ apb'.op = op
      BY <2>1 DEF Setup
    <2>3. CASE op.sel = "B"
      <3>1. MappedHost' = Atomic!Call(MappedOp(op))
        BY <2>2, <2>3 DEF MappedHost, Atomic!Call, MappedOp
      <3> QED
        BY <2>3, <3>1, MappedOps DEF Atomic!Begin
    <2>4. CASE op.sel # "B"
      <3>1. MappedHost' = Atomic!Rest
        BY <2>2, <2>4 DEF MappedHost, Atomic!Rest
      <3> QED
        BY <3>1 DEF Atomic!Begin
    <2> QED
      BY <2>3, <2>4
  <1> QED
    BY <1>1, <1>2 DEF HostBegin

\* What a host reads is what the order of accesses says, a store it is the first
\* to see included.
LEMMA HostReadsOrder ==
  ASSUME TypeOK, HNext, StoreInv, HostActs, ~apb.op.wr
  PROVE  memB[apb.op.w] = AfterCore[apb.op.w]
  <1> USE DEF StoreInv
  <1>1. HostReqB /\ ~pending /\ memB' = memB
    BY SramBMoves DEF HostActs
  <1>2. CASE ~StoreHeld
    BY <1>2, InstantOf DEF OneStoreApart
  <1>3. CASE StoreHeld /\ memB[core.op.w] = core.op.v
    <2>1. memB = Stored(cell)
      BY <1>3, StoredTwice DEF OneStoreApart
    <2>2. AfterCore = cell \/ AfterCore = Stored(cell)
      BY InstantOf
    <2>3. apb.op.w # core.op.w => memB[apb.op.w] = cell[apb.op.w]
      BY <1>1, <1>3, <2>1, HostWords, StoreWords, StoredTwice, Overwriting DEF Stored
    <2>4. CASE apb.op.w # core.op.w
      BY <2>1, <2>2, <2>3, <2>4
    <2>5. CASE apb.op.w = core.op.w /\ cell[core.op.w] # core.op.v
      <3>1. HostSeesStore /\ ~early
        BY <1>3, <2>5 DEF HostSeesStore, StoreVisible, OneStoreApart
      <3> QED
        BY <1>3, <2>1, <3>1, InstantOf
    <2>6. CASE apb.op.w = core.op.w /\ cell[core.op.w] = core.op.v
      BY <1>3, <2>1, <2>2, <2>6, StoredTwice
    <2> QED
      BY <2>4, <2>5, <2>6
  <1>4. CASE StoreHeld /\ memB[core.op.w] # core.op.v
    <2>1. memB = cell
      BY <1>4, StoredTwice DEF OneStoreApart
    <2>2. ~Accepted /\ ~HostSeesStore /\ ~StoreDropped
      BY <1>1, <1>4, StoreWords DEF Accepted, Busy, HostSeesStore, StoreVisible, StoreDropped
    <2> QED
      BY <2>1, <2>2, InstantOf
  <1> QED
    BY <1>2, <1>3, <1>4

LEMMA HostRefines ==
  ASSUME TypeOK, HNext, StoreInv
  PROVE  Atomic!Move(MappedHost, MappedHost', AfterCore, cell')
  <1>1. CASE HostActs
    <2>1. apb.st = "access" /\ apb.op.sel = "B" /\ ~pending /\ apb' = apb /\ pending'
          /\ hostSrc' = "B" /\ doB' = memB[apb.op.w] /\ apb.op \in HostOps
      BY <1>1, HostWords, HostMoves, SramBMoves DEF HostActs
    <2>2. MappedHost = Atomic!Call(MappedOp(apb.op))
      BY <2>1 DEF MappedHost, MappedOp, Atomic!Call
    <2>3. MappedHost.st = "call" /\ MappedHost.op = MappedOp(apb.op)
      BY <2>2 DEF Atomic!Call
    <2>4. (MappedOp(apb.op).wr <=> apb.op.wr) /\ MappedOp(apb.op).w = apb.op.w
          /\ (apb.op.wr => MappedOp(apb.op).v = apb.op.v)
      BY <2>1, MappedOps
    <2>5. CASE apb.op.wr
      <3>1. MappedHost' = [st |-> "done"]
        BY <2>1, <2>5 DEF MappedHost
      <3>2. cell' = Atomic!Effect(MappedOp(apb.op), AfterCore)
        BY <1>1, <2>4, <2>5, CellMoves DEF Atomic!Effect
      <3>3. MappedHost' = Atomic!Answer(MappedOp(apb.op), AfterCore)
        BY <2>4, <2>5, <3>1 DEF Atomic!Answer
      <3> QED
        BY <2>3, <3>2, <3>3 DEF Atomic!Move, Atomic!TakeEffect
    <2>6. CASE ~apb.op.wr
      <3>1. MappedHost' = [st |-> "done", v |-> memB[apb.op.w]]
        BY <2>1, <2>6 DEF MappedHost, HostRdata
      <3>2. cell' = Atomic!Effect(MappedOp(apb.op), AfterCore)
        BY <2>4, <2>6, CellMoves DEF Atomic!Effect
      <3>3. MappedHost' = Atomic!Answer(MappedOp(apb.op), AfterCore)
        BY <1>1, <2>4, <2>6, <3>1, HostReadsOrder DEF Atomic!Answer
      <3> QED
        BY <2>3, <3>2, <3>3 DEF Atomic!Move, Atomic!TakeEffect
    <2> QED
      BY <2>5, <2>6
  <1>2. CASE ~HostActs
    <2>1. cell' = AfterCore
      BY <1>2, CellMoves
    <2>2. MappedHost' = MappedHost \/ (MappedHost.st # "call" /\ Atomic!Begin(MappedHost'))
      <3>1. CASE apb.st = "idle" \/ apb.op.sel # "B"
        <4>1. MappedHost = Atomic!Rest /\ MappedHost.st # "call"
          BY <3>1 DEF MappedHost, Atomic!Rest
        <4>2. HostBegin(HostOps) \/ (apb'.st = "access" /\ apb'.op = apb.op) \/ apb' = apb
          BY HostMoves, UserTypes DEF InAccess
        <4>3. CASE (apb'.st = "access" /\ apb'.op = apb.op /\ apb.op.sel # "B") \/ apb' = apb
          <5>1. MappedHost' = Atomic!Rest
            BY <3>1, <4>3 DEF MappedHost, Atomic!Rest
          <5> QED
            BY <4>1, <5>1
        <4>4. apb.st = "idle" => HostBegin(HostOps)
          BY HostMoves
        <4> QED
          BY <3>1, <4>1, <4>2, <4>3, <4>4, MappedHostBegins
      <3>2. CASE apb.st = "setup" /\ apb.op.sel = "B"
        <4>1. apb'.st = "access" /\ apb'.op = apb.op /\ ~pending'
          BY <3>2, HostMoves DEF InAccess
        <4>2. MappedHost' = MappedHost
          BY <3>2, <4>1 DEF MappedHost, MappedOp
        <4> QED
          BY <4>2
      <3>3. CASE apb.st = "access" /\ apb.op.sel = "B"
        <4>1. HostReqB /\ pending
          BY <1>2, <3>3 DEF HostActs, HostReqB, Access
        <4>2. MappedHost.st # "call"
          BY <3>3, <4>1 DEF MappedHost
        <4> QED
          BY <4>1, <4>2, HostMoves, MappedHostBegins
      <3> QED
        BY <3>1, <3>2, <3>3, UserTypes
    <2> QED
      BY <2>1, <2>2 DEF Atomic!Move, Atomic!Quiet
  <1> QED
    BY <1>1, <1>2

\* The core.
LEMMA MappedCoreBegins ==
  ASSUME CoreBegin(CoreOps), ~early' PROVE Atomic!Begin(MappedCore')
  <1>1. CASE core' = Idle
    <2>1. MappedCore' = Atomic!Rest
      BY <1>1 DEF MappedCore, Idle, Atomic!Rest
    <2> QED
      BY <2>1 DEF Atomic!Begin
  <1>2. CASE \E op \in CoreOps : core' = Request(op)
    <2>1. PICK op \in CoreOps : core' = Request(op)
      BY <1>2
    <2>2. core'.st = "req" /\ core'.op = op
      BY <2>1 DEF Request
    <2>3. CASE op.sel = "B"
      <3>1. MappedCore' = Atomic!Call(MappedOp(op))
        BY <2>2, <2>3 DEF MappedCore, Atomic!Call, MappedOp
      <3> QED
        BY <2>3, <3>1, MappedOps DEF Atomic!Begin
    <2>4. CASE op.sel # "B"
      <3>1. MappedCore' = Atomic!Rest
        BY <2>2, <2>4 DEF MappedCore, Atomic!Rest
      <3> QED
        BY <3>1 DEF Atomic!Begin
    <2> QED
      BY <2>3, <2>4
  <1> QED
    BY <1>1, <1>2 DEF CoreBegin

CoreMove == Atomic!Move(MappedCore, MappedCore', cell, AfterCore)
            \/ Atomic!Abandon(MappedCore', cell, AfterCore)

LEMMA IdleIsRest ==
  ASSUME core' = Idle PROVE MappedCore' = Atomic!Rest /\ Atomic!Begin(MappedCore')
  BY DEF MappedCore, Idle, Atomic!Rest, Atomic!Begin

LEMMA StoreRefines == ASSUME TypeOK, HNext, StoreInv, StoreHeld PROVE CoreMove
  <1> USE DEF CoreMove, Atomic!Move
  <1>1. /\ core.st = "req" /\ core.op.sel = "B" /\ core.op.wr /\ core.op \in CoreOps
        /\ core' = core \/ core' = Idle \/ (Accepted /\ CoreBegin(CoreOps))
    BY StoreWords, CoreMoves
  <1>2. Atomic!Effect(MappedOp(core.op), cell) = Stored(cell) /\ MappedOp(core.op).wr
    BY <1>1, MappedOps DEF Atomic!Effect, Stored
  <1>3. CASE early
    <2>1. AfterCore = cell /\ MappedCore = [st |-> "done"]
      BY <1>1, <1>3, InstantOf DEF MappedCore
    <2>2. CASE Accepted
      BY <1>1, <2>1, <2>2, CoreMoves, CellMoves, MappedCoreBegins DEF Atomic!Quiet
    <2>3. CASE ~Accepted /\ core' = Idle
      BY <2>1, <2>3, IdleIsRest DEF Atomic!Abandon
    <2>4. CASE ~Accepted /\ core' = core
      <3>1. early'
        BY <1>3, <2>4, CellMoves
      <3>2. MappedCore' = [st |-> "done"]
        BY <1>1, <2>4, <3>1 DEF MappedCore
      <3> QED
        BY <2>1, <3>2 DEF Atomic!Quiet
    <2> QED
      BY <1>1, <2>2, <2>3, <2>4
  <1>4. CASE ~early
    <2>1. MappedCore = Atomic!Call(MappedOp(core.op))
      BY <1>1, <1>4 DEF MappedCore, MappedOp, Atomic!Call
    <2>2. MappedCore.st = "call" /\ MappedCore.op = MappedOp(core.op)
      BY <2>1 DEF Atomic!Call
    <2>3. CASE Accepted
      <3>1. AfterCore = Stored(cell) /\ Atomic!Begin(MappedCore')
        BY <1>1, <1>4, <2>3, InstantOf, CoreMoves, CellMoves, MappedCoreBegins
      <3> QED
        BY <1>2, <2>2, <3>1 DEF Atomic!TakeEffectAndReturn
    <2>4. CASE ~Accepted /\ core' = Idle
      <3>1. AfterCore = cell \/ AfterCore = Stored(cell)
        BY InstantOf DEF AfterCore, Stored
      <3> QED
        BY <1>2, <2>2, <2>4, <3>1, IdleIsRest
        DEF Atomic!Abandon, Atomic!TakeEffectAndReturn
    <2>5. CASE ~Accepted /\ core' = core /\ HostSeesStore
      <3>1. AfterCore = Stored(cell) /\ early'
        BY <1>4, <2>5, InstantOf, CellMoves
      <3>2. MappedCore' = [st |-> "done"]
        BY <1>1, <2>5, <3>1 DEF MappedCore
      <3> QED
        BY <1>2, <2>2, <3>1, <3>2 DEF Atomic!TakeEffect, Atomic!Answer
    <2>6. CASE ~Accepted /\ core' = core /\ ~HostSeesStore
      <3>1. AfterCore = cell /\ ~early'
        <4>1. ~StoreDropped
          BY <1>1, <2>6 DEF StoreDropped, Idle
        <4> QED
          BY <1>4, <2>6, <4>1, InstantOf, CellMoves
      <3>2. MappedCore' = MappedCore
        BY <1>1, <1>4, <2>6, <3>1 DEF MappedCore, MappedOp
      <3> QED
        BY <3>1, <3>2 DEF Atomic!Quiet
    <2> QED
      BY <1>1, <2>3, <2>4, <2>5, <2>6
  <1> QED
    BY <1>3, <1>4

LEMMA LoadRefines ==
  ASSUME N = 2, TypeOK, HNext, StoreInv, LoadOnItsWay, LoadOnItsWay', ~StoreHeld
  PROVE  CoreMove
  <1> USE DEF CoreMove, Atomic!Move
  <1>1. AfterCore = cell /\ memB = cell /\ ~early /\ ~early'
    BY InstantOf, CellMoves DEF StoreInv, OneStoreApart
  <1>2. CASE core' = Idle
    BY <1>1, <1>2, IdleIsRest DEF Atomic!Abandon
  <1>3. CASE (core.st = "idle" \/ core.op.sel # "B") /\ core' # Idle
    <2>1. MappedCore = Atomic!Rest
      BY <1>3 DEF MappedCore, Atomic!Rest
    <2>2. \/ core' = core \/ CoreBegin(CoreOps)
          \/ core.st = "req" /\ core' = Await(core.op)
      <3>1. CASE core.st = "req" /\ Accepted
        BY <3>1, CoreMoves
      <3>2. CASE core.st = "req" /\ ~Accepted
        BY <1>3, <3>2, CoreMoves
      <3>3. CASE core.st # "req"
        BY <3>3, UserTypes, CoreMoves
      <3> QED
        BY <3>1, <3>2, <3>3
    <2>3. CASE CoreBegin(CoreOps)
      BY <1>1, <2>1, <2>3, MappedCoreBegins DEF Atomic!Quiet, Atomic!Rest
    <2>4. CASE core' = core \/ (core.st = "req" /\ core' = Await(core.op))
      <3>1. MappedCore' = Atomic!Rest
        BY <1>3, <2>4 DEF MappedCore, Await, Atomic!Rest
      <3> QED
        BY <1>1, <2>1, <3>1 DEF Atomic!Quiet
    <2> QED
      BY <2>2, <2>3, <2>4
  <1>4. CASE core.st = "req" /\ core.op.sel = "B" /\ core' # Idle
    <2>1. ~core.op.wr /\ core.op \in CoreOps
      BY <1>4, UserTypes DEF StoreHeld
    <2>2. MappedCore = Atomic!Call(MappedOp(core.op))
      BY <1>1, <1>4 DEF MappedCore, MappedOp, Atomic!Call
    <2>3. CASE ~Accepted
      <3>1. MappedCore' = MappedCore
        BY <1>1, <1>4, <2>3, CoreMoves DEF MappedCore, MappedOp
      <3> QED
        BY <1>1, <3>1 DEF Atomic!Quiet
    <2>4. CASE Accepted
      <3>1. core' = Await(core.op) /\ ClkIop /\ CoreReqB /\ ~HostReqB
        BY <1>4, <2>1, <2>4, CoreMoves DEF Accepted, Busy, CoreReqB, Active
      <3>2. doB' = cell[core.op.w] /\ grantQ' /\ phase' = 0 /\ ~ClkIop'
        <4>1. doB' = memB[core.op.w]
          BY <3>1, SramBMoves
        <4>2. grantQ'
          BY <3>1 DEF HNext, Edge, CaptureB, GrantCoreB
        <4>3. phase' = 0 /\ ~ClkIop'
          BY <3>1, PhaseAtTwo DEF ClkIop
        <4> QED
          BY <1>1, <4>1, <4>2, <4>3
      <3>3. MappedCore' = [st |-> "done", v |-> cell[core.op.w]]
        BY <1>4, <3>1, <3>2 DEF MappedCore, Arriving, Await
      <3>4. /\ Atomic!Answer(MappedOp(core.op), cell) = [st |-> "done", v |-> cell[core.op.w]]
            /\ Atomic!Effect(MappedOp(core.op), cell) = cell
        BY <1>4, <2>1, MappedOps DEF Atomic!Answer, Atomic!Effect
      <3> QED
        BY <1>1, <2>2, <3>3, <3>4 DEF Atomic!TakeEffect, Atomic!Call
    <2> QED
      BY <2>3, <2>4
  <1>5. CASE core.st = "wait" /\ core.op.sel = "B"
    <2>1. CASE CoreBegin(CoreOps)
      BY <1>1, <1>5, <2>1, MappedCoreBegins DEF MappedCore, Atomic!Quiet
    <2>2. CASE core' = core /\ ~ClkIop
      <3>1. phase = 0 /\ phase' = 1 /\ ClkIop'
        BY <2>2, PhaseAtTwo DEF ClkIop
      <3>2. Arriving = held
        BY <1>5, <2>2, <3>1 DEF Arriving, LoadOnItsWay
      <3>3. Arriving' = held'
        BY <1>5, <2>2, <3>1 DEF Arriving, LoadOnItsWay, CoreRdata
      <3>4. held' = held
        BY <1>5 DEF HNext, HistoryStep, Accepted
      <3>5. MappedCore' = MappedCore
        BY <1>5, <2>2, <3>2, <3>3, <3>4 DEF MappedCore
      <3> QED
        BY <1>1, <3>5 DEF Atomic!Quiet
    <2> QED
      BY <1>5, <2>1, <2>2, CoreMoves
  <1> QED
    BY <1>2, <1>3, <1>4, <1>5, UserTypes

LEMMA AtomicInit == HInit => Atomic!Init
  <1> SUFFICES ASSUME HInit PROVE Atomic!Init
    OBVIOUS
  <1>1. cell \in [WordsB -> Values]
    BY DEF HInit, Init, HistoryInit, B!PowerUp, B!Contents
  <1>2. MappedHost = Atomic!Rest /\ MappedCore = Atomic!Rest
    BY DEF HInit, Init, BusInit, Idle, MappedHost, MappedCore, Atomic!Rest
  <1> QED
    BY <1>1, <1>2 DEF Atomic!Init

LEMMA AtomicStep ==
  ASSUME N = 2, TypeOK, StoreInv, LoadOnItsWay, LoadOnItsWay', [HNext]_<<vars, hvars>>
  PROVE  [Atomic!Next]_<<cell, MappedHost, MappedCore>>
  <1>1. CASE HNext
    <2>1. Atomic!Move(MappedHost, MappedHost', AfterCore, cell')
      BY <1>1, HostRefines
    <2>2. CoreMove
      BY <1>1, StoreRefines, LoadRefines
    <2>3. AfterCore \in [WordsB -> Values]
      BY StoredTwice, InstantOf DEF TypeOK, B!Contents, AfterCore, Stored
    <2> QED
      BY <2>1, <2>2, <2>3 DEF CoreMove, Atomic!Next
  <1>2. CASE UNCHANGED <<vars, hvars>>
    BY <1>2 DEF vars, hvars, MappedHost, MappedCore, HostRdata, Arriving, CoreRdata, ClkIop
  <1> QED
    BY <1>1, <1>2

\* At N = 2, whatever the two masters do and however the core is reset, SRAM B
\* and its multiplexer are one atomic memory: each access of each master has one
\* instant between its call and its return, and what a read returns is what the
\* memory holds at that instant.
THEOREM MailboxIsAtomic == ASSUME N = 2 PROVE HSpec => AtomicMailbox
  <1>1. TypeOK /\ StoreInv /\ [HNext]_<<vars, hvars>> => StoreInv'
    BY StoreInvStep
  <1>2. TypeOK /\ LoadOnItsWay /\ [HNext]_<<vars, hvars>> => LoadOnItsWay'
    BY LoadStep
  <1>3. TypeOK /\ StoreInv /\ LoadOnItsWay /\ LoadOnItsWay' /\ [HNext]_<<vars, hvars>>
            => [Atomic!Next]_<<cell, MappedHost, MappedCore>>
    BY AtomicStep
  <1> QED
    BY <1>1, <1>2, <1>3, StoreInvInit, LoadInit, AtomicInit, TypeCorrect, PTL
    DEF HSpec, AtomicMailbox, Atomic!Spec
=============================================================================
