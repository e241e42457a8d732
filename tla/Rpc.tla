--------------------------------- MODULE Rpc --------------------------------
(***************************************************************************)
(* A remote procedure call through the whole macro: attoio_rpc() of        *)
(* host_lib/libattoio.c on the APB side, attoio_rpc_service() of           *)
(* sw/common/attoio_rpc.c in the IOP's interrupt handler, and between them *)
(* Memmux (the mailbox) and Ctrl (doorbells, reset), edge by edge.         *)
(*                                                                         *)
(* Mailbox words: "tok" is mbox[0], the sentinel; "arg" is mbox[1..], the  *)
(* command and its arguments, which the reply overwrites as PADCTL_GET's   *)
(* does; "st" is mbox[31].  Call number i asks with i and must be answered *)
(* with Reply(i) and Status(i), whatever the group and the operation; any  *)
(* other word is refused with EINVAL.  Both programs take any time between *)
(* two bus accesses.                                                       *)
(***************************************************************************)
EXTENDS Memmux
CONSTANTS Calls,       \* how many calls the host makes at most
          Reloads,     \* how many times it reloads the firmware in between
          PollLimited  \* poll_limit is not 0: attoio_wait_c2h may give up
ACK == 0
REQUEST == 2 * Calls + 1
Reply(i) == Calls + i
EINVAL == 2 * Calls + 2
Status(i) == IF i \in 1..Calls THEN i ELSE EINVAL
ASSUME RpcAssumption ==
    /\ WordsB = {"tok", "arg", "st"} /\ WordsA = {"fw"}
    /\ Values = 0..EINVAL
    /\ Calls \in Nat /\ Reloads \in Nat /\ PollLimited \in BOOLEAN

VARIABLES h2c, c2h, nmi, nmiPulse,   \* the rest of Ctrl
          hpc,      \* the host: which access it makes next, "rest" between calls
          call,     \* the number of the host's present or last call
          gotSt,    \* the status it read
          gotReply, \* the reply it read, 0 while it has none for the call
          gaveUp,   \* a call has given up since power-up
          reloads,
          ipc,      \* the IOP: the access of attoio_rpc_service() it makes next
          cmd,      \* what it read from mbox[1..]
          served    \* how often each call was carried out

C == INSTANCE Ctrl

hostVars == <<hpc, call, gotSt, gotReply, gaveUp, reloads>>
iopVars == <<ipc, cmd, served>>
rpcVars == <<vars, h2c, c2h, nmi, nmiPulse, hostVars, iopVars>>

WriteB(w, v) == [sel |-> "B", wr |-> TRUE, w |-> w, v |-> v]
ReadB(w) == [sel |-> "B", wr |-> FALSE, w |-> w]
SetBit(reg) == [sel |-> reg, wr |-> TRUE, v |-> 1]
GetBit(reg) == [sel |-> reg, wr |-> FALSE]
Control(reset) == [sel |-> "IOP_CTRL", wr |-> TRUE, reset |-> reset, nmi |-> FALSE]
LoadWord == [sel |-> "A", wr |-> TRUE, w |-> "fw", v |-> 1]
-----------------------------------------------------------------------------
(* The host: attoio_load_firmware, attoio_release_reset, attoio_rpc. *)

HostOp(pc, i) ==
    CASE pc = "hold" -> {Control(TRUE)}
      [] pc = "load" -> {LoadWord}
      [] pc = "release" -> {Control(FALSE)}
      [] pc = "args" -> {WriteB("arg", i)}
      [] pc = "sentinel" -> {WriteB("tok", REQUEST)}
      [] pc = "ring" -> {SetBit("H2C")}
      [] pc = "wait" -> {GetBit("C2H")}
      [] pc = "clear" -> {SetBit("C2H")}
      [] pc = "status" -> {ReadB("st")}
      [] pc = "reply" -> {ReadB("arg")}
      [] pc = "rest" -> {}

\* Mutants: the doorbell before the sentinel; C2H not cleared.
HostAfter_RingFirst(pc) ==
    CASE pc = "hold" -> "load" [] pc = "load" -> "release" [] pc = "release" -> "rest"
      [] pc = "args" -> "ring" [] pc = "ring" -> "sentinel" [] pc = "sentinel" -> "wait"
      [] pc = "wait" -> "clear"
      [] pc = "clear" -> "status" [] pc = "status" -> "reply" [] pc = "reply" -> "rest"
HostAfter_NoClear(pc) ==
    CASE pc = "hold" -> "load" [] pc = "load" -> "release" [] pc = "release" -> "rest"
      [] pc = "args" -> "sentinel" [] pc = "sentinel" -> "ring" [] pc = "ring" -> "wait"
      [] pc = "wait" -> "status" [] pc = "status" -> "reply" [] pc = "reply" -> "rest"
HostAfter(pc) ==
    CASE pc = "hold" -> "load" [] pc = "load" -> "release" [] pc = "release" -> "rest"
      [] pc = "args" -> "sentinel" [] pc = "sentinel" -> "ring" [] pc = "ring" -> "wait"
      [] pc = "wait" -> "clear"
      [] pc = "clear" -> "status" [] pc = "status" -> "reply" [] pc = "reply" -> "rest"

HostDone == apb.st = "access" /\ HostReady

StartCall ==
    /\ hpc = "rest" /\ call < Calls
    /\ hpc' = "args" /\ call' = call + 1
    /\ gotSt' = 0 /\ gotReply' = 0 /\ UNCHANGED <<gaveUp, reloads>>
StartReload ==
    /\ hpc = "rest" /\ reloads < Reloads
    /\ hpc' = "hold" /\ reloads' = reloads + 1
    /\ UNCHANGED <<call, gotSt, gotReply, gaveUp>>
\* Mutant: the acknowledgement of the ring is taken for the answer.
Answered_Acked == ~C!Doorbell("H2C")
Answered == C!Doorbell("C2H")
PollAgain == hpc = "wait" /\ HostDone /\ ~Answered /\ UNCHANGED hostVars
\* attoio_wait_c2h returns -1, and so does attoio_rpc.
GiveUp ==
    /\ hpc = "wait" /\ HostDone /\ ~Answered /\ PollLimited
    /\ hpc' = "rest" /\ gaveUp' = TRUE
    /\ UNCHANGED <<call, gotSt, gotReply, reloads>>
AccessReturns ==
    /\ HostDone /\ (hpc = "wait" => Answered)
    /\ hpc' = HostAfter(hpc)
    /\ gotSt' = IF hpc = "status" THEN HostRdata ELSE gotSt
    /\ gotReply' = IF hpc = "reply" THEN HostRdata ELSE gotReply
    /\ UNCHANGED <<call, gaveUp, reloads>>
HostProgram ==
    \/ ~HostDone /\ UNCHANGED hostVars
    \/ StartCall \/ StartReload \/ PollAgain \/ GiveUp \/ AccessReturns
-----------------------------------------------------------------------------
(* The IOP: attoio_rpc_service(), called by the interrupt handler. *)

IopOp(pc) ==
    CASE pc = "pending" -> {GetBit("H2C")}
      [] pc = "ack" -> {SetBit("H2C")}
      [] pc = "token" -> {ReadB("tok")}
      [] pc = "command" -> {ReadB("arg")}
      [] pc = "reply" -> {WriteB("arg", Reply(cmd))}
      [] pc = "status" -> {WriteB("st", Status(cmd))}
      [] pc = "done" -> {WriteB("tok", ACK)}
      [] pc = "raise" -> {SetBit("C2H")}
      [] pc \in {"boot", "main"} -> {}

\* The dispatcher's accesses in its order.  Mutants: C2H before the status;
\* H2C acknowledged last; H2C not acknowledged.
Ordered(pcs, pc) == pcs[1 + CHOOSE i \in DOMAIN pcs : pcs[i] = pc]
IopAfter_RaiseEarly(pc) ==
    Ordered(<<"pending", "ack", "token", "command", "reply", "raise", "status",
              "done", "main">>, pc)
IopAfter_AckLate(pc) ==
    Ordered(<<"pending", "token", "command", "reply", "status", "done", "raise",
              "ack", "main">>, pc)
IopAfter_NoAck(pc) ==
    Ordered(<<"pending", "token", "command", "reply", "status", "done", "raise",
              "main">>, pc)
IopAfter(pc) ==
    Ordered(<<"pending", "ack", "token", "command", "reply", "status", "done",
              "raise", "main">>, pc)

IopData == IF coreSrc = "mmio" THEN C!Doorbell(core.op.sel) ELSE CoreRdata
CoreDone == /\ ClkIop /\ ~iopReset
            /\ \/ core.st = "wait"
               \/ core.st = "req" /\ ~Busy /\ core.op.wr

\* No doorbell after all, or no request in the mailbox: the service returns.
NothingToDo == \/ ipc = "pending" /\ ~IopData
               \/ ipc = "token" /\ IopData # REQUEST
\* rpc_padctl() returns before it writes a reply.  Mutant: no bound check.
Refused_Unchecked == FALSE
Refused == ipc = "command" /\ IopData \notin 1..Calls
ServiceStep ==
    /\ CoreDone
    /\ ipc' = IF NothingToDo THEN "main"
              ELSE IF Refused THEN IopAfter("reply") ELSE IopAfter(ipc)
    /\ cmd' = IF ipc = "command" THEN IopData ELSE cmd
    /\ served' = IF ipc = "command" /\ IopData \in 1..Calls
                 THEN [served EXCEPT ![IopData] = @ + 1] ELSE served
\* crt0 and main() up to the enabling of interrupts, mailbox untouched.
Boot == ipc = "boot" /\ ipc' = "main" /\ UNCHANGED <<cmd, served>>
TakeInterrupt == ipc = "main" /\ h2c /\ ipc' = "pending" /\ UNCHANGED <<cmd, served>>
IopRests == UNCHANGED iopVars
IopProgram ==
    IF iopReset
    THEN /\ ipc' = IF core' = Idle THEN "boot" ELSE ipc
         /\ UNCHANGED <<cmd, served>>
    ELSE \/ ServiceStep
         \/ ClkIop /\ core.st = "idle" /\ (Boot \/ TakeInterrupt)
         \/ ~CoreDone /\ IopRests
-----------------------------------------------------------------------------
RpcInit ==
    /\ BusInit /\ C!CtrlInit
    /\ memA = [w \in WordsA |-> 0] /\ doA = 0 /\ doB = 0
    \* The library does not clear the mailbox: a sentinel may be there.
    /\ \E v \in {ACK, REQUEST} : memB = [w \in WordsB |-> v]
    /\ coreSrc = "A" /\ grantQ = FALSE /\ rdataQ = Zero
    /\ hostSrc = "A" /\ pending = FALSE
    /\ hpc = "hold" /\ call = 0 /\ gotSt = 0 /\ gotReply = 0 /\ gaveUp = FALSE
    /\ reloads = 0
    /\ ipc = "boot" /\ cmd = 0 /\ served = [i \in 1..Calls |-> 0]

RpcEdge ==
    /\ HostProgram
    /\ HostStep(HostOp(hpc', call'), HostReady)
    /\ CoreStep(IF core.st = "idle" THEN IopOp(ipc) ELSE {}, Busy, iopReset)
    /\ IopProgram
    /\ SramA /\ SramB
    /\ CoreSource /\ CaptureB /\ HostSource
    /\ C!CtrlStep
    /\ ClockStep

\* Neither program stops for ever between two accesses of a call.
HostGoesOn == RpcEdge /\ hpc # "rest" /\ apb = Idle /\ apb' # Idle
IopGoesOn == RpcEdge /\ core = Idle /\ (core' # Idle \/ ipc' # ipc)

RpcSpec == /\ RpcInit /\ [][RpcEdge]_rpcVars
           /\ WF_rpcVars(RpcEdge) /\ WF_rpcVars(HostGoesOn) /\ SF_rpcVars(IopGoesOn)
-----------------------------------------------------------------------------
\* The types; a word that is no request is never answered with a reply.
RpcTypeOK ==
    /\ phase \in 0..(N - 1)
    /\ apb = Idle \/ apb.st \in {"setup", "access"}
    /\ core = Idle \/ core.st \in {"req", "wait"}
    /\ memB \in B!Contents /\ memB["arg"] \in 0..REQUEST /\ doB \in Values /\ rdataQ \in Values
    /\ <<h2c, c2h, iopReset, nmi, nmiPulse>> \in BOOLEAN \X BOOLEAN \X BOOLEAN \X BOOLEAN \X BOOLEAN
    /\ call \in 0..Calls /\ gotSt \in Values /\ gotReply \in Values
    /\ cmd \in Values /\ served \in [1..Calls -> Nat]

\* A call that returns 0 returns its own status and its own reply, never those
\* of an earlier call: libattoio.h, "ACK received, status == 0".
ReplyIsForCall ==
    gotReply # 0 => gotSt = Status(call) /\ gotReply = Reply(call)

\* The same while no call has given up: whatever the two clocks, two programs
\* and firmware reloads do, the doorbells and the sentinel pair each answer
\* with its call.
AnswerInStep == ~gaveUp => ReplyIsForCall

\* No request is carried out twice, and one that has been answered was carried
\* out, while no call has given up.
ServedOnce ==
    ~gaveUp => /\ \A i \in 1..Calls : served[i] <= 1
               /\ gotReply # 0 => served[call] = 1

\* The dispatcher never takes its "rang but no valid RPC request" exit while no
\* call has given up: a doorbell that is seen was rung after the sentinel was
\* written and before the acknowledgement of an earlier one.
NoRequestIgnored ==
    (ipc = "token" /\ core.st = "wait" /\ ClkIop /\ ~gaveUp) => IopData = REQUEST

\* Where the present call is for its caller.
InCall == {"args", "sentinel", "ring", "wait", "clear", "status", "reply"}
Stage == IF gaveUp THEN "lost"
         ELSE IF hpc \notin InCall THEN "rest"
         ELSE IF served[call] = 0 THEN "asked" ELSE "carried"
Result == IF gotReply = 0 THEN {} ELSE {<<gotSt, gotReply>>}
AnswerTo == [i \in 1..Calls |-> <<Status(i), Reply(i)>>]
Remote == INSTANCE RemoteCall
          WITH Answers <- AnswerTo, stage <- Stage, carried <- served, result <- Result

\* The library, the mailbox, the doorbells and the service make one remote call:
\* asked, carried out once, answered, in this order and with this call's answer,
\* until a call gives up.
CallsKept == Remote!Spec

\* Every call returns without its poll limit: no ring, no request and no answer
\* is lost between the two clocks, and neither side waits for the other.
CallReturns == (hpc = "wait" /\ ~gaveUp) ~> (hpc = "rest")

\* Giving up leaves nothing stuck: every ring is taken off the line in the end,
\* so the interrupt it raises does not come for ever.
RingAcknowledged == h2c ~> ~h2c
=============================================================================
