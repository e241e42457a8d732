----------------------------- MODULE Rpc_proofs -----------------------------
(***************************************************************************)
(* Proofs about a remote procedure call: for any number of calls and of    *)
(* reloads between them, a call gets its own answer and its request is     *)
(* carried out once, when clk_iop is a half or a third of sysclk.          *)
(***************************************************************************)
EXTENDS Rpc, TLAPS

HostLines == {"hold", "load", "release", "rest", "args", "sentinel", "ring", "wait",
              "clear", "status", "reply"}
IopLines == {"boot", "main", "pending", "ack", "token", "command", "reply", "status",
             "done", "raise"}

\* The access under way is the one of the program's line.
HostOK ==
    /\ hpc \in HostLines
    /\ apb = Idle \/ (apb.st \in {"setup", "access"} /\ apb.op \in HostOp(hpc, call))
IopOK ==
    /\ ipc \in IopLines
    /\ core = Idle \/ (core.st \in {"req", "wait"} /\ core.op \in IopOp(ipc))
    /\ core.st = "wait" => /\ ~core.op.wr
                           /\ coreSrc = IF core.op.sel = "B" THEN "B" ELSE "mmio"
    /\ ipc = "reply" => cmd \in 1..Calls
TypeInv ==
    /\ RpcTypeOK /\ HostOK /\ IopOK
    /\ memA \in A!Contents /\ doA \in Values
-----------------------------------------------------------------------------
LEMMA Constants ==
  /\ Calls \in Nat /\ N \in Nat \ {0} /\ REQUEST \in Values /\ REQUEST \in 0..REQUEST
  /\ ACK \in Values /\ ACK \in 0..REQUEST /\ Values = 0..(2 * Calls + 2) /\ Zero \in Values
  /\ WordsB = {"tok", "arg", "st"} /\ WordsA = {"fw"} /\ 1 \in Values
  /\ REQUEST = 2 * Calls + 1
  BY RpcAssumption, RatioAssumption, ContentAssumption DEF REQUEST, ACK, EINVAL

LEMMA Answers ==
  ASSUME NEW i \in 1..Calls
  PROVE  Reply(i) \in 0..REQUEST /\ Reply(i) \in Values /\ Status(i) = i /\ Reply(i) # 0
  BY Constants DEF Reply, Status

LEMMA StatusType == ASSUME NEW v \in Values PROVE Status(v) \in Values
  BY Constants DEF Status, EINVAL

LEMMA IopOrder ==
  /\ IopAfter("pending") = "ack" /\ IopAfter("ack") = "token" /\ IopAfter("token") = "command"
  /\ IopAfter("command") = "reply" /\ IopAfter("reply") = "status"
  /\ IopAfter("status") = "done" /\ IopAfter("done") = "raise" /\ IopAfter("raise") = "main"
  <1> DEFINE s == <<"pending", "ack", "token", "command", "reply", "status", "done",
                    "raise", "main">>
  <1>1. DOMAIN s = 1..9
    OBVIOUS
  <1>2. \A i \in 1..9, pc \in IopLines : s[i] = pc => Ordered(s, pc) = s[1 + i]
    <2> SUFFICES ASSUME NEW i \in 1..9, NEW pc \in IopLines, s[i] = pc
                 PROVE  Ordered(s, pc) = s[1 + i]
      OBVIOUS
    <2>1. \A j \in 1..9 : s[j] = pc => j = i
      OBVIOUS
    <2>2. (CHOOSE j \in DOMAIN s : s[j] = pc) = i
      BY <1>1, <2>1
    <2> QED
      BY <2>2 DEF Ordered
  <1> QED
    BY <1>2 DEF IopAfter, IopLines

\* What each line of the host accesses.
LEMMA HostAccess ==
  ASSUME TypeInv, apb # Idle
  PROVE  /\ apb.st \in {"setup", "access"} /\ hpc \in HostLines \ {"rest"}
         /\ hpc = "hold" => apb.op = Control(TRUE)
         /\ hpc = "load" => apb.op = LoadWord
         /\ hpc = "release" => apb.op = Control(FALSE)
         /\ hpc = "args" => apb.op = WriteB("arg", call)
         /\ hpc = "sentinel" => apb.op = WriteB("tok", REQUEST)
         /\ hpc = "ring" => apb.op = SetBit("H2C")
         /\ hpc = "wait" => apb.op = GetBit("C2H")
         /\ hpc = "clear" => apb.op = SetBit("C2H")
         /\ hpc = "status" => apb.op = ReadB("st")
         /\ hpc = "reply" => apb.op = ReadB("arg")
  <1>1. apb.st \in {"setup", "access"} /\ apb.op \in HostOp(hpc, call) /\ hpc \in HostLines
    BY DEF TypeInv, HostOK
  <1> QED
    BY <1>1 DEF HostOp

LEMMA HostKinds ==
  ASSUME TypeInv, apb # Idle
  PROVE  /\ apb.op.sel = "B" <=> hpc \in {"args", "sentinel", "status", "reply"}
         /\ apb.op.sel = "A" <=> hpc = "load"
         /\ apb.op.sel = "IOP_CTRL" <=> hpc \in {"hold", "release"}
         /\ apb.op.sel = "H2C" <=> hpc = "ring"
         /\ apb.op.sel = "C2H" <=> hpc \in {"wait", "clear"}
         /\ apb.op.wr <=> hpc \notin {"wait", "status", "reply"}
         /\ apb.op.sel \in {"A", "B", "IOP_CTRL", "H2C", "C2H"}
  BY HostAccess DEF HostLines, Control, LoadWord, WriteB, SetBit, GetBit, ReadB

LEMMA CoreAccess ==
  ASSUME TypeInv, core # Idle
  PROVE  /\ core.st \in {"req", "wait"} /\ ipc \in IopLines \ {"boot", "main"}
         /\ ipc = "pending" => core.op = GetBit("H2C")
         /\ ipc = "ack" => core.op = SetBit("H2C")
         /\ ipc = "token" => core.op = ReadB("tok")
         /\ ipc = "command" => core.op = ReadB("arg")
         /\ ipc = "reply" => core.op = WriteB("arg", Reply(cmd))
         /\ ipc = "status" => core.op = WriteB("st", Status(cmd))
         /\ ipc = "done" => core.op = WriteB("tok", ACK)
         /\ ipc = "raise" => core.op = SetBit("C2H")
  <1>1. core.st \in {"req", "wait"} /\ core.op \in IopOp(ipc) /\ ipc \in IopLines
    BY DEF TypeInv, IopOK
  <1> QED
    BY <1>1 DEF IopOp

LEMMA CoreKinds ==
  ASSUME TypeInv, core # Idle
  PROVE  /\ core.op.sel = "B" <=> ipc \in {"token", "command", "reply", "status", "done"}
         /\ core.op.sel = "H2C" <=> ipc \in {"pending", "ack"}
         /\ core.op.sel = "C2H" <=> ipc = "raise"
         /\ core.op.wr <=> ipc \notin {"pending", "token", "command"}
         /\ core.op.sel \in {"B", "H2C", "C2H"}
  BY CoreAccess DEF IopLines, WriteB, SetBit, GetBit, ReadB

LEMMA States ==
  ASSUME TypeInv
  PROVE  /\ apb.st \in {"idle", "setup", "access"} /\ (apb.st = "idle" <=> apb = Idle)
         /\ core.st \in {"idle", "req", "wait"} /\ (core.st = "idle" <=> core = Idle)
  BY DEF TypeInv, HostOK, IopOK, Idle
-----------------------------------------------------------------------------
(***************************************************************************)
(* One edge: what it does to the registers, the host and the core.         *)
(***************************************************************************)
LEMMA Lines ==
  ASSUME TypeInv
  PROVE  /\ C!HostWrites("H2C") <=> apb.st = "access" /\ hpc = "ring"
         /\ C!HostWrites("C2H") <=> apb.st = "access" /\ hpc = "clear"
         /\ C!HostWrites("IOP_CTRL") <=> apb.st = "access" /\ hpc \in {"hold", "release"}
         /\ C!IopWrites("H2C") <=> core.st = "req" /\ ipc = "ack"
         /\ C!IopWrites("C2H") <=> core.st = "req" /\ ipc = "raise"
         /\ HostReqB <=> apb.st = "access" /\ hpc \in {"args", "sentinel", "status", "reply"}
         /\ CoreReqB <=> core.st = "req"
                         /\ ipc \in {"token", "command", "reply", "status", "done"}
         /\ ~GrantCoreA
  <1>1. apb = Idle => apb.st # "access"
    BY DEF Idle
  <1>2. core = Idle => core.st # "req"
    BY DEF Idle
  <1>3. /\ C!HostWrites("H2C") <=> apb.st = "access" /\ hpc = "ring"
        /\ C!HostWrites("C2H") <=> apb.st = "access" /\ hpc = "clear"
        /\ C!HostWrites("IOP_CTRL") <=> apb.st = "access" /\ hpc \in {"hold", "release"}
    BY <1>1, HostKinds DEF C!HostWrites, C!Access
  <1>4. /\ C!IopWrites("H2C") <=> core.st = "req" /\ ipc = "ack"
        /\ C!IopWrites("C2H") <=> core.st = "req" /\ ipc = "raise"
    BY <1>2, CoreKinds DEF C!IopWrites, C!Active
  <1>5. HostReqB <=> apb.st = "access" /\ hpc \in {"args", "sentinel", "status", "reply"}
    BY <1>1, HostKinds DEF HostReqB, Access
  <1>6. CoreReqB <=> core.st = "req"
                     /\ ipc \in {"token", "command", "reply", "status", "done"}
    BY <1>2, CoreKinds DEF CoreReqB, Active
  <1>7. ~GrantCoreA
    BY <1>2, CoreKinds DEF GrantCoreA, Active
  <1> QED
    BY <1>3, <1>4, <1>5, <1>6, <1>7

LEMMA Bells ==
  ASSUME TypeInv, RpcEdge
  PROVE  /\ h2c' <=> /\ ~(core.st = "req" /\ ipc = "ack")
                     /\ h2c \/ (apb.st = "access" /\ hpc = "ring")
         /\ c2h' <=> \/ core.st = "req" /\ ipc = "raise"
                     \/ c2h /\ ~(apb.st = "access" /\ hpc = "clear")
         /\ iopReset' <=> \/ apb.st = "access" /\ hpc = "hold"
                          \/ iopReset /\ ~(apb.st = "access" /\ hpc = "release")
         /\ <<h2c', c2h', iopReset'>> \in BOOLEAN \X BOOLEAN \X BOOLEAN
  <1>1. <<h2c, c2h, iopReset>> \in BOOLEAN \X BOOLEAN \X BOOLEAN
    BY DEF TypeInv, RpcTypeOK
  <1>2. /\ apb.st = "access" /\ hpc = "ring" => apb.op.v = 1
        /\ apb.st = "access" /\ hpc = "clear" => apb.op.v = 1
        /\ apb.st = "access" /\ hpc = "hold" => apb.op.reset = TRUE
        /\ apb.st = "access" /\ hpc = "release" => apb.op.reset = FALSE
    BY HostAccess, States DEF SetBit, Control
  <1>3. /\ core.st = "req" /\ ipc = "ack" => core.op.v = 1
        /\ core.st = "req" /\ ipc = "raise" => core.op.v = 1
    BY CoreAccess, States DEF SetBit
  <1>4. h2c' = IF C!IopWrites("H2C") /\ core.op.v = 1 THEN FALSE
               ELSE IF C!HostWrites("H2C") /\ apb.op.v = 1 THEN TRUE ELSE h2c
    BY DEF RpcEdge, C!CtrlStep, C!H2C
  <1>5. c2h' = IF C!IopWrites("C2H") THEN core.op.v = 1
               ELSE IF C!HostWrites("C2H") /\ apb.op.v = 1 THEN FALSE ELSE c2h
    BY DEF RpcEdge, C!CtrlStep, C!C2H
  <1>6. iopReset' = IF C!HostWrites("IOP_CTRL") THEN apb.op.reset ELSE iopReset
    BY DEF RpcEdge, C!CtrlStep, C!ResetRegister
  <1>7. h2c' \in BOOLEAN /\ (h2c' <=> /\ ~(core.st = "req" /\ ipc = "ack")
                                      /\ h2c \/ (apb.st = "access" /\ hpc = "ring"))
    <2>1. CASE core.st = "req" /\ ipc = "ack"
      BY <2>1, <1>3, <1>4, Lines
    <2>2. CASE ~(core.st = "req" /\ ipc = "ack") /\ apb.st = "access" /\ hpc = "ring"
      BY <2>2, <1>2, <1>4, Lines
    <2>3. CASE ~(core.st = "req" /\ ipc = "ack") /\ ~(apb.st = "access" /\ hpc = "ring")
      <3>1. h2c' = h2c
        BY <2>3, <1>4, Lines
      <3> QED
        BY <2>3, <3>1, <1>1
    <2> QED
      BY <2>1, <2>2, <2>3
  <1>8. c2h' \in BOOLEAN /\ (c2h' <=> \/ core.st = "req" /\ ipc = "raise"
                                      \/ c2h /\ ~(apb.st = "access" /\ hpc = "clear"))
    <2>1. CASE core.st = "req" /\ ipc = "raise"
      BY <2>1, <1>3, <1>5, Lines
    <2>2. CASE ~(core.st = "req" /\ ipc = "raise") /\ apb.st = "access" /\ hpc = "clear"
      BY <2>2, <1>2, <1>5, Lines
    <2>3. CASE ~(core.st = "req" /\ ipc = "raise") /\ ~(apb.st = "access" /\ hpc = "clear")
      <3>1. c2h' = c2h
        BY <2>3, <1>5, Lines
      <3> QED
        BY <2>3, <3>1, <1>1
    <2> QED
      BY <2>1, <2>2, <2>3
  <1>9. iopReset' \in BOOLEAN
        /\ (iopReset' <=> \/ apb.st = "access" /\ hpc = "hold"
                          \/ iopReset /\ ~(apb.st = "access" /\ hpc = "release"))
    <2>1. CASE apb.st = "access" /\ hpc = "hold"
      BY <2>1, <1>2, <1>6, Lines
    <2>2. CASE apb.st = "access" /\ hpc = "release"
      BY <2>2, <1>2, <1>6, Lines
    <2>3. CASE ~(apb.st = "access" /\ hpc \in {"hold", "release"})
      <3>1. iopReset' = iopReset
        BY <2>3, <1>6, Lines
      <3> QED
        BY <2>3, <3>1, <1>1
    <2> QED
      BY <2>1, <2>2, <2>3
  <1> QED
    BY <1>7, <1>8, <1>9

\* The host: at rest, with a transfer under way, or at the end of one.
HostBegins == apb' = Idle \/ \E op \in HostOp(hpc', call') : apb' = Setup(op)
HostRests ==
    /\ hpc = "rest" /\ apb = Idle /\ HostBegins
    /\ UNCHANGED hostVars \/ StartCall \/ StartReload
HostContinues ==
    /\ hpc # "rest" /\ UNCHANGED hostVars
    /\ \/ apb = Idle /\ HostBegins
       \/ apb.st = "setup" /\ apb' = InAccess(apb.op)
       \/ apb.st = "access" /\ ~HostReady /\ apb' = apb
HostEnds ==
    /\ hpc # "rest" /\ apb.st = "access" /\ HostReady /\ HostBegins
    /\ PollAgain \/ GiveUp \/ AccessReturns

LEMMA HostEdge == ASSUME TypeInv, RpcEdge PROVE HostRests \/ HostContinues \/ HostEnds
  <1>1. HostProgram /\ HostStep(HostOp(hpc', call'), HostReady)
    BY DEF RpcEdge
  <1>2. CASE hpc = "rest"
    <2>1. apb = Idle /\ apb.st = "idle"
      BY <1>2, HostAccess, States
    <2>2. HostBegins
      BY <1>1, <2>1 DEF HostStep, HostBegin, HostBegins
    <2>3. UNCHANGED hostVars \/ StartCall \/ StartReload
      BY <1>1, <2>1 DEF HostProgram, PollAgain, GiveUp, AccessReturns, HostDone
    <2> QED
      BY <1>2, <2>1, <2>2, <2>3 DEF HostRests
  <1>3. CASE hpc # "rest" /\ ~HostDone
    <2>1. UNCHANGED hostVars
      BY <1>1, <1>3 DEF HostProgram, StartCall, StartReload, PollAgain, GiveUp, AccessReturns
    <2>2. \/ apb.st = "idle" /\ HostBegins
          \/ apb.st = "setup" /\ apb' = InAccess(apb.op)
          \/ apb.st = "access" /\ ~HostReady /\ apb' = apb
      BY <1>1, <1>3 DEF HostStep, HostBegin, HostBegins, HostDone
    <2> QED
      BY <1>3, <2>1, <2>2, States DEF HostContinues
  <1>4. CASE hpc # "rest" /\ HostDone
    <2>1. PollAgain \/ GiveUp \/ AccessReturns
      BY <1>1, <1>4 DEF HostProgram, StartCall, StartReload
    <2>2. HostBegins
      BY <1>1, <1>4 DEF HostStep, HostBegin, HostBegins, HostDone
    <2> QED
      BY <1>4, <2>1, <2>2 DEF HostEnds, HostDone
  <1> QED
    BY <1>2, <1>3, <1>4

\* The core: held in reset, within an access, between two of them, at the edge
\* that accepts a load, or at the end of an access.
CoreHeld ==
    /\ iopReset /\ UNCHANGED <<cmd, served>>
    /\ \/ core' = Idle /\ ipc' = "boot"
       \/ core # Idle /\ core' = core /\ ipc' = ipc /\ ~ClkIop
CoreContinues ==
    /\ ~iopReset /\ core' = core /\ IopRests
    /\ ~ClkIop \/ (core.st = "req" /\ Busy)
CoreBetween ==
    /\ ~iopReset /\ ClkIop /\ core = Idle
    /\ \/ core' = Idle /\ (Boot \/ TakeInterrupt \/ IopRests)
       \/ IopRests /\ \E op \in IopOp(ipc) : core' = Request(op)
CoreAccepted ==
    /\ ~iopReset /\ ClkIop /\ core.st = "req" /\ ~Busy /\ ~core.op.wr
    /\ core' = Await(core.op) /\ IopRests
CoreEnds == ~iopReset /\ core # Idle /\ core' = Idle /\ ServiceStep

LEMMA CoreEdge ==
  ASSUME TypeInv, RpcEdge
  PROVE  CoreHeld \/ CoreContinues \/ CoreBetween \/ CoreAccepted \/ CoreEnds
  <1> DEFINE ops == IF core.st = "idle" THEN IopOp(ipc) ELSE {}
  <1>1. IopProgram /\ CoreStep(ops, Busy, iopReset)
    BY DEF RpcEdge
  <1>2. CASE iopReset
    <2>1. ipc' = (IF core' = Idle THEN "boot" ELSE ipc) /\ UNCHANGED <<cmd, served>>
      BY <1>1, <1>2 DEF IopProgram
    <2>2. (~ClkIop /\ core' = core) \/ core' = Idle
      BY <1>1, <1>2 DEF CoreStep, CoreReset
    <2> QED
      BY <1>2, <2>1, <2>2 DEF CoreHeld
  <1>3. CASE ~iopReset
    <2>1. \/ ServiceStep
          \/ ClkIop /\ core.st = "idle" /\ (Boot \/ TakeInterrupt)
          \/ ~CoreDone /\ IopRests
      BY <1>1, <1>3 DEF IopProgram
    <2>2. CASE ~ClkIop
      <3>1. core' = core
        BY <1>1, <1>3, <2>2 DEF CoreStep
      <3>2. IopRests
        BY <2>1, <2>2 DEF ServiceStep, CoreDone
      <3> QED
        BY <1>3, <2>2, <3>1, <3>2 DEF CoreContinues
    <2>3. CASE ClkIop /\ core = Idle
      <3>1. core.st = "idle"
        BY <2>3 DEF Idle
      <3>2. core' = Idle \/ \E op \in IopOp(ipc) : core' = Request(op)
        BY <1>1, <1>3, <2>3, <3>1 DEF CoreStep, CoreBegin
      <3>3. Boot \/ TakeInterrupt \/ IopRests
        BY <2>1, <3>1 DEF ServiceStep, CoreDone
      <3>4. Boot \/ TakeInterrupt => core' = Idle
        BY <3>2 DEF Boot, TakeInterrupt, IopOp
      <3> QED
        BY <1>3, <2>3, <3>2, <3>3, <3>4 DEF CoreBetween
    <2>4. CASE ClkIop /\ core.st = "req" /\ Busy
      <3>1. core' = core
        BY <1>1, <1>3, <2>4 DEF CoreStep
      <3>2. IopRests
        BY <2>1, <2>4 DEF ServiceStep, CoreDone
      <3> QED
        BY <1>3, <2>4, <3>1, <3>2 DEF CoreContinues
    <2>5. CASE ClkIop /\ core.st = "req" /\ ~Busy /\ ~core.op.wr
      <3>1. core' = Await(core.op)
        BY <1>1, <1>3, <2>5 DEF CoreStep
      <3>2. IopRests
        BY <2>1, <2>5 DEF ServiceStep, CoreDone
      <3> QED
        BY <1>3, <2>5, <3>1, <3>2 DEF CoreAccepted
    <2>6. CASE /\ ClkIop
               /\ core.st = "wait" \/ (core.st = "req" /\ ~Busy /\ core.op.wr)
      <3>1. ops = {}
        BY <2>6
      <3>2. core' = Idle
        BY <1>1, <1>3, <2>6, <3>1 DEF CoreStep, CoreBegin
      <3>3. ServiceStep
        BY <1>3, <2>1, <2>6 DEF CoreDone
      <3>4. core # Idle
        BY <2>6 DEF Idle
      <3> QED
        BY <1>3, <3>2, <3>3, <3>4 DEF CoreEnds
    <2> QED
      BY <2>2, <2>3, <2>4, <2>5, <2>6, States
  <1> QED
    BY <1>2, <1>3

\* The mailbox changes by a store of one of the two programs, and Do0 shows the
\* word of the access.
LEMMA Mailbox ==
  ASSUME TypeInv, RpcEdge
  PROVE  /\ HostReqB => /\ hpc = "args" => memB' = [memB EXCEPT !["arg"] = call]
                        /\ hpc = "sentinel" => memB' = [memB EXCEPT !["tok"] = REQUEST]
                        /\ hpc \in {"status", "reply"} => memB' = memB
                        /\ hpc = "status" => doB' = memB["st"]
                        /\ hpc = "reply" => doB' = memB["arg"]
         /\ GrantCoreB => /\ ipc = "token" => memB' = memB /\ doB' = memB["tok"]
                          /\ ipc = "command" => memB' = memB /\ doB' = memB["arg"]
                          /\ ipc = "reply" => memB' = [memB EXCEPT !["arg"] = Reply(cmd)]
                          /\ ipc = "status" => memB' = [memB EXCEPT !["st"] = Status(cmd)]
                          /\ ipc = "done" => memB' = [memB EXCEPT !["tok"] = ACK]
         /\ HostReqB \/ GrantCoreB => doB' \in Values
         /\ ~HostReqB /\ ~GrantCoreB => memB' = memB /\ doB' = doB
  <1>1. SramB
    BY DEF RpcEdge
  <1>2. GrantCoreB => ~HostReqB
    BY DEF GrantCoreB
  <1>3. ASSUME HostReqB
        PROVE  /\ hpc = "args" => memB' = [memB EXCEPT !["arg"] = call]
               /\ hpc = "sentinel" => memB' = [memB EXCEPT !["tok"] = REQUEST]
               /\ hpc \in {"status", "reply"} => memB' = memB
               /\ hpc = "status" => doB' = memB["st"]
               /\ hpc = "reply" => doB' = memB["arg"]
               /\ doB' \in Values
    <2>1. apb # Idle /\ hpc \in {"args", "sentinel", "status", "reply"}
      BY <1>3, Lines, States DEF Idle
    <2>2. /\ memB' = (IF apb.op.wr THEN [memB EXCEPT ![apb.op.w] = apb.op.v] ELSE memB)
          /\ doB' = memB[apb.op.w]
      BY <1>1, <1>2, <1>3 DEF SramB, GrantHostB, B!Access
    <2>3. apb.op.w \in WordsB
      BY <2>1, HostAccess, Constants DEF WriteB, ReadB
    <2>4. doB' \in Values
      BY <2>2, <2>3 DEF TypeInv, RpcTypeOK, B!Contents
    <2>5. /\ hpc = "args" => apb.op = WriteB("arg", call)
          /\ hpc = "sentinel" => apb.op = WriteB("tok", REQUEST)
          /\ hpc = "status" => apb.op = ReadB("st")
          /\ hpc = "reply" => apb.op = ReadB("arg")
      BY <2>1, HostAccess
    <2>6. CASE hpc = "args"
      <3>1. apb.op.wr /\ apb.op.w = "arg" /\ apb.op.v = call
        BY <2>5, <2>6 DEF WriteB
      <3>2. memB' = [memB EXCEPT ![apb.op.w] = apb.op.v]
        BY <2>2, <3>1
      <3>3. memB' = [memB EXCEPT !["arg"] = call]
        BY <3>1, <3>2, Zenon
      <3> QED
        BY <2>4, <2>6, <3>3
    <2>7. CASE hpc = "sentinel"
      <3>1. apb.op.wr /\ apb.op.w = "tok" /\ apb.op.v = REQUEST
        BY <2>5, <2>7 DEF WriteB
      <3>2. memB' = [memB EXCEPT ![apb.op.w] = apb.op.v]
        BY <2>2, <3>1
      <3>3. memB' = [memB EXCEPT !["tok"] = REQUEST]
        BY <3>1, <3>2, Zenon
      <3> QED
        BY <2>4, <2>7, <3>3
    <2>8. CASE hpc \in {"status", "reply"}
      BY <2>2, <2>4, <2>5, <2>8 DEF ReadB
    <2> QED
      BY <2>1, <2>6, <2>7, <2>8
  <1>4. ASSUME GrantCoreB
        PROVE  /\ ipc = "token" => memB' = memB /\ doB' = memB["tok"]
               /\ ipc = "command" => memB' = memB /\ doB' = memB["arg"]
               /\ ipc = "reply" => memB' = [memB EXCEPT !["arg"] = Reply(cmd)]
               /\ ipc = "status" => memB' = [memB EXCEPT !["st"] = Status(cmd)]
               /\ ipc = "done" => memB' = [memB EXCEPT !["tok"] = ACK]
               /\ doB' \in Values
    <2>1. core # Idle /\ ipc \in {"token", "command", "reply", "status", "done"}
      BY <1>4, Lines, States DEF Idle, GrantCoreB
    <2>2. /\ memB' = (IF core.op.wr THEN [memB EXCEPT ![core.op.w] = core.op.v] ELSE memB)
          /\ doB' = memB[core.op.w]
      BY <1>1, <1>2, <1>4 DEF SramB, GrantHostB, B!Access
    <2>3. core.op.w \in WordsB
      BY <2>1, CoreAccess, Constants DEF WriteB, ReadB
    <2>4. doB' \in Values
      BY <2>2, <2>3 DEF TypeInv, RpcTypeOK, B!Contents
    <2>5. /\ ipc = "token" => core.op = ReadB("tok")
          /\ ipc = "command" => core.op = ReadB("arg")
          /\ ipc = "reply" => core.op = WriteB("arg", Reply(cmd))
          /\ ipc = "status" => core.op = WriteB("st", Status(cmd))
          /\ ipc = "done" => core.op = WriteB("tok", ACK)
      BY <2>1, CoreAccess
    <2>6. CASE ipc \in {"token", "command"}
      BY <2>2, <2>4, <2>5, <2>6 DEF ReadB
    <2>7. CASE ipc = "reply"
      <3>1. core.op.wr /\ core.op.w = "arg" /\ core.op.v = Reply(cmd)
        BY <2>5, <2>7 DEF WriteB
      <3>2. memB' = [memB EXCEPT ![core.op.w] = core.op.v]
        BY <2>2, <3>1
      <3>3. memB' = [memB EXCEPT !["arg"] = Reply(cmd)]
        BY <3>1, <3>2, Zenon
      <3> QED
        BY <2>4, <2>7, <3>3
    <2>8. CASE ipc = "status"
      <3>1. core.op.wr /\ core.op.w = "st" /\ core.op.v = Status(cmd)
        BY <2>5, <2>8 DEF WriteB
      <3>2. memB' = [memB EXCEPT ![core.op.w] = core.op.v]
        BY <2>2, <3>1
      <3>3. memB' = [memB EXCEPT !["st"] = Status(cmd)]
        BY <3>1, <3>2, Zenon
      <3> QED
        BY <2>4, <2>8, <3>3
    <2>9. CASE ipc = "done"
      <3>1. core.op.wr /\ core.op.w = "tok" /\ core.op.v = ACK
        BY <2>5, <2>9 DEF WriteB
      <3>2. memB' = [memB EXCEPT ![core.op.w] = core.op.v]
        BY <2>2, <3>1
      <3>3. memB' = [memB EXCEPT !["tok"] = ACK]
        BY <3>1, <3>2, Zenon
      <3> QED
        BY <2>4, <2>9, <3>3
    <2> QED
      BY <2>1, <2>6, <2>7, <2>8, <2>9
  <1>5. ~HostReqB /\ ~GrantCoreB => memB' = memB /\ doB' = doB
    BY <1>1 DEF SramB, GrantHostB, B!Hold
  <1> QED
    BY <1>3, <1>4, <1>5

\* Who stores what: the next content of each word.
LEMMA MailboxTypes ==
  ASSUME TypeInv, RpcEdge
  PROVE  memB' \in B!Contents /\ memB'["arg"] \in 0..REQUEST /\ doB' \in Values
  <1>1. memB \in [WordsB -> Values] /\ memB["arg"] \in 0..REQUEST /\ doB \in Values
        /\ call \in 0..Calls /\ cmd \in Values /\ (ipc = "reply" => cmd \in 1..Calls)
    BY DEF TypeInv, RpcTypeOK, IopOK, B!Contents
  <1>2. call \in Values /\ call \in 0..REQUEST
    BY <1>1, Constants
  <1>3. "arg" \in WordsB /\ "tok" \in WordsB /\ "st" \in WordsB
    BY Constants
  <1>4. CASE HostReqB
    <2>1. hpc \in {"args", "sentinel", "status", "reply"}
      BY <1>4, Lines
    <2>2. memB' \in [WordsB -> Values] /\ memB'["arg"] \in 0..REQUEST
      BY <1>1, <1>2, <1>3, <1>4, <2>1, Mailbox, Constants
    <2> QED
      BY <1>4, <2>2, Mailbox DEF B!Contents
  <1>5. CASE GrantCoreB
    <2>1. ipc \in {"token", "command", "reply", "status", "done"}
      BY <1>5, Lines DEF GrantCoreB
    <2>2. CASE ipc = "reply"
      <3>1. Reply(cmd) \in Values /\ Reply(cmd) \in 0..REQUEST
        BY <1>1, <2>2, Answers
      <3>2. memB' \in [WordsB -> Values] /\ memB'["arg"] \in 0..REQUEST
        BY <1>1, <1>3, <1>5, <2>2, <3>1, Mailbox
      <3> QED
        BY <1>5, <3>2, Mailbox DEF B!Contents
    <2>3. CASE ipc = "status"
      <3>1. Status(cmd) \in Values
        BY <1>1, StatusType
      <3>2. memB' \in [WordsB -> Values] /\ memB'["arg"] \in 0..REQUEST
        BY <1>1, <1>3, <1>5, <2>3, <3>1, Mailbox
      <3> QED
        BY <1>5, <3>2, Mailbox DEF B!Contents
    <2>4. CASE ipc \in {"token", "command", "done"}
      <3>1. memB' \in [WordsB -> Values] /\ memB'["arg"] \in 0..REQUEST
        BY <1>1, <1>3, <1>5, <2>4, Mailbox, Constants
      <3> QED
        BY <1>5, <3>1, Mailbox DEF B!Contents
    <2> QED
      BY <2>1, <2>2, <2>3, <2>4
  <1>6. CASE ~HostReqB /\ ~GrantCoreB
    BY <1>1, <1>6, Mailbox DEF B!Contents
  <1> QED
    BY <1>4, <1>5, <1>6

LEMMA FirmwareTypes == ASSUME TypeInv, RpcEdge PROVE memA' \in A!Contents /\ doA' \in Values
  <1>1. SramA /\ memA \in A!Contents /\ doA \in Values
    BY DEF RpcEdge, TypeInv
  <1>2. CASE HostReqA
    <2>1. A!Access(apb.op)
      BY <1>1, <1>2, Lines DEF SramA
    <2>2. apb # Idle /\ hpc = "load"
      BY <1>2, HostKinds, States DEF HostReqA, Access
    <2>3. apb.op = LoadWord
      BY <2>2, HostAccess
    <2> QED
      BY <1>1, <2>1, <2>3, Constants DEF A!Access, A!Contents, LoadWord
  <1>3. CASE ~HostReqA
    BY <1>1, <1>3, Lines DEF SramA, A!Hold
  <1> QED
    BY <1>2, <1>3

\* What a load of the service delivers.
LEMMA LoadedData ==
  ASSUME TypeInv, core.st = "wait"
  PROVE  /\ ipc \in {"pending", "token", "command"}
         /\ ipc = "pending" => IopData = h2c
         /\ ipc \in {"token", "command"} => IopData = rdataQ
  <1>1. core # Idle
    BY DEF Idle
  <1>2. ~core.op.wr /\ coreSrc = (IF core.op.sel = "B" THEN "B" ELSE "mmio")
    BY DEF TypeInv, IopOK
  <1>3. ipc \in {"pending", "token", "command"}
    BY <1>1, <1>2, CoreKinds
  <1>4. ASSUME ipc = "pending" PROVE IopData = h2c
    <2>1. core.op.sel = "H2C"
      BY <1>1, <1>4, CoreKinds
    <2>2. coreSrc = "mmio"
      BY <1>2, <2>1
    <2> QED
      BY <2>1, <2>2 DEF IopData, C!Doorbell
  <1>5. ASSUME ipc \in {"token", "command"} PROVE IopData = rdataQ
    <2>1. core.op.sel = "B"
      BY <1>1, <1>5, CoreKinds
    <2>2. coreSrc = "B"
      BY <1>2, <2>1
    <2> QED
      BY <2>2 DEF IopData, CoreRdata
  <1> QED
    BY <1>3, <1>4, <1>5

\* The service's next line.  A store ends with its request, a load later.
LEMMA NextLine ==
  ASSUME TypeInv, CoreEnds
  PROVE  /\ ClkIop /\ core' = Idle /\ ipc \in IopLines \ {"boot", "main"}
         /\ core.st = (IF ipc \in {"pending", "token", "command"} THEN "wait" ELSE "req")
         /\ core.st = "req" => ~Busy
         /\ ipc' = IF \/ ipc = "pending" /\ ~h2c
                      \/ ipc = "token" /\ rdataQ # REQUEST
                   THEN "main"
                   ELSE IF ipc = "command" /\ rdataQ \notin 1..Calls THEN "status"
                   ELSE IopAfter(ipc)
         /\ cmd' = IF ipc = "command" THEN rdataQ ELSE cmd
         /\ served' = IF ipc = "command" /\ rdataQ \in 1..Calls
                      THEN [served EXCEPT ![rdataQ] = @ + 1] ELSE served
  <1>1. core # Idle /\ core' = Idle /\ CoreDone
    BY DEF CoreEnds, ServiceStep
  <1>2. ipc \in IopLines \ {"boot", "main"} /\ (core.op.wr <=> ipc \notin {"pending", "token", "command"})
    BY <1>1, CoreAccess, CoreKinds
  <1>3. /\ ClkIop
        /\ core.st = "wait" \/ (core.st = "req" /\ ~Busy /\ core.op.wr)
    BY <1>1 DEF CoreDone
  <1>4. core.st = "wait" => ipc \in {"pending", "token", "command"}
    BY LoadedData
  <1>5. core.st = IF ipc \in {"pending", "token", "command"} THEN "wait" ELSE "req"
    BY <1>2, <1>3, <1>4
  <1>6. /\ ipc = "pending" => IopData = h2c
        /\ ipc \in {"token", "command"} => IopData = rdataQ
    BY <1>5, LoadedData
  <1>7. NothingToDo <=> \/ ipc = "pending" /\ ~h2c
                        \/ ipc = "token" /\ rdataQ # REQUEST
    BY <1>6 DEF NothingToDo
  <1>8. Refused <=> ipc = "command" /\ rdataQ \notin 1..Calls
    BY <1>6 DEF Refused
  <1>9. ipc' = IF NothingToDo THEN "main"
               ELSE IF Refused THEN IopAfter("reply") ELSE IopAfter(ipc)
    BY DEF CoreEnds, ServiceStep
  <1>10. IopAfter("reply") = "status"
    BY IopOrder
  <1>11. cmd' = IF ipc = "command" THEN rdataQ ELSE cmd
    BY <1>6 DEF CoreEnds, ServiceStep
  <1>12. served' = IF ipc = "command" /\ rdataQ \in 1..Calls
                   THEN [served EXCEPT ![rdataQ] = @ + 1] ELSE served
    <2>1. served' = IF ipc = "command" /\ IopData \in 1..Calls
                    THEN [served EXCEPT ![IopData] = @ + 1] ELSE served
      BY DEF CoreEnds, ServiceStep
    <2>2. CASE ipc = "command"
      <3>1. IopData = rdataQ
        BY <1>6, <2>2
      <3> QED
        BY <2>1, <3>1, Zenon
    <2>3. CASE ipc # "command"
      BY <2>1, <2>3
    <2> QED
      BY <2>2, <2>3
  <1>13. ipc' = IF \/ ipc = "pending" /\ ~h2c
                   \/ ipc = "token" /\ rdataQ # REQUEST
                THEN "main"
                ELSE IF ipc = "command" /\ rdataQ \notin 1..Calls THEN "status"
                ELSE IopAfter(ipc)
    BY <1>7, <1>8, <1>9, <1>10
  <1> QED
    BY <1>1, <1>2, <1>3, <1>5, <1>11, <1>12, <1>13

LEMMA ServiceTypes ==
  ASSUME TypeInv, RpcEdge
  PROVE  IopOK' /\ cmd' \in Values /\ served' \in [1..Calls -> Nat]
  <1> USE DEF IopLines
  <1>1. /\ ipc \in IopLines /\ cmd \in Values /\ served \in [1..Calls -> Nat]
        /\ rdataQ \in Values
        /\ ipc = "reply" => cmd \in 1..Calls
    BY DEF TypeInv, RpcTypeOK, IopOK
  <1>2. CoreSource
    BY DEF RpcEdge
  <1>3. CASE CoreHeld
    <2>1. ipc' \in {"boot", ipc} /\ cmd' = cmd /\ served' = served
      BY <1>3 DEF CoreHeld
    <2>2. CASE core' = Idle /\ ipc' = "boot"
      <3>1. core'.st # "wait"
        BY <2>2 DEF Idle
      <3> QED
        BY <1>1, <2>1, <2>2, <3>1 DEF IopOK
    <2>3. CASE core # Idle /\ core' = core /\ ipc' = ipc /\ ~ClkIop
      <3>1. IopOp(ipc)' = IopOp(ipc) /\ coreSrc' = coreSrc
        BY <1>2, <2>1, <2>3 DEF IopOp, CoreSource
      <3> QED
        BY <1>1, <2>1, <2>3, <3>1 DEF IopOK, TypeInv
    <2> QED
      BY <1>3, <2>2, <2>3 DEF CoreHeld
  <1>4. CASE CoreContinues
    <2>1. core' = core /\ ipc' = ipc /\ cmd' = cmd /\ served' = served /\ coreSrc' = coreSrc
      BY <1>2, <1>4 DEF CoreContinues, IopRests, iopVars, CoreSource
    <2>2. IopOp(ipc)' = IopOp(ipc)
      BY <2>1 DEF IopOp
    <2> QED
      BY <1>1, <2>1, <2>2 DEF IopOK, TypeInv
  <1>5. CASE CoreBetween
    <2>1. cmd' = cmd /\ served' = served /\ ipc' \in {ipc, "main", "pending"}
      BY <1>5 DEF CoreBetween, Boot, TakeInterrupt, IopRests, iopVars
    <2>2. CASE core' = Idle
      <3>1. core'.st # "wait"
        BY <2>2 DEF Idle
      <3> QED
        BY <1>1, <2>1, <2>2, <3>1 DEF IopOK
    <2>3. CASE IopRests /\ \E op \in IopOp(ipc) : core' = Request(op)
      <3>1. PICK op \in IopOp(ipc) : core' = Request(op)
        BY <2>3
      <3>2. core'.st = "req" /\ core'.op = op /\ ipc' = ipc
        BY <2>3, <3>1 DEF Request, IopRests, iopVars
      <3>3. IopOp(ipc)' = IopOp(ipc)
        BY <2>1, <3>2 DEF IopOp
      <3> QED
        BY <1>1, <2>1, <3>2, <3>3 DEF IopOK
    <2> QED
      BY <1>5, <2>2, <2>3 DEF CoreBetween
  <1>6. CASE CoreAccepted
    <2>1. core'.st = "wait" /\ core'.op = core.op /\ ipc' = ipc /\ cmd' = cmd /\ served' = served
      BY <1>6 DEF CoreAccepted, Await, IopRests, iopVars
    <2>2. IopOp(ipc)' = IopOp(ipc)
      BY <2>1 DEF IopOp
    <2>3. core # Idle
      BY <1>6 DEF CoreAccepted, Idle
    <2>4. core.op \in IopOp(ipc) /\ core.op.sel # "A"
      BY <2>3, CoreKinds DEF TypeInv, IopOK
    <2>5. coreSrc' = IF core.op.sel = "B" THEN "B" ELSE "mmio"
      BY <1>2, <1>6, <2>4 DEF CoreSource, CoreAccepted
    <2>6. ~core.op.wr
      BY <1>6 DEF CoreAccepted
    <2> QED
      BY <1>1, <2>1, <2>2, <2>4, <2>5, <2>6 DEF IopOK
  <1>7. CASE CoreEnds
    <2>1. core'.st # "wait" /\ core' = Idle
      BY <1>7, NextLine DEF Idle
    <2>2. ipc' \in IopLines
      BY <1>7, NextLine, IopOrder
    <2>3. ipc' = "reply" => ipc = "command" /\ rdataQ \in 1..Calls
      BY <1>7, NextLine, IopOrder
    <2>4. cmd' = IF ipc = "command" THEN rdataQ ELSE cmd
      BY <1>7, NextLine
    <2>5. served' \in [1..Calls -> Nat]
      <3>1. CASE ipc = "command" /\ rdataQ \in 1..Calls
        <4>1. served' = [served EXCEPT ![rdataQ] = @ + 1]
          BY <1>7, <3>1, NextLine
        <4> QED
          BY <1>1, <3>1, <4>1
      <3>2. CASE ~(ipc = "command" /\ rdataQ \in 1..Calls)
        BY <1>1, <1>7, <3>2, NextLine
      <3> QED
        BY <3>1, <3>2
    <2> QED
      BY <1>1, <2>1, <2>2, <2>3, <2>4, <2>5 DEF IopOK
  <1> QED
    BY <1>3, <1>4, <1>5, <1>6, <1>7, CoreEdge

\* The host's next line.
LEMMA HostNext ==
  /\ HostAfter("hold") = "load" /\ HostAfter("load") = "release"
  /\ HostAfter("release") = "rest" /\ HostAfter("args") = "sentinel"
  /\ HostAfter("sentinel") = "ring" /\ HostAfter("ring") = "wait"
  /\ HostAfter("wait") = "clear" /\ HostAfter("clear") = "status"
  /\ HostAfter("status") = "reply" /\ HostAfter("reply") = "rest"
  <1>1. \A pc \in HostLines :
          /\ pc = "hold" => HostAfter(pc) = "load"
          /\ pc = "load" => HostAfter(pc) = "release"
          /\ pc = "release" => HostAfter(pc) = "rest"
          /\ pc = "args" => HostAfter(pc) = "sentinel"
          /\ pc = "sentinel" => HostAfter(pc) = "ring"
          /\ pc = "ring" => HostAfter(pc) = "wait"
          /\ pc = "wait" => HostAfter(pc) = "clear"
          /\ pc = "clear" => HostAfter(pc) = "status"
          /\ pc = "status" => HostAfter(pc) = "reply"
          /\ pc = "reply" => HostAfter(pc) = "rest"
    BY DEF HostAfter
  <1>2. /\ "hold" \in HostLines /\ "load" \in HostLines /\ "release" \in HostLines
        /\ "args" \in HostLines /\ "sentinel" \in HostLines /\ "ring" \in HostLines
        /\ "wait" \in HostLines /\ "clear" \in HostLines /\ "status" \in HostLines
        /\ "reply" \in HostLines
    BY DEF HostLines
  <1> QED
    BY <1>1, <1>2, Zenon

LEMMA HostTypes ==
  ASSUME TypeInv, RpcEdge
  PROVE  /\ HostOK' /\ call' \in 0..Calls
         /\ gotSt' \in Values /\ gotReply' \in Values
  <1> USE DEF HostLines
  <1>1. /\ hpc \in HostLines /\ call \in 0..Calls /\ gotSt \in Values /\ gotReply \in Values
        /\ doA \in Values /\ doB \in Values
    BY DEF TypeInv, RpcTypeOK, HostOK
  <1>2. HostRdata \in Values /\ 0 \in Values
    BY <1>1, Constants DEF HostRdata
  <1>3. ASSUME HostBegins, hpc' \in HostLines PROVE HostOK'
    <2>1. CASE apb' = Idle
      BY <1>3, <2>1 DEF HostOK
    <2>2. CASE \E op \in HostOp(hpc', call') : apb' = Setup(op)
      <3>1. PICK op \in HostOp(hpc', call') : apb' = Setup(op)
        BY <2>2
      <3>2. apb'.st = "setup" /\ apb'.op = op
        BY <3>1 DEF Setup
      <3>3. HostOp(hpc', call') = HostOp(hpc, call)'
        BY DEF HostOp
      <3> QED
        BY <1>3, <3>1, <3>2, <3>3 DEF HostOK
    <2> QED
      BY <1>3, <2>1, <2>2 DEF HostBegins
  <1>4. CASE HostRests
    <2>1. /\ hpc' \in HostLines /\ call' \in 0..Calls
          /\ gotSt' \in {gotSt, 0} /\ gotReply' \in {gotReply, 0}
      BY <1>1, <1>4, Constants DEF HostRests, StartCall, StartReload, hostVars
    <2> QED
      BY <1>1, <1>2, <1>3, <1>4, <2>1 DEF HostRests
  <1>5. CASE HostContinues
    <2>1. hpc' = hpc /\ call' = call /\ gotSt' = gotSt /\ gotReply' = gotReply
      BY <1>5 DEF HostContinues, hostVars
    <2>2. HostOp(hpc, call)' = HostOp(hpc, call)
      BY <2>1 DEF HostOp
    <2>3. apb # Idle => apb.op \in HostOp(hpc, call)
      BY DEF TypeInv, HostOK
    <2>4. CASE apb = Idle /\ HostBegins
      BY <1>1, <1>3, <2>1, <2>4
    <2>5. CASE apb.st = "setup" /\ apb' = InAccess(apb.op)
      <3>1. apb'.st = "access" /\ apb'.op = apb.op /\ apb # Idle
        BY <2>5 DEF InAccess, Idle
      <3> QED
        BY <1>1, <2>1, <2>2, <2>3, <3>1 DEF HostOK
    <2>6. CASE apb.st = "access" /\ ~HostReady /\ apb' = apb
      BY <1>1, <2>1, <2>2, <2>6 DEF HostOK, TypeInv
    <2> QED
      BY <1>5, <2>4, <2>5, <2>6 DEF HostContinues
  <1>6. CASE HostEnds
    <2>1. call' = call
      BY <1>6 DEF HostEnds, PollAgain, GiveUp, AccessReturns, hostVars
    <2>2. hpc' \in {hpc, "rest", HostAfter(hpc)}
      BY <1>6 DEF HostEnds, PollAgain, GiveUp, AccessReturns, hostVars
    <2>3. hpc' \in HostLines
      BY <1>1, <1>6, <2>2, HostNext DEF HostEnds
    <2>4. gotSt' \in {gotSt, HostRdata} /\ gotReply' \in {gotReply, HostRdata}
      BY <1>6 DEF HostEnds, PollAgain, GiveUp, AccessReturns, hostVars
    <2> QED
      BY <1>1, <1>2, <1>3, <1>6, <2>1, <2>3, <2>4 DEF HostEnds
  <1> QED
    BY <1>4, <1>5, <1>6, HostEdge

LEMMA TypeInit == RpcInit => TypeInv
  <1> SUFFICES ASSUME RpcInit PROVE TypeInv
    OBVIOUS
  <1>1. PICK v \in {ACK, REQUEST} : memB = [w \in WordsB |-> v]
    BY DEF RpcInit
  <1>2. memB \in B!Contents /\ memB["arg"] \in 0..REQUEST
    BY <1>1, Constants DEF B!Contents
  <1>3. memA \in A!Contents /\ doA \in Values /\ doB \in Values /\ rdataQ \in Values
    BY Constants DEF RpcInit, A!Contents
  <1>4. HostOK /\ IopOK
    BY DEF RpcInit, BusInit, HostOK, IopOK, HostLines, IopLines, Idle
  <1>5. phase \in 0..(N - 1) /\ apb = Idle /\ core = Idle
    BY Constants DEF RpcInit, BusInit
  <1>6. <<h2c, c2h, iopReset, nmi, nmiPulse>>
          \in BOOLEAN \X BOOLEAN \X BOOLEAN \X BOOLEAN \X BOOLEAN
    BY DEF RpcInit, C!CtrlInit
  <1>7. /\ call \in 0..Calls /\ gotSt \in Values /\ gotReply \in Values
        /\ cmd \in Values /\ served \in [1..Calls -> Nat]
    BY Constants DEF RpcInit
  <1> QED
    BY <1>2, <1>3, <1>4, <1>5, <1>6, <1>7 DEF TypeInv, RpcTypeOK

LEMMA NmiTypes ==
  ASSUME TypeInv, RpcEdge PROVE nmi' \in BOOLEAN /\ nmiPulse' \in BOOLEAN
  <1>1. nmi \in BOOLEAN /\ nmiPulse \in BOOLEAN
    BY DEF TypeInv, RpcTypeOK
  <1>2. /\ nmiPulse' = C!NmiFires
        /\ nmi' = IF nmi /\ ~nmiPulse THEN FALSE ELSE nmi \/ C!NmiFires
    BY DEF RpcEdge, C!CtrlStep, C!Nmi
  <1>3. ~C!NmiFires
    <2> SUFFICES ASSUME C!NmiFires PROVE FALSE
      OBVIOUS
    <2>1. apb.st = "access" /\ hpc \in {"hold", "release"} /\ apb.op.nmi
      BY Lines DEF C!NmiFires
    <2>2. apb.op \in {Control(TRUE), Control(FALSE)}
      BY <2>1, HostAccess, States
    <2> QED
      BY <2>1, <2>2 DEF Control
  <1>4. C!NmiFires \in BOOLEAN
    BY DEF C!NmiFires
  <1>5. nmiPulse' \in BOOLEAN
    BY <1>2, <1>4
  <1>6. CASE nmi /\ ~nmiPulse
    BY <1>2, <1>5, <1>6
  <1>7. CASE ~(nmi /\ ~nmiPulse)
    <2>1. nmi' = (nmi \/ C!NmiFires)
      BY <1>2, <1>7
    <2> QED
      BY <1>5, <2>1
  <1> QED
    BY <1>6, <1>7

LEMMA TypeStep == ASSUME TypeInv, [RpcEdge]_rpcVars PROVE TypeInv'
  <1>1. CASE RpcEdge
    <2>1. phase' \in 0..(N - 1)
      BY <1>1, Constants DEF RpcEdge, ClockStep, TypeInv, RpcTypeOK
    <2>2. memB' \in B!Contents /\ memB'["arg"] \in 0..REQUEST /\ doB' \in Values
      BY <1>1, MailboxTypes
    <2>3. rdataQ' \in Values
      BY <1>1 DEF RpcEdge, CaptureB, TypeInv, RpcTypeOK
    <2>4. <<h2c', c2h', iopReset', nmi', nmiPulse'>>
            \in BOOLEAN \X BOOLEAN \X BOOLEAN \X BOOLEAN \X BOOLEAN
      BY <1>1, Bells, NmiTypes
    <2>5. HostOK' /\ call' \in 0..Calls /\ gotSt' \in Values /\ gotReply' \in Values
      BY <1>1, HostTypes
    <2>6. IopOK' /\ cmd' \in Values /\ served' \in [1..Calls -> Nat]
      BY <1>1, ServiceTypes
    <2>7. /\ apb' = Idle \/ apb'.st \in {"setup", "access"}
          /\ core' = Idle \/ core'.st \in {"req", "wait"}
      BY <2>5, <2>6 DEF HostOK, IopOK
    <2>8. memA' \in A!Contents /\ doA' \in Values
      BY <1>1, FirmwareTypes
    <2>9. RpcTypeOK'
      BY <2>1, <2>2, <2>3, <2>4, <2>5, <2>6, <2>7 DEF RpcTypeOK, B!Contents, REQUEST
    <2>10. (memA \in A!Contents /\ doA \in Values)'
      BY <2>8 DEF A!Contents
    <2> QED
      BY <2>5, <2>6, <2>9, <2>10 DEF TypeInv
  <1>2. CASE UNCHANGED rpcVars
    BY <1>2 DEF rpcVars, vars, hostVars, iopVars, TypeInv, RpcTypeOK, HostOK, IopOK,
                HostOp, IopOp, A!Contents, B!Contents
  <1> QED
    BY <1>1, <1>2

\* Whatever the ratio of the clocks, the number of calls and of reloads: no
\* register of the macro and no variable of the two programs takes a value its
\* users do not expect, and a word that is no request is never answered with a
\* reply.
THEOREM RpcTypes == RpcSpec => []RpcTypeOK
  <1>1. TypeInv => RpcTypeOK
    BY DEF TypeInv
  <1> QED
    BY <1>1, TypeInit, TypeStep, PTL DEF RpcSpec
-----------------------------------------------------------------------------
(***************************************************************************)
(* What holds from one end of a call to the other, while no call has given *)
(* up.  Outside a call the IOP does nothing and no doorbell is up; while   *)
(* the host waits, the line of the service says what of the answer is in   *)
(* the mailbox already.  The ratio matters twice: a load must not be taken *)
(* before its word is latched (N = 1), and the core must have let go of    *)
(* its C2H store before the host, that saw the bell, clears it (N >= 4).   *)
(***************************************************************************)
\* The host takes what its word holds.
HostReads ==
    (apb.st = "access" /\ pending /\ hpc \in {"status", "reply"})
    => /\ hostSrc = "B"
       /\ doB = memB[IF hpc = "status" THEN "st" ELSE "arg"]

\* The load under way will deliver v: it is in Do0 for one edge, then latched.
Loading(v) == core.st = "wait" => IF phase = 0 THEN grantQ /\ doB = v ELSE ~grantQ /\ rdataQ = v

\* A request held by the core has been at the registers for an edge already.
Stored == core.st = "req" /\ phase # 0

Quiet == ipc \in {"boot", "main"} /\ core = Idle /\ ~h2c /\ ~c2h
Asked == memB["tok"] = REQUEST /\ memB["arg"] = call /\ ~c2h /\ served[call] = 0
Carried == ~h2c /\ served[call] = 1 /\ cmd = call
Answer == memB["arg"] = Reply(call) /\ memB["st"] = Status(call) /\ served[call] = 1

\* The service, line by line, while the host waits for it.
Service ==
    /\ ipc \in {"boot", "main"} => core = Idle
    /\ \/ ipc \in {"boot", "main", "pending"} /\ h2c /\ Asked
       \/ ipc = "ack" /\ (h2c <=> ~Stored) /\ Asked
       \/ ipc = "token" /\ ~h2c /\ Asked /\ Loading(REQUEST)
       \/ ipc = "command" /\ ~h2c /\ Asked /\ Loading(call)
       \/ ipc = "reply" /\ Carried /\ ~c2h
       \/ ipc = "status" /\ Carried /\ ~c2h /\ memB["arg"] = Reply(call)
       \/ ipc = "done" /\ ~h2c /\ ~c2h /\ Answer
       \/ ipc = "raise" /\ ~h2c /\ (c2h <=> Stored) /\ Answer
       \/ ipc = "main" /\ ~h2c /\ c2h /\ Answer

\* The host has seen the bell and its clearing is still to come.
Clearing ==
    /\ ~h2c /\ c2h /\ Answer
    /\ \/ ipc = "main" /\ core = Idle
       \/ ipc = "raise" /\ core.st = "req" /\ phase = 2 /\ apb.st # "access"

CallOK ==
    /\ hpc \in InCall \cup {"rest"} => ~iopReset
    /\ hpc \in InCall => call \in 1..Calls /\ gotReply = 0
    /\ \A i \in 1..Calls : served[i] <= 1 /\ (i > call => served[i] = 0)
    /\ hpc \notin {"wait", "clear"} => Quiet
    /\ hpc \in {"args", "sentinel", "ring"} => served[call] = 0
    /\ hpc \in {"sentinel", "ring"} => memB["arg"] = call
    /\ hpc = "ring" => memB["tok"] = REQUEST
    /\ hpc = "wait" => Service
    /\ hpc = "clear" => Clearing
    /\ hpc \in {"status", "reply"} => Answer
    /\ hpc = "reply" => gotSt = Status(call)
    /\ gotReply # 0 => /\ call \in 1..Calls /\ served[call] = 1
                       /\ gotSt = Status(call) /\ gotReply = Reply(call)
CallInv == gaveUp \/ CallOK
-----------------------------------------------------------------------------
LEMMA Phases ==
  ASSUME N \in {2, 3}, TypeInv, RpcEdge
  PROVE  /\ phase \in {0, 1, 2} /\ (ClkIop <=> phase = N - 1)
         /\ phase = 0 => ~ClkIop
         /\ phase = 2 => ClkIop
         /\ ClkIop => phase' = 0
         /\ ~ClkIop => phase' = phase + 1
  BY DEF TypeInv, RpcTypeOK, RpcEdge, ClockStep, ClkIop

LEMMA HostReadsStep == ASSUME TypeInv, HostReads, RpcEdge PROVE HostReads'
  <1> SUFFICES ASSUME apb'.st = "access", pending', hpc' \in {"status", "reply"}
               PROVE  hostSrc' = "B" /\ doB' = memB'[IF hpc' = "status" THEN "st" ELSE "arg"]
    BY DEF HostReads
  <1>1. HostSource
    BY DEF RpcEdge
  <1>2. apb.st = "access"
    BY <1>1 DEF HostSource, Access
  <1>3. ~HostBegins
    BY DEF HostBegins, Idle, Setup
  <1>4. hpc' = hpc
    BY <1>2, <1>3, HostEdge DEF HostRests, HostContinues, HostEnds, hostVars
  <1>5. HostReqB
    BY <1>2, <1>4, Lines
  <1>6. /\ memB' = memB
        /\ hpc = "status" => doB' = memB["st"]
        /\ hpc = "reply" => doB' = memB["arg"]
    BY <1>4, <1>5, Mailbox
  <1>7. hostSrc' = "B"
    BY <1>1, <1>5 DEF HostSource, HostReqB, Access
  <1> QED
    BY <1>4, <1>6, <1>7

LEMMA HostTakes ==
  ASSUME TypeInv, HostReads, apb.st = "access", HostReady
  PROVE  /\ hpc = "status" => HostRdata = memB["st"]
         /\ hpc = "reply" => HostRdata = memB["arg"]
  <1>1. apb # Idle
    BY DEF Idle
  <1>2. hpc \in {"status", "reply"} => pending
    BY <1>1, HostKinds DEF HostReady, Access, RegisterPage
  <1> QED
    BY <1>2 DEF HostReads, HostRdata

\* With nothing rung the IOP stays where it is.
LEMMA QuietStep ==
  ASSUME TypeInv, RpcEdge, Quiet
  PROVE  /\ ipc' \in {"boot", "main"} /\ core' = Idle
         /\ served' = served /\ cmd' = cmd
         /\ ~c2h' /\ (h2c' <=> apb.st = "access" /\ hpc = "ring")
         /\ ~HostReqB => memB' = memB
  <1>1. ipc \in {"boot", "main"} /\ core = Idle /\ ~h2c /\ ~c2h /\ core.st = "idle"
    BY DEF Quiet, Idle
  <1>2. ~CoreEnds /\ ~CoreAccepted
    BY <1>1 DEF CoreEnds, CoreAccepted
  <1>3. CoreHeld => ipc' = "boot" /\ core' = Idle /\ served' = served /\ cmd' = cmd
    BY <1>1 DEF CoreHeld
  <1>4. CoreContinues => ipc' = ipc /\ core' = Idle /\ served' = served /\ cmd' = cmd
    BY <1>1 DEF CoreContinues, IopRests, iopVars
  <1>5. CoreBetween => ipc' \in {"main", ipc} /\ core' = Idle /\ served' = served /\ cmd' = cmd
    <2>1. IopOp(ipc) = {}
      BY <1>1 DEF IopOp
    <2> QED
      BY <1>1, <2>1 DEF CoreBetween, IopRests, iopVars, Boot, TakeInterrupt
  <1>6. ipc' \in {"boot", "main"} /\ core' = Idle /\ served' = served /\ cmd' = cmd
    BY <1>1, <1>2, <1>3, <1>4, <1>5, CoreEdge
  <1>7. ~c2h' /\ (h2c' <=> apb.st = "access" /\ hpc = "ring")
    BY <1>1, Bells
  <1>8. ~GrantCoreB
    BY <1>1, Lines DEF GrantCoreB
  <1> QED
    BY <1>6, <1>7, <1>8, Mailbox
-----------------------------------------------------------------------------
(***************************************************************************)
(* The service while the host waits.                                       *)
(***************************************************************************)
LEMMA Waiting ==
  ASSUME N \in {2, 3}, TypeInv, RpcEdge, hpc = "wait", ~iopReset
  PROVE  /\ call' = call /\ ~iopReset'
         /\ h2c' <=> h2c /\ ~(core.st = "req" /\ ipc = "ack")
         /\ c2h' <=> c2h \/ (core.st = "req" /\ ipc = "raise")
         /\ ~CoreReqB => memB' = memB
         /\ GrantCoreB <=> CoreReqB
         /\ \/ ~ClkIop /\ core' = core /\ IopRests
            \/ CoreBetween
            \/ CoreAccepted
            \/ CoreEnds
  <1>1. call' = call
    BY HostEdge DEF HostRests, HostContinues, HostEnds, PollAgain, GiveUp, AccessReturns, hostVars
  <1>2. ~HostReqB
    BY Lines
  <1>3. GrantCoreB <=> CoreReqB
    BY <1>2 DEF GrantCoreB
  <1>4. ~CoreReqB => memB' = memB
    BY <1>2, <1>3, Mailbox
  <1>5. ~CoreHeld /\ (CoreContinues => ~ClkIop /\ core' = core /\ IopRests)
    BY <1>2 DEF CoreHeld, CoreContinues, Busy
  <1>6. /\ ~iopReset'
        /\ h2c' <=> h2c /\ ~(core.st = "req" /\ ipc = "ack")
        /\ c2h' <=> c2h \/ (core.st = "req" /\ ipc = "raise")
    BY Bells
  <1> QED
    BY <1>1, <1>3, <1>4, <1>5, <1>6, CoreEdge

\* Within a line: the core rests, begins a request, has it accepted, or lets a
\* clk_iop cycle pass.
LineGoesOn ==
    /\ IopRests
    /\ \/ core = Idle /\ core' = Idle
       \/ core = Idle /\ ClkIop /\ core'.st = "req"
       \/ core # Idle /\ ~ClkIop /\ core' = core
       \/ /\ core.st = "req" /\ ClkIop /\ core'.st = "wait"
          /\ ipc \in {"pending", "token", "command"}

LEMMA LineMoves ==
  ASSUME N \in {2, 3}, TypeInv, RpcEdge, hpc = "wait", ~iopReset, ipc \notin {"boot", "main"}
  PROVE  LineGoesOn \/ CoreEnds
  <1>1. CASE ~ClkIop /\ core' = core /\ IopRests
    BY <1>1 DEF LineGoesOn
  <1>2. CASE CoreBetween
    <2>1. IopRests
      BY <1>2 DEF CoreBetween, Boot, TakeInterrupt
    <2>2. core' = Idle \/ core'.st = "req"
      BY <1>2 DEF CoreBetween, Request
    <2> QED
      BY <1>2, <2>1, <2>2 DEF LineGoesOn, CoreBetween
  <1>3. CASE CoreAccepted
    <2>1. core # Idle
      BY <1>3 DEF CoreAccepted, Idle
    <2>2. ipc \in {"pending", "token", "command"}
      BY <1>3, <2>1, CoreKinds, CoreAccess DEF CoreAccepted
    <2> QED
      BY <1>3, <2>2 DEF CoreAccepted, LineGoesOn, Await
  <1> QED
    BY <1>1, <1>2, <1>3, Waiting

\* The load of a mailbox word delivers what the word holds.
LEMMA LoadStep ==
  ASSUME N \in {2, 3}, TypeInv, RpcEdge, hpc = "wait", ~iopReset,
         ipc \in {"token", "command"}, NEW v,
         v = memB[IF ipc = "token" THEN "tok" ELSE "arg"], Loading(v)
  PROVE  /\ LineGoesOn => Loading(v)'
         /\ CoreEnds => rdataQ = v
  <1>1. CaptureB
    BY DEF RpcEdge
  <1>2. CoreEnds => core.st = "wait" /\ ClkIop
    BY NextLine
  <1>3. CoreEnds => rdataQ = v
    BY <1>2, Phases DEF Loading
  <1>4. ASSUME LineGoesOn, core'.st = "wait", core.st = "req", ClkIop
        PROVE  phase' = 0 /\ grantQ' /\ doB' = v
    <2>1. CoreReqB
      BY <1>4, Lines
    <2>2. GrantCoreB
      BY <2>1, Waiting
    <2> QED
      BY <1>1, <1>4, <2>2, Mailbox, Phases DEF CaptureB
  <1>5. ASSUME LineGoesOn, core'.st = "wait", core.st = "wait", ~ClkIop
        PROVE  phase' # 0 /\ ~grantQ' /\ rdataQ' = v
    <2>1. ~GrantCoreB
      BY <1>5, Lines DEF GrantCoreB
    <2>2. phase' # 0
      BY <1>5, Phases
    <2>3. ~grantQ' /\ rdataQ' = (IF grantQ THEN doB ELSE rdataQ)
      BY <1>1, <2>1 DEF CaptureB
    <2>4. CASE phase = 0
      BY <1>5, <2>2, <2>3, <2>4 DEF Loading
    <2>5. CASE phase # 0
      BY <1>5, <2>2, <2>3, <2>5 DEF Loading
    <2> QED
      BY <2>4, <2>5
  <1>6. LineGoesOn /\ core'.st = "wait" => (core.st = "req" /\ ClkIop) \/ (core.st = "wait" /\ ~ClkIop)
    BY States DEF LineGoesOn, Idle
  <1>7. LineGoesOn => Loading(v)'
    <2>1. ASSUME LineGoesOn, core'.st = "wait"
          PROVE  \/ phase' = 0 /\ grantQ' /\ doB' = v
                 \/ phase' # 0 /\ ~grantQ' /\ rdataQ' = v
      BY <1>4, <1>5, <1>6, <2>1
    <2> QED
      BY <2>1 DEF Loading
  <1> QED
    BY <1>3, <1>7

LEMMA AskedKept ==
  ASSUME TypeInv, memB' = memB, call' = call, served' = served, ~c2h', Asked PROVE Asked'
  BY DEF Asked

LEMMA AnswerKept ==
  ASSUME TypeInv, call' = call, served' = served, Answer,
         memB'["arg"] = memB["arg"], memB'["st"] = memB["st"]
  PROVE  Answer'
  BY DEF Answer, Reply, Status

LEMMA ReplyKept == ASSUME call' = call PROVE Reply(call)' = Reply(call) /\ Status(call)' = Status(call)
  BY DEF Reply, Status

\* One line of the service: a store has been made when it ends, a load has
\* delivered its word.
LEMMA PendingLine ==
  ASSUME N \in {2, 3}, TypeInv, RpcEdge, hpc = "wait", ~iopReset,
         ipc \in {"boot", "main", "pending"}, ipc \in {"boot", "main"} => core = Idle,
         h2c, Asked
  PROVE  Service'
  <1>1. h2c' /\ ~c2h' /\ memB' = memB /\ call' = call
    BY Waiting, Lines DEF Asked
  <1>2. CASE ipc = "pending" /\ CoreEnds
    <2>1. ipc' = "ack" /\ core' = Idle /\ served' = served
      BY <1>2, NextLine, IopOrder
    <2>2. ~Stored'
      BY <2>1 DEF Stored, Idle
    <2> QED
      BY <1>1, <2>1, <2>2, AskedKept DEF Service
  <1>3. CASE ipc = "pending" /\ LineGoesOn
    BY <1>1, <1>3, AskedKept DEF Service, LineGoesOn, IopRests, iopVars
  <1>4. CASE ipc \in {"boot", "main"}
    <2>1. core = Idle /\ core.st = "idle"
      BY <1>4 DEF Idle
    <2>2. ~CoreAccepted /\ ~CoreEnds
      BY <2>1 DEF CoreAccepted, CoreEnds
    <2>3. IopOp(ipc) = {}
      BY <1>4 DEF IopOp
    <2>4. core' = Idle /\ served' = served /\ ipc' \in {"boot", "main", "pending"}
      BY <1>4, <2>1, <2>2, <2>3, Waiting
      DEF CoreBetween, IopRests, iopVars, Boot, TakeInterrupt
    <2> QED
      BY <1>1, <2>4, AskedKept DEF Service
  <1> QED
    BY <1>2, <1>3, <1>4, LineMoves

LEMMA AckLine ==
  ASSUME N \in {2, 3}, TypeInv, RpcEdge, hpc = "wait", ~iopReset,
         ipc = "ack", h2c <=> ~Stored, Asked
  PROVE  Service'
  <1>1. /\ ~c2h' /\ memB' = memB /\ call' = call
        /\ h2c' <=> h2c /\ core.st # "req"
    BY Waiting, Lines DEF Asked
  <1>2. CASE CoreEnds
    <2>1. ipc' = "token" /\ core' = Idle /\ served' = served /\ core.st = "req"
      BY <1>2, NextLine, IopOrder
    <2>2. ~h2c' /\ core'.st # "wait"
      BY <1>1, <2>1 DEF Idle
    <2>3. Loading(REQUEST)'
      BY <2>2 DEF Loading
    <2> QED
      BY <1>1, <2>1, <2>2, <2>3, AskedKept DEF Service
  <1>3. CASE LineGoesOn
    <2>1. ipc' = "ack" /\ served' = served
      BY <1>3 DEF LineGoesOn, IopRests, iopVars
    <2>2. CASE core = Idle /\ core' = Idle
      <3>1. core.st # "req" /\ core'.st # "req"
        BY <2>2 DEF Idle
      <3> QED
        BY <1>1, <2>1, <3>1, AskedKept DEF Service, Stored
    <2>3. CASE core = Idle /\ ClkIop /\ core'.st = "req"
      <3>1. core.st # "req" /\ phase' = 0
        BY <2>3, Phases DEF Idle
      <3> QED
        BY <1>1, <2>1, <3>1, AskedKept DEF Service, Stored
    <2>4. CASE core # Idle /\ ~ClkIop /\ core' = core
      <3>1. core.st = "req"
        BY <2>4, States, LoadedData
      <3>2. phase' # 0 /\ core'.st = "req"
        BY <2>4, <3>1, Phases DEF TypeInv, RpcTypeOK
      <3> QED
        BY <1>1, <2>1, <3>1, <3>2, AskedKept DEF Service, Stored
    <2> QED
      BY <1>3, <2>2, <2>3, <2>4 DEF LineGoesOn
  <1> QED
    BY <1>2, <1>3, LineMoves

LEMMA TokenLine ==
  ASSUME N \in {2, 3}, TypeInv, RpcEdge, hpc = "wait", ~iopReset,
         ipc = "token", ~h2c, Asked, Loading(REQUEST)
  PROVE  Service'
  <1>1. CoreReqB => GrantCoreB
    BY Waiting
  <1>2. ~h2c' /\ ~c2h' /\ memB' = memB /\ call' = call
    BY <1>1, Waiting, Mailbox DEF Asked
  <1>3. REQUEST = memB[IF ipc = "token" THEN "tok" ELSE "arg"]
    BY DEF Asked
  <1>4. CASE CoreEnds
    <2>1. rdataQ = REQUEST
      BY <1>3, <1>4, LoadStep
    <2>2. ipc' = "command" /\ core' = Idle /\ served' = served
      BY <1>4, <2>1, NextLine, IopOrder
    <2>3. Loading(call)'
      BY <2>2 DEF Loading, Idle
    <2> QED
      BY <1>2, <2>2, <2>3, AskedKept DEF Service
  <1>5. CASE LineGoesOn
    <2>1. ipc' = "token" /\ served' = served
      BY <1>5 DEF LineGoesOn, IopRests, iopVars
    <2>2. Loading(REQUEST)'
      BY <1>3, <1>5, LoadStep DEF Loading
    <2> QED
      BY <1>2, <2>1, <2>2, AskedKept DEF Service
  <1> QED
    BY <1>4, <1>5, LineMoves

LEMMA CommandLine ==
  ASSUME N \in {2, 3}, TypeInv, RpcEdge, hpc = "wait", ~iopReset, call \in 1..Calls,
         ipc = "command", ~h2c, Asked, Loading(call)
  PROVE  /\ Service'
         /\ served' = served \/ served' = [served EXCEPT ![call] = @ + 1]
  <1>1. CoreReqB => GrantCoreB
    BY Waiting
  <1>2. ~h2c' /\ ~c2h' /\ memB' = memB /\ call' = call
    BY <1>1, Waiting, Mailbox DEF Asked
  <1>3. call = memB[IF ipc = "token" THEN "tok" ELSE "arg"]
    BY DEF Asked
  <1>4. CASE CoreEnds
    <2>1. rdataQ = call
      BY <1>3, <1>4, LoadStep
    <2>2. ipc' = "reply" /\ cmd' = call /\ served' = [served EXCEPT ![call] = @ + 1]
      BY <1>4, <2>1, NextLine, IopOrder
    <2>3. served'[call] = 1
      BY <2>2 DEF Asked, TypeInv, RpcTypeOK
    <2> QED
      BY <1>2, <2>2, <2>3 DEF Service, Carried
  <1>5. CASE LineGoesOn
    <2>1. ipc' = "command" /\ served' = served
      BY <1>5 DEF LineGoesOn, IopRests, iopVars
    <2>2. Loading(call)'
      BY <1>2, <1>3, <1>5, LoadStep DEF Loading
    <2> QED
      BY <1>2, <2>1, <2>2, AskedKept DEF Service
  <1> QED
    BY <1>4, <1>5, LineMoves

LEMMA StoreLine ==
  ASSUME N \in {2, 3}, TypeInv, RpcEdge, hpc = "wait", ~iopReset,
         ipc \in {"reply", "status", "done"}, ~h2c, ~c2h
  PROVE  /\ ~h2c' /\ ~c2h' /\ call' = call /\ served' = served /\ cmd' = cmd
         /\ LineGoesOn => ipc' = ipc
         /\ CoreEnds => ipc' = IopAfter(ipc) /\ core' = Idle /\ GrantCoreB
         /\ LineGoesOn \/ CoreEnds
         /\ ~GrantCoreB => memB' = memB
  <1>1. ~h2c' /\ ~c2h' /\ call' = call
    BY Waiting
  <1>2. LineGoesOn \/ CoreEnds
    BY LineMoves
  <1>3. LineGoesOn => ipc' = ipc /\ served' = served /\ cmd' = cmd
    BY DEF LineGoesOn, IopRests, iopVars
  <1>4. CoreEnds => /\ ipc' = IopAfter(ipc) /\ core' = Idle /\ core.st = "req"
                    /\ served' = served /\ cmd' = cmd
    BY NextLine
  <1>5. core.st = "req" => GrantCoreB
    BY Waiting, Lines
  <1>6. ~GrantCoreB => memB' = memB
    BY Waiting
  <1> QED
    BY <1>1, <1>2, <1>3, <1>4, <1>5, <1>6

LEMMA ReplyLine ==
  ASSUME N \in {2, 3}, TypeInv, RpcEdge, hpc = "wait", ~iopReset,
         ipc = "reply", Carried, ~c2h
  PROVE  Service' /\ served' = served
  <1>1. /\ ~h2c' /\ ~c2h' /\ call' = call /\ served' = served /\ cmd' = cmd
        /\ LineGoesOn => ipc' = "reply"
        /\ CoreEnds => ipc' = "status" /\ GrantCoreB
        /\ LineGoesOn \/ CoreEnds
    BY StoreLine, IopOrder DEF Carried
  <1>2. Carried'
    BY <1>1 DEF Carried
  <1>3. CASE CoreEnds
    <2>1. memB' = [memB EXCEPT !["arg"] = Reply(cmd)]
      BY <1>1, <1>3, Mailbox
    <2>2. "arg" \in WordsB /\ memB \in [WordsB -> Values]
      BY Constants DEF TypeInv, RpcTypeOK, B!Contents
    <2>3. memB'["arg"] = Reply(call)
      BY <2>1, <2>2 DEF Carried
    <2>4. (memB["arg"] = Reply(call))'
      BY <1>1, <2>3, ReplyKept
    <2> QED
      BY <1>1, <1>2, <1>3, <2>4 DEF Service
  <1>4. CASE LineGoesOn
    BY <1>1, <1>2, <1>4 DEF Service
  <1> QED
    BY <1>1, <1>3, <1>4

LEMMA StatusLine ==
  ASSUME N \in {2, 3}, TypeInv, RpcEdge, hpc = "wait", ~iopReset,
         ipc = "status", Carried, ~c2h, memB["arg"] = Reply(call)
  PROVE  Service' /\ served' = served
  <1>1. /\ ~h2c' /\ ~c2h' /\ call' = call /\ served' = served /\ cmd' = cmd
        /\ LineGoesOn => ipc' = "status"
        /\ CoreEnds => ipc' = "done" /\ GrantCoreB
        /\ LineGoesOn \/ CoreEnds
        /\ ~GrantCoreB => memB' = memB
    BY StoreLine, IopOrder DEF Carried
  <1>2. /\ "arg" \in WordsB /\ "st" \in WordsB /\ "arg" # "st"
        /\ memB \in [WordsB -> Values]
    BY Constants DEF TypeInv, RpcTypeOK, B!Contents
  <1>3. GrantCoreB => memB'["arg"] = memB["arg"] /\ memB'["st"] = Status(cmd)
    BY <1>2, Mailbox
  <1>4. memB'["arg"] = Reply(call)
    BY <1>1, <1>3
  <1>5. (memB["arg"] = Reply(call))'
    BY <1>1, <1>4, ReplyKept
  <1>6. CASE CoreEnds
    <2>1. memB'["st"] = Status(call)
      BY <1>1, <1>3, <1>6 DEF Carried
    <2>2. Answer'
      BY <1>1, <1>5, <2>1, ReplyKept DEF Answer, Carried
    <2> QED
      BY <1>1, <1>6, <2>2 DEF Service
  <1>7. CASE LineGoesOn
    <2>1. Carried'
      BY <1>1 DEF Carried
    <2> QED
      BY <1>1, <1>5, <1>7, <2>1 DEF Service
  <1> QED
    BY <1>1, <1>6, <1>7

LEMMA DoneLine ==
  ASSUME N \in {2, 3}, TypeInv, RpcEdge, hpc = "wait", ~iopReset,
         ipc = "done", ~h2c, ~c2h, Answer
  PROVE  Service' /\ served' = served
  <1>1. /\ ~h2c' /\ ~c2h' /\ call' = call /\ served' = served
        /\ LineGoesOn => ipc' = "done"
        /\ CoreEnds => ipc' = "raise" /\ core' = Idle
        /\ LineGoesOn \/ CoreEnds
        /\ ~GrantCoreB => memB' = memB
    BY StoreLine, IopOrder
  <1>2. memB \in [WordsB -> Values] /\ "arg" \in WordsB /\ "st" \in WordsB
    BY Constants DEF TypeInv, RpcTypeOK, B!Contents
  <1>3. memB'["arg"] = memB["arg"] /\ memB'["st"] = memB["st"]
    BY <1>1, <1>2, Mailbox
  <1>4. Answer'
    BY <1>1, <1>3, AnswerKept
  <1>5. CoreEnds => ~Stored'
    BY <1>1 DEF Stored, Idle
  <1> QED
    BY <1>1, <1>4, <1>5 DEF Service

LEMMA RaiseLine ==
  ASSUME N \in {2, 3}, TypeInv, RpcEdge, hpc = "wait", ~iopReset,
         ipc = "raise", ~h2c, c2h <=> Stored, Answer
  PROVE  /\ Service' /\ served' = served
         /\ c2h => /\ ~h2c' /\ c2h' /\ Answer'
                   /\ \/ ipc' = "main" /\ core' = Idle
                      \/ ipc' = "raise" /\ core'.st = "req" /\ phase' = 2
  <1>1. /\ ~h2c' /\ memB' = memB /\ call' = call
        /\ c2h' <=> c2h \/ core.st = "req"
    BY Waiting, Lines
  <1>2. LineGoesOn => ipc' = "raise" /\ served' = served
    BY DEF LineGoesOn, IopRests, iopVars
  <1>3. CoreEnds => ipc' = "main" /\ served' = served /\ core' = Idle /\ core.st = "req"
    BY NextLine, IopOrder
  <1>4. LineGoesOn \/ CoreEnds
    BY LineMoves
  <1>5. served' = served /\ Answer'
    BY <1>1, <1>2, <1>3, <1>4, AnswerKept
  <1>6. CASE CoreEnds
    BY <1>1, <1>3, <1>5, <1>6 DEF Service
  <1>7. CASE core = Idle /\ core' = Idle /\ LineGoesOn
    <2>1. core.st # "req" /\ core'.st # "req"
      BY <1>7 DEF Idle
    <2> QED
      BY <1>1, <1>2, <1>5, <1>7, <2>1 DEF Service, Stored
  <1>8. CASE core = Idle /\ ClkIop /\ core'.st = "req" /\ LineGoesOn
    <2>1. core.st # "req" /\ phase' = 0
      BY <1>8, Phases DEF Idle
    <2> QED
      BY <1>1, <1>2, <1>5, <1>8, <2>1 DEF Service, Stored
  <1>9. CASE core # Idle /\ ~ClkIop /\ core' = core /\ LineGoesOn
    <2>1. core.st = "req"
      BY <1>9, States, LoadedData
    <2>2. phase' # 0 /\ core'.st = "req"
      BY <1>9, <2>1, Phases
    <2>3. phase # 0 => phase' = 2
      BY <1>9, Phases
    <2> QED
      BY <1>1, <1>2, <1>5, <1>9, <2>1, <2>2, <2>3 DEF Service, Stored
  <1> QED
    BY <1>4, <1>6, <1>7, <1>8, <1>9 DEF LineGoesOn

LEMMA AnsweredLine ==
  ASSUME N \in {2, 3}, TypeInv, RpcEdge, hpc = "wait", ~iopReset,
         ipc = "main", core = Idle, ~h2c, c2h, Answer
  PROVE  /\ Service' /\ served' = served /\ ~h2c' /\ c2h' /\ Answer'
         /\ ipc' = "main" /\ core' = Idle
  <1>1. core.st = "idle" /\ IopOp(ipc) = {}
    BY DEF Idle, IopOp
  <1>2. ~h2c' /\ c2h' /\ memB' = memB /\ call' = call
    BY <1>1, Waiting, Lines
  <1>3. ~CoreAccepted /\ ~CoreEnds
    BY <1>1 DEF CoreAccepted, CoreEnds
  <1>4. ipc' = "main" /\ core' = Idle /\ served' = served
    BY <1>1, <1>3, Waiting DEF CoreBetween, IopRests, iopVars, Boot, TakeInterrupt
  <1>5. Answer'
    BY <1>2, <1>4, AnswerKept
  <1> QED
    BY <1>2, <1>4, <1>5 DEF Service

LEMMA ServedStep == ASSUME TypeInv, RpcEdge, ipc # "command" PROVE served' = served
  BY CoreEdge, NextLine
  DEF CoreHeld, CoreContinues, CoreBetween, CoreAccepted, IopRests, iopVars, Boot, TakeInterrupt

LEMMA ServiceKeeps ==
  ASSUME N \in {2, 3}, TypeInv, RpcEdge, hpc = "wait", ~iopReset, call \in 1..Calls, Service
  PROVE  /\ Service'
         /\ served' = served
            \/ (served[call] = 0 /\ served' = [served EXCEPT ![call] = @ + 1])
         /\ c2h => /\ ~h2c' /\ c2h' /\ Answer'
                   /\ \/ ipc' = "main" /\ core' = Idle
                      \/ ipc' = "raise" /\ core'.st = "req" /\ phase' = 2
  <1>1. ipc # "command" => served' = served
    BY ServedStep
  <1>2. CASE ipc \in {"boot", "main", "pending"} /\ h2c /\ Asked
    BY <1>1, <1>2, PendingLine DEF Service, Asked
  <1>3. CASE ipc = "ack" /\ (h2c <=> ~Stored) /\ Asked
    BY <1>1, <1>3, AckLine DEF Asked
  <1>4. CASE ipc = "token" /\ ~h2c /\ Asked /\ Loading(REQUEST)
    BY <1>1, <1>4, TokenLine DEF Asked
  <1>5. CASE ipc = "command" /\ ~h2c /\ Asked /\ Loading(call)
    BY <1>5, CommandLine DEF Asked
  <1>6. CASE ipc = "reply" /\ Carried /\ ~c2h
    BY <1>6, ReplyLine
  <1>7. CASE ipc = "status" /\ Carried /\ ~c2h /\ memB["arg"] = Reply(call)
    BY <1>7, StatusLine
  <1>8. CASE ipc = "done" /\ ~h2c /\ ~c2h /\ Answer
    BY <1>8, DoneLine
  <1>9. CASE ipc = "raise" /\ ~h2c /\ (c2h <=> Stored) /\ Answer
    BY <1>9, RaiseLine
  <1>10. CASE ipc = "main" /\ ~h2c /\ c2h /\ Answer
    <2>1. core = Idle
      BY <1>10 DEF Service
    <2> QED
      BY <1>10, <2>1, AnsweredLine
  <1> QED
    BY <1>2, <1>3, <1>4, <1>5, <1>6, <1>7, <1>8, <1>9, <1>10 DEF Service
-----------------------------------------------------------------------------
(***************************************************************************)
(* One edge keeps CallOK as long as no call gives up.                      *)
(***************************************************************************)
LEMMA WaitStep ==
  ASSUME N \in {2, 3}, TypeInv, RpcEdge, CallOK, ~gaveUp', hpc = "wait"
  PROVE  CallOK'
  <1> USE DEF InCall
  <1>1. ~iopReset /\ call \in 1..Calls /\ gotReply = 0 /\ Service
    BY DEF CallOK
  <1>2. call' = call /\ ~iopReset'
    BY <1>1, Waiting
  <1>3. served' = served
        \/ (served[call] = 0 /\ served' = [served EXCEPT ![call] = @ + 1])
    BY <1>1, ServiceKeeps
  <1>4. \A i \in 1..Calls : served'[i] <= 1 /\ (i > call => served'[i] = 0)
    <2>1. served \in [1..Calls -> Nat] /\ \A i \in 1..Calls : served[i] <= 1 /\ (i > call => served[i] = 0)
      BY DEF CallOK, TypeInv, RpcTypeOK
    <2>2. CASE served' = served
      BY <2>1, <2>2
    <2>3. CASE served[call] = 0 /\ served' = [served EXCEPT ![call] = @ + 1]
      BY <1>1, <2>1, <2>3, Constants
    <2> QED
      BY <1>3, <2>2, <2>3
  <1>5. Service'
    BY <1>1, ServiceKeeps
  <1>6. gotReply' = 0
    BY <1>1, HostEdge DEF HostRests, HostContinues, HostEnds, PollAgain, GiveUp, AccessReturns, hostVars
  <1>7. CASE hpc' = "wait"
    BY <1>1, <1>2, <1>4, <1>5, <1>6, <1>7 DEF CallOK
  <1>8. CASE hpc' # "wait"
    <2>1. HostEnds /\ AccessReturns
      BY <1>8, HostEdge DEF HostRests, HostContinues, HostEnds, PollAgain, GiveUp, hostVars
    <2>2. hpc' = "clear" /\ c2h
      BY <2>1, HostNext DEF AccessReturns, Answered, C!Doorbell
    <2>3. apb'.st # "access"
      BY <2>1 DEF HostEnds, HostBegins, Idle, Setup
    <2>4. Clearing'
      BY <1>1, <2>2, <2>3, ServiceKeeps DEF Clearing
    <2> QED
      BY <1>1, <1>2, <1>4, <1>6, <2>2, <2>4 DEF CallOK
  <1> QED
    BY <1>7, <1>8

LEMMA ClearStep ==
  ASSUME N \in {2, 3}, TypeInv, RpcEdge, CallOK, hpc = "clear"
  PROVE  CallOK'
  <1> USE DEF InCall
  <1>1. ~iopReset /\ call \in 1..Calls /\ gotReply = 0 /\ Clearing
    BY DEF CallOK
  <1>2. ~h2c /\ c2h /\ Answer
    BY <1>1 DEF Clearing
  <1>3. /\ ~iopReset' /\ ~h2c'
        /\ c2h' <=> (core.st = "req" /\ ipc = "raise") \/ apb.st # "access"
    BY <1>1, <1>2, Bells
  <1>4. served' = served
    BY <1>1, ServedStep DEF Clearing
  <1>5. ~CoreReqB
    BY <1>1, Lines DEF Clearing
  <1>6. memB' = memB
    BY <1>5, Mailbox, Lines DEF GrantCoreB
  <1>7. ipc' = "main" /\ core' = Idle
    <2>1. CASE ipc = "main" /\ core = Idle
      <3>1. ~CoreHeld /\ ~CoreAccepted /\ ~CoreEnds /\ IopOp(ipc) = {}
        BY <1>1, <2>1 DEF CoreHeld, CoreAccepted, CoreEnds, Idle, IopOp
      <3> QED
        BY <1>2, <2>1, <3>1, CoreEdge
        DEF CoreContinues, CoreBetween, IopRests, iopVars, Boot, TakeInterrupt
    <2>2. CASE ipc = "raise" /\ core.st = "req" /\ phase = 2 /\ apb.st # "access"
      <3>1. ClkIop /\ core # Idle /\ ~Busy
        BY <1>5, <2>2, Phases DEF Idle, Busy
      <3>2. ~CoreHeld /\ ~CoreBetween /\ ~CoreContinues
        BY <1>1, <3>1 DEF CoreHeld, CoreBetween, CoreContinues
      <3>3. ~CoreAccepted
        BY <2>2, <3>1, CoreKinds DEF CoreAccepted
      <3> QED
        BY <2>2, <3>2, <3>3, CoreEdge, NextLine, IopOrder
    <2> QED
      BY <1>1, <2>1, <2>2 DEF Clearing
  <1>8. call' = call /\ gotReply' = 0
    BY <1>1, HostEdge DEF HostRests, HostContinues, HostEnds, PollAgain, GiveUp, AccessReturns, hostVars
  <1>9. Answer'
    BY <1>2, <1>4, <1>6, <1>8, AnswerKept
  <1>10. \A i \in 1..Calls : served'[i] <= 1 /\ (i > call' => served'[i] = 0)
    BY <1>4, <1>8 DEF CallOK
  <1>11. CASE apb.st = "access"
    <2>1. HostReady
      BY <1>11, HostKinds, States DEF HostReady, Access, RegisterPage
    <2>2. hpc' = "status"
      BY <1>11, <2>1, HostEdge, HostNext, States
      DEF HostRests, HostContinues, HostEnds, PollAgain, GiveUp, AccessReturns
    <2>3. ~(core.st = "req" /\ ipc = "raise")
      BY <1>1, <1>11 DEF Clearing, Idle
    <2>4. Quiet'
      BY <1>3, <1>7, <1>11, <2>3 DEF Quiet
    <2> QED
      BY <1>1, <1>3, <1>8, <1>9, <1>10, <2>2, <2>4 DEF CallOK
  <1>12. CASE apb.st # "access"
    <2>1. hpc' = "clear"
      BY <1>12, HostEdge DEF HostRests, HostContinues, HostEnds, hostVars
    <2>2. Clearing'
      BY <1>3, <1>7, <1>9, <1>12 DEF Clearing
    <2> QED
      BY <1>1, <1>3, <1>8, <1>10, <2>1, <2>2 DEF CallOK
  <1> QED
    BY <1>11, <1>12

\* Away from "wait" and "clear" the IOP is quiet: the steps of the host alone.
LEMMA Undisturbed ==
  ASSUME TypeInv, RpcEdge, CallOK, hpc \notin {"wait", "clear"}
  PROVE  /\ Quiet /\ served' = served
         /\ ~(apb.st = "access" /\ hpc = "ring") => Quiet'
         /\ ipc' \in {"boot", "main"} /\ core' = Idle /\ ~c2h'
         /\ h2c' <=> apb.st = "access" /\ hpc = "ring"
         /\ ~HostReqB => memB' = memB
  <1>1. Quiet
    BY DEF CallOK
  <1> QED
    BY <1>1, QuietStep DEF Quiet

LEMMA RestStep ==
  ASSUME TypeInv, RpcEdge, CallOK, HostRests PROVE CallOK'
  <1> USE DEF InCall
  <1>1. hpc = "rest" /\ apb = Idle /\ apb.st # "access"
    BY DEF HostRests, Idle
  <1>2. Quiet' /\ served' = served
    BY <1>1, Undisturbed
  <1>3. ~iopReset /\ ~iopReset'
    BY <1>1, Bells DEF CallOK
  <1>4. /\ \A i \in 1..Calls : served[i] <= 1 /\ (i > call => served[i] = 0)
        /\ gotReply # 0 => /\ call \in 1..Calls /\ served[call] = 1
                           /\ gotSt = Status(call) /\ gotReply = Reply(call)
    BY DEF CallOK
  <1>5. call \in 0..Calls /\ Calls \in Nat
    BY Constants DEF TypeInv, RpcTypeOK
  <1>6. CASE StartCall
    <2>1. hpc' = "args" /\ call' = call + 1 /\ gotReply' = 0 /\ call < Calls
      BY <1>6 DEF StartCall
    <2>2. call' \in 1..Calls /\ served'[call'] = 0
      BY <1>2, <1>4, <1>5, <2>1
    <2>3. \A i \in 1..Calls : served'[i] <= 1 /\ (i > call' => served'[i] = 0)
      BY <1>2, <1>4, <1>5, <2>1
    <2> QED
      BY <1>2, <1>3, <2>1, <2>2, <2>3 DEF CallOK
  <1>7. CASE UNCHANGED hostVars \/ StartReload
    <2>1. /\ hpc' \in {"rest", "hold"} /\ call' = call
          /\ gotSt' = gotSt /\ gotReply' = gotReply
      BY <1>1, <1>7 DEF StartReload, hostVars
    <2> QED
      BY <1>2, <1>3, <1>4, <2>1, ReplyKept DEF CallOK
  <1> QED
    BY <1>6, <1>7 DEF HostRests

LEMMA ContinueStep ==
  ASSUME TypeInv, RpcEdge, CallOK, HostContinues, hpc \notin {"wait", "clear"}
  PROVE  CallOK'
  <1> USE DEF InCall
  <1>1. hpc' = hpc /\ call' = call /\ gotSt' = gotSt /\ gotReply' = gotReply
    BY DEF HostContinues, hostVars
  <1>2. ~(apb.st = "access" /\ hpc = "ring")
    <2> SUFFICES ASSUME apb.st = "access", hpc = "ring" PROVE FALSE
      OBVIOUS
    <2>1. HostReady
      BY HostKinds, States DEF HostReady, Access, RegisterPage
    <2> QED
      BY <2>1, States DEF HostContinues
  <1>3. Quiet' /\ served' = served
    BY <1>2, Undisturbed
  <1>4. hpc' \in InCall \cup {"rest"} => ~iopReset'
    BY <1>1, Bells DEF CallOK
  <1>5. /\ hpc \in {"sentinel", "ring", "status", "reply"} => memB'["arg"] = memB["arg"]
        /\ hpc \in {"ring", "status", "reply"} => memB' = memB
    <2>1. memB \in [WordsB -> Values] /\ "arg" \in WordsB /\ "tok" \in WordsB
      BY Constants DEF TypeInv, RpcTypeOK, B!Contents
    <2>2. CASE HostReqB
      BY <2>1, <2>2, Mailbox, Lines
    <2>3. CASE ~HostReqB
      BY <2>3, Undisturbed
    <2> QED
      BY <2>2, <2>3
  <1>6. hpc \in {"status", "reply"} => Answer'
    BY <1>1, <1>3, <1>5, AnswerKept DEF CallOK
  <1> QED
    BY <1>1, <1>3, <1>4, <1>5, <1>6, ReplyKept DEF CallOK

LEMMA EndStep ==
  ASSUME TypeInv, HostReads, RpcEdge, CallOK, HostEnds, hpc \notin {"wait", "clear"}
  PROVE  CallOK'
  <1> USE DEF InCall
  <1>1. apb.st = "access" /\ HostReady /\ hpc \in HostLines \ {"rest"}
    BY DEF HostEnds, TypeInv, HostOK
  <1>2. /\ hpc' = HostAfter(hpc) /\ call' = call
        /\ gotSt' = IF hpc = "status" THEN HostRdata ELSE gotSt
        /\ gotReply' = IF hpc = "reply" THEN HostRdata ELSE gotReply
    BY DEF HostEnds, PollAgain, GiveUp, AccessReturns
  <1>3. /\ \A i \in 1..Calls : served[i] <= 1 /\ (i > call => served[i] = 0)
        /\ gotReply # 0 => /\ call \in 1..Calls /\ served[call] = 1
                           /\ gotSt = Status(call) /\ gotReply = Reply(call)
    BY DEF CallOK
  <1>4. /\ served' = served /\ (hpc # "ring" => Quiet')
        /\ Reply(call)' = Reply(call) /\ Status(call)' = Status(call)
    BY <1>2, Undisturbed, ReplyKept
  <1>5. memB \in [WordsB -> Values] /\ "arg" \in WordsB /\ "tok" \in WordsB
    BY Constants DEF TypeInv, RpcTypeOK, B!Contents
  <1>6. hpc \in InCall => ~iopReset' /\ call \in 1..Calls /\ gotReply = 0
    BY Bells DEF CallOK
  <1>7. CASE hpc \in {"hold", "load"}
    BY <1>2, <1>3, <1>4, <1>7, HostNext DEF CallOK
  <1>8. CASE hpc = "release"
    <2>1. ~iopReset'
      BY <1>1, <1>8, Bells
    <2> QED
      BY <1>2, <1>3, <1>4, <1>8, <2>1, HostNext DEF CallOK
  <1>9. CASE hpc = "args"
    <2>1. memB' = [memB EXCEPT !["arg"] = call]
      BY <1>1, <1>9, Lines, Mailbox
    <2>2. memB'["arg"] = call'
      BY <1>2, <1>5, <2>1
    <2>3. served[call] = 0
      BY <1>9 DEF CallOK
    <2> QED
      BY <1>2, <1>3, <1>4, <1>6, <1>9, <2>2, <2>3, HostNext DEF CallOK
  <1>10. CASE hpc = "sentinel"
    <2>1. memB' = [memB EXCEPT !["tok"] = REQUEST]
      BY <1>1, <1>10, Lines, Mailbox
    <2>2. memB["arg"] = call /\ served[call] = 0
      BY <1>10 DEF CallOK
    <2>3. memB'["arg"] = call' /\ memB'["tok"] = REQUEST
      BY <1>2, <1>5, <2>1, <2>2
    <2> QED
      BY <1>2, <1>3, <1>4, <1>6, <1>10, <2>2, <2>3, HostNext DEF CallOK, REQUEST
  <1>11. CASE hpc = "ring"
    <2>1. /\ ipc' \in {"boot", "main"} /\ core' = Idle /\ ~c2h' /\ h2c'
          /\ memB' = memB
      BY <1>1, <1>11, Undisturbed, Lines
    <2>2. memB["tok"] = REQUEST /\ memB["arg"] = call /\ served[call] = 0
      BY <1>11 DEF CallOK
    <2>3. Asked'
      BY <1>2, <1>4, <2>1, <2>2 DEF Asked, REQUEST
    <2>4. Service'
      BY <2>1, <2>3 DEF Service
    <2> QED
      BY <1>2, <1>3, <1>4, <1>6, <1>11, <2>4, HostNext DEF CallOK
  <1>12. CASE hpc \in {"status", "reply"}
    <2>1. Answer /\ memB' = memB
      BY <1>1, <1>12, Lines, Mailbox DEF CallOK
    <2>2. Answer'
      BY <1>2, <1>4, <2>1, AnswerKept
    <2>3. /\ hpc = "status" => gotSt' = Status(call)
          /\ hpc = "reply" => gotReply' = Reply(call) /\ gotSt' = Status(call)
      BY <1>1, <1>2, <2>1, HostTakes DEF Answer, CallOK
    <2>4. served[call] = 1
      BY <2>1 DEF Answer
    <2> QED
      BY <1>2, <1>3, <1>4, <1>6, <1>12, <2>2, <2>3, <2>4, HostNext DEF CallOK
  <1> QED
    BY <1>1, <1>7, <1>8, <1>9, <1>10, <1>11, <1>12 DEF HostLines

LEMMA CallStep ==
  ASSUME N \in {2, 3}, TypeInv, HostReads, CallInv, [RpcEdge]_rpcVars
  PROVE  HostReads' /\ CallInv'
  <1>1. CASE RpcEdge
    <2>1. gaveUp => gaveUp'
      BY <1>1, HostEdge DEF HostRests, HostContinues, HostEnds, StartCall, StartReload,
                            PollAgain, GiveUp, AccessReturns, hostVars
    <2>2. ASSUME ~gaveUp' PROVE CallOK'
      <3>1. CallOK
        BY <2>1, <2>2 DEF CallInv
      <3>2. CASE hpc \in {"wait", "clear"}
        BY <1>1, <2>2, <3>1, <3>2, WaitStep, ClearStep
      <3>3. CASE hpc \notin {"wait", "clear"}
        BY <1>1, <3>1, <3>3, HostEdge, RestStep, ContinueStep, EndStep
      <3> QED
        BY <3>2, <3>3
    <2> QED
      BY <1>1, <2>2, HostReadsStep DEF CallInv
  <1>2. CASE UNCHANGED rpcVars
    BY <1>2 DEF rpcVars, vars, hostVars, iopVars, HostReads, CallInv, CallOK, Quiet, Service,
                Clearing, Asked, Carried, Answer, Loading, Stored, Reply, Status, EINVAL, REQUEST
  <1> QED
    BY <1>1, <1>2

LEMMA CallInit == RpcInit => HostReads /\ CallInv
  <1> SUFFICES ASSUME RpcInit PROVE HostReads /\ CallOK
    BY DEF CallInv
  <1>1. /\ hpc = "hold" /\ apb = Idle /\ core = Idle /\ ipc = "boot" /\ ~h2c /\ ~c2h
        /\ gotReply = 0 /\ served = [i \in 1..Calls |-> 0]
    BY DEF RpcInit, BusInit, C!CtrlInit
  <1> QED
    BY <1>1 DEF HostReads, CallOK, Quiet, InCall

LEMMA CallHolds == ASSUME N \in {2, 3} PROVE RpcSpec => [](TypeInv /\ HostReads /\ CallInv)
  <1>1. TypeInv /\ HostReads /\ CallInv /\ [RpcEdge]_rpcVars => (TypeInv /\ HostReads /\ CallInv)'
    BY TypeStep, CallStep
  <1> QED
    BY <1>1, TypeInit, CallInit, PTL DEF RpcSpec

\* A call that returns has its own status and its own reply, for any number of
\* calls and of firmware reloads between them, as long as no call gave up.
THEOREM AnswersInStep == ASSUME N \in {2, 3} PROVE RpcSpec => []AnswerInStep
  <1>1. CallInv => AnswerInStep
    BY DEF CallInv, CallOK, AnswerInStep, ReplyIsForCall
  <1> QED
    BY <1>1, CallHolds, PTL

\* And its request was carried out exactly once.
THEOREM RequestsOnce == ASSUME N \in {2, 3} PROVE RpcSpec => []ServedOnce
  <1>1. CallInv => ServedOnce
    BY DEF CallInv, CallOK, ServedOnce
  <1> QED
    BY <1>1, CallHolds, PTL

\* A doorbell that the dispatcher answers always has its request behind it, and
\* the load of the sentinel shows it.
THEOREM RequestsSeen == ASSUME N \in {2, 3} PROVE RpcSpec => []NoRequestIgnored
  <1>1. TypeInv /\ CallInv => NoRequestIgnored
    <2> SUFFICES ASSUME TypeInv, CallInv, ipc = "token", core.st = "wait", ClkIop, ~gaveUp
                 PROVE  IopData = REQUEST
      BY DEF NoRequestIgnored
    <2>1. Service
      BY DEF CallInv, CallOK, Quiet, Clearing
    <2>2. phase # 0
      BY DEF ClkIop
    <2>3. rdataQ = REQUEST
      BY <2>1, <2>2 DEF Service, Loading
    <2> QED
      BY <2>3, LoadedData
  <1> QED
    BY <1>1, CallHolds, PTL
-----------------------------------------------------------------------------
(***************************************************************************)
(* The whole of it is one remote call: every edge is a step of RemoteCall  *)
(* or changes nothing the caller can see.                                  *)
(***************************************************************************)
RemoteMoves == Remote!Next \/ UNCHANGED <<call, Stage, served, Result>>

LEMMA RemoteInit == RpcInit => Remote!Init
  BY DEF RpcInit, Remote!Init, Stage, InCall, Result

LEMMA RemoteWaits ==
  ASSUME N \in {2, 3}, TypeInv, CallOK, CallOK', RpcEdge, ~gaveUp, ~gaveUp', hpc = "wait"
  PROVE  RemoteMoves
  <1>1. ~iopReset /\ call \in 1..Calls /\ gotReply = 0 /\ Service
    BY DEF CallOK, InCall
  <1>2. call' = call
    BY <1>1, Waiting
  <1>3. gotReply' = 0 /\ hpc' \in {"wait", "clear"}
    BY <1>1, HostEdge, HostNext
    DEF HostRests, HostContinues, HostEnds, PollAgain, GiveUp, AccessReturns, hostVars
  <1>4. Stage = (IF served[call] = 0 THEN "asked" ELSE "carried")
    BY DEF Stage, InCall
  <1>5. Stage' = (IF served'[call] = 0 THEN "asked" ELSE "carried")
    BY <1>2, <1>3 DEF Stage, InCall
  <1>6. Result' = Result
    BY <1>1, <1>3 DEF Result
  <1>7. CASE served' = served
    BY <1>2, <1>4, <1>5, <1>6, <1>7 DEF RemoteMoves
  <1>8. CASE served[call] = 0 /\ served' = [served EXCEPT ![call] = @ + 1]
    <2>1. served'[call] = 1
      BY <1>1, <1>8 DEF TypeInv, RpcTypeOK
    <2> QED
      BY <1>2, <1>4, <1>5, <1>6, <1>8, <2>1 DEF RemoteMoves, Remote!Next, Remote!CarryOut
  <1> QED
    BY <1>1, <1>7, <1>8, ServiceKeeps

LEMMA RemoteSees ==
  ASSUME N \in {2, 3}, TypeInv, HostReads, CallOK, CallOK', RpcEdge, ~gaveUp, ~gaveUp',
         hpc # "wait"
  PROVE  RemoteMoves
  <1> USE DEF InCall
  <1>1. served' = served
    <2>1. CASE hpc = "clear"
      BY <2>1, ServedStep DEF CallOK, Clearing
    <2>2. CASE hpc # "clear"
      BY <2>2, Undisturbed
    <2> QED
      BY <2>1, <2>2
  <1>2. /\ Stage = IF hpc \notin InCall THEN "rest"
                   ELSE IF served[call] = 0 THEN "asked" ELSE "carried"
        /\ Stage' = IF hpc' \notin InCall THEN "rest"
                    ELSE IF served[call'] = 0 THEN "asked" ELSE "carried"
    BY <1>1 DEF Stage
  <1>3. CASE HostRests /\ StartCall
    <2>1. /\ hpc = "rest" /\ hpc' = "args" /\ call < Calls /\ call' = call + 1 /\ gotReply' = 0
      BY <1>3 DEF StartCall
    <2>2. served'[call'] = 0
      BY <2>1 DEF CallOK
    <2>3. Result' = {} /\ Stage = "rest" /\ Stage' = "asked"
      BY <1>1, <1>2, <2>1, <2>2 DEF Result
    <2> QED
      BY <1>1, <2>1, <2>3 DEF RemoteMoves, Remote!Next, Remote!Ask
  <1>4. CASE (HostRests /\ (UNCHANGED hostVars \/ StartReload)) \/ HostContinues
    <2>1. /\ call' = call /\ gotSt' = gotSt /\ gotReply' = gotReply
          /\ hpc' \in InCall <=> hpc \in InCall
      BY <1>4 DEF HostRests, HostContinues, StartReload, hostVars
    <2>2. Stage' = Stage
      BY <1>2, <2>1
    <2>3. Result' = Result
      BY <2>1 DEF Result
    <2> QED
      BY <1>1, <2>1, <2>2, <2>3 DEF RemoteMoves
  <1>5. CASE HostEnds /\ hpc # "reply"
    <2>1. hpc' = HostAfter(hpc) /\ call' = call /\ gotReply' = gotReply
      BY <1>5 DEF HostEnds, PollAgain, GiveUp, AccessReturns
    <2>2. hpc \in HostLines \ {"rest"}
      BY <1>5 DEF HostEnds, TypeInv, HostOK
    <2>3. hpc' \in InCall <=> hpc \in InCall
      BY <1>5, <2>1, <2>2, HostNext DEF HostLines
    <2>4. gotReply # 0 => gotSt' = gotSt
      <3>1. hpc = "status" => gotReply = 0
        BY DEF CallOK
      <3> QED
        BY <1>5, <3>1 DEF HostEnds, PollAgain, GiveUp, AccessReturns
    <2>5. Stage' = Stage
      BY <1>2, <2>1, <2>3
    <2>6. Result' = Result
      BY <2>1, <2>4 DEF Result
    <2> QED
      BY <1>1, <2>1, <2>5, <2>6 DEF RemoteMoves
  <1>6. CASE HostEnds /\ hpc = "reply"
    <2>1. hpc' = "rest" /\ call' = call /\ gotReply' = HostRdata /\ gotSt' = gotSt
      BY <1>6, HostNext DEF HostEnds, PollAgain, GiveUp, AccessReturns
    <2>2. call \in 1..Calls /\ Answer /\ gotSt = Status(call)
      BY <1>6 DEF CallOK
    <2>3. gotReply' = Reply(call) /\ gotReply' # 0
      BY <1>6, <2>1, <2>2, HostTakes, Answers DEF HostEnds, Answer
    <2>4. Result' = {<<Status(call), Reply(call)>>}
      BY <2>1, <2>2, <2>3 DEF Result
    <2>5. AnswerTo[call] = <<Status(call), Reply(call)>>
      BY <2>2 DEF AnswerTo
    <2>6. Stage = "carried" /\ Stage' = "rest"
      BY <1>2, <1>6, <2>1, <2>2 DEF Answer
    <2> QED
      BY <1>1, <2>1, <2>4, <2>5, <2>6 DEF RemoteMoves, Remote!Next, Remote!Return
  <1> QED
    BY <1>3, <1>4, <1>5, <1>6, HostEdge DEF HostRests

LEMMA RemoteStep ==
  ASSUME N \in {2, 3}, TypeInv, HostReads, CallInv, CallInv', [RpcEdge]_rpcVars
  PROVE  [Remote!Next]_<<call, Stage, served, Result>>
  <1>1. CASE RpcEdge
    <2>1. CASE gaveUp
      <3>1. gaveUp'
        BY <1>1, <2>1, HostEdge DEF HostRests, HostContinues, HostEnds, StartCall, StartReload,
                                   PollAgain, GiveUp, AccessReturns, hostVars
      <3> QED
        BY <2>1, <3>1 DEF Stage, Remote!Next, Remote!NoPromise
    <2>2. CASE ~gaveUp /\ gaveUp'
      <3>1. hpc = "wait"
        BY <1>1, <2>2, HostEdge DEF HostRests, HostContinues, HostEnds, StartCall, StartReload,
                                   PollAgain, GiveUp, AccessReturns, hostVars
      <3>2. Stage \in {"asked", "carried"} /\ Stage' = "lost"
        BY <2>2, <3>1 DEF Stage, InCall
      <3> QED
        BY <3>2 DEF Remote!Next, Remote!GiveUp
    <2>3. CASE ~gaveUp /\ ~gaveUp'
      BY <1>1, <2>3, RemoteWaits, RemoteSees DEF CallInv, RemoteMoves
    <2> QED
      BY <2>1, <2>2, <2>3
  <1>2. CASE UNCHANGED rpcVars
    BY <1>2 DEF rpcVars, hostVars, iopVars, Stage, Result
  <1> QED
    BY <1>1, <1>2

\* The mailbox, the doorbells, the library and the service implement a remote
\* call, whatever the host's and the IOP's pauses between two accesses.
THEOREM RpcIsRemoteCall == ASSUME N \in {2, 3} PROVE RpcSpec => CallsKept
  <1>1. HostReads /\ TypeInv /\ CallInv /\ CallInv' /\ [RpcEdge]_rpcVars
        => [Remote!Next]_<<call, Stage, served, Result>>
    BY RemoteStep
  <1> QED
    BY <1>1, CallHolds, RemoteInit, PTL DEF RpcSpec, CallsKept, Remote!Spec
=============================================================================
